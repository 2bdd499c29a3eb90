----------------------------- MODULE StreamSend -----------------------------
(***************************************************************************)
(* The sending half of one QUIC stream: class stream_send_state of         *)
(* include/flowq/quic/stream.hpp.                                          *)
(*                                                                         *)
(* The bytes appended by the application are identified by their offsets,  *)
(* so bytes_ is represented by its size.  lost_ is a vector used as a      *)
(* queue whose elements are erased from the middle when an ACK covers      *)
(* them; it is represented by the set of its elements, each with its place *)
(* in the order of the vector.  acked_ is only ever searched, so it is a   *)
(* set.                                                                    *)
(*                                                                         *)
(* The caller is part of the model: inflight holds the ranges whose packet *)
(* is outstanding, declared_lost the ranges whose packet was declared      *)
(* lost and may still be acknowledged late.                                *)
(***************************************************************************)
EXTENDS Integers

CONSTANTS
  InitialMaxData,   \* stream credit the state is constructed with
  MaxSize,          \* bound: bytes the application ever appends
  MaxCredit,        \* bound: largest MAX_STREAM_DATA value received
  MaxFrame,         \* bound: largest payload limit a caller of pop_frame passes
  MaxLosses         \* bound: number of ranges that are ever queued as lost

ASSUME ConstantsAreNaturals ==
  /\ InitialMaxData \in Nat
  /\ MaxSize \in Nat
  /\ MaxCredit \in Nat
  /\ MaxFrame \in Nat
  /\ MaxLosses \in Nat

VARIABLES
  size,             \* bytes_.size()
  max_data,
  next_unsent,      \* next_unsent_offset_
  finished,
  fin_sent,
  fin_acked,
  stop_requested,
  lost,             \* lost_: elements [at |-> place, range |-> range]
  lost_end,         \* place of the next element pushed at the back of lost_
  acked,            \* acked_
  inflight,         \* caller: ranges carried by outstanding packets
  declared_lost     \* caller: ranges carried by packets declared lost

vars == <<size, max_data, next_unsent, finished, fin_sent, fin_acked,
          stop_requested, lost, lost_end, acked, inflight, declared_lost>>

stream_send_range == [offset : Nat, length : Nat, fin : BOOLEAN]

Range(o, n, f) == [offset |-> o, length |-> n, fin |-> f]

End(r) == r.offset + r.length

Carries(r, b) == r.offset <= b /\ b < End(r)

Smaller(a, b) == IF a <= b THEN a ELSE b

Larger(a, b) == IF a >= b THEN a ELSE b

-----------------------------------------------------------------------------
(* The private helpers of the class. *)

range_covers(covering, covered) ==
  /\ covering.offset <= covered.offset
  /\ End(covering) >= End(covered)
  /\ covered.fin => covering.fin

is_acked(r) == \E a \in acked : range_covers(a, r)

covers_lost_fin(r) == \E l \in lost : l.range.fin /\ range_covers(r, l.range)

valid_sent_range(r) ==
  /\ r.offset <= size
  /\ r.length <= size - r.offset
  /\ End(r) <= next_unsent
  /\ r.fin => finished /\ End(r) = size

-----------------------------------------------------------------------------
(* Application calls. *)

(* append() without the check of finished_. *)
append_after_finish(n) ==
  /\ ~stop_requested
  /\ size + n <= MaxSize
  /\ size' = size + n
  /\ UNCHANGED <<max_data, next_unsent, finished, fin_sent, fin_acked,
                 stop_requested, lost, lost_end, acked, inflight, declared_lost>>

append(n) ==
  /\ ~stop_requested
  /\ ~finished
  /\ size + n <= MaxSize
  /\ size' = size + n
  /\ UNCHANGED <<max_data, next_unsent, finished, fin_sent, fin_acked,
                 stop_requested, lost, lost_end, acked, inflight, declared_lost>>

finish ==
  /\ ~stop_requested
  /\ finished' = TRUE
  /\ UNCHANGED <<size, max_data, next_unsent, fin_sent, fin_acked,
                 stop_requested, lost, lost_end, acked, inflight, declared_lost>>

-----------------------------------------------------------------------------
(* pop_frame(max).  The recursive call skips acknowledged elements at the  *)
(* front of lost_, so the element served is the first live one, and the    *)
(* acknowledged ones before it are gone afterwards.                        *)

live == {l \in lost : ~is_acked(l.range)}

is_front(l) == l \in live /\ \A m \in live : l.at <= m.at

(* The element served is left in lost_. *)
behind_not_erased(l) == {m \in lost : m.at >= l.at}

behind(l) == {m \in lost : m.at > l.at}

must_split(l, max) == l.range.length > max /\ max > 0

retransmitted(l, max) ==
  IF must_split(l, max) THEN Range(l.range.offset, max, FALSE) ELSE l.range

(* The rest of a split range, one byte short. *)
reinserted_off_by_one(l, max) ==
  IF must_split(l, max)
  THEN {[at |-> l.at,
         range |-> Range(l.range.offset + max + 1, l.range.length - max - 1, l.range.fin)]}
  ELSE {}

reinserted(l, max) ==
  IF must_split(l, max)
  THEN {[at |-> l.at,
         range |-> Range(l.range.offset + max, l.range.length - max, l.range.fin)]}
  ELSE {}

PopLost(max) ==
  /\ ~stop_requested
  /\ \E l \in live :
       /\ is_front(l)
       /\ l.range.length = 0 \/ max > 0
       /\ lost' = behind(l) \union reinserted(l, max)
       /\ fin_sent' = (fin_sent \/ retransmitted(l, max).fin)
       /\ inflight' = inflight \union {retransmitted(l, max)}
  /\ UNCHANGED <<size, max_data, next_unsent, finished, fin_acked,
                 stop_requested, lost_end, acked, declared_lost>>

(* A new range that ignores the stream credit. *)
fresh_without_credit(max) ==
  LET length == Smaller(max, size - next_unsent)
  IN  Range(next_unsent, length, finished /\ next_unsent + length = size /\ size <= max_data)

fresh(max) ==
  LET length == Smaller(max, Smaller(size - next_unsent, max_data - next_unsent))
  IN  Range(next_unsent, length, finished /\ next_unsent + length = size /\ size <= max_data)

PopNew(max) ==
  /\ ~stop_requested
  /\ live = {}
  /\ next_unsent < size
  /\ max > 0
  /\ next_unsent < max_data
  /\ lost' = {}
  /\ next_unsent' = next_unsent + fresh(max).length
  /\ fin_sent' = (fin_sent \/ fresh(max).fin)
  /\ inflight' = inflight \union {fresh(max)}
  /\ UNCHANGED <<size, max_data, finished, fin_acked, stop_requested,
                 lost_end, acked, declared_lost>>

PopFin(max) ==
  /\ ~stop_requested
  /\ live = {}
  /\ ~(next_unsent < size /\ max > 0)
  /\ finished
  /\ ~fin_sent
  /\ ~fin_acked
  /\ next_unsent = size
  /\ size <= max_data
  /\ lost' = {}
  /\ fin_sent' = TRUE
  /\ inflight' = inflight \union {Range(size, 0, TRUE)}
  /\ UNCHANGED <<size, max_data, next_unsent, finished, fin_acked,
                 stop_requested, lost_end, acked, declared_lost>>

pop_frame(max) == PopLost(max) \/ PopNew(max) \/ PopFin(max)

-----------------------------------------------------------------------------
(* Outcomes of packets. *)

(* The range on_acked() records: its FIN is dropped when no FIN is out. *)
recorded(r) ==
  [r EXCEPT !.fin = /\ r.fin
                    /\ fin_sent \/ covers_lost_fin(r)
                    /\ finished /\ End(r) = size]

(* on_acked() that leaves the covered elements of lost_ in place. *)
on_acked_keeps_lost(r) ==
  IF valid_sent_range(r)
  THEN /\ acked' = acked \union {recorded(r)}
       /\ fin_acked' = (fin_acked \/ recorded(r).fin)
       /\ UNCHANGED lost
  ELSE UNCHANGED <<acked, lost, fin_acked>>

on_acked(r) ==
  IF valid_sent_range(r)
  THEN /\ acked' = acked \union {recorded(r)}
       /\ lost' = {l \in lost : ~range_covers(recorded(r), l.range)}
       /\ fin_acked' = (fin_acked \/ recorded(r).fin)
  ELSE UNCHANGED <<acked, lost, fin_acked>>

(* on_lost() that leaves fin_sent_ set. *)
on_lost_keeps_fin_sent(r) ==
  IF ~stop_requested /\ valid_sent_range(r) /\ (r.fin => fin_sent) /\ ~is_acked(r)
  THEN /\ lost' = lost \union {[at |-> lost_end, range |-> r]}
       /\ lost_end' = lost_end + 1
       /\ UNCHANGED fin_sent
  ELSE UNCHANGED <<lost, lost_end, fin_sent>>

(* on_lost() that does not ask for stop_requested_. *)
on_lost_after_stop(r) ==
  IF valid_sent_range(r) /\ (r.fin => fin_sent) /\ ~is_acked(r)
  THEN /\ lost' = lost \union {[at |-> lost_end, range |-> r]}
       /\ lost_end' = lost_end + 1
       /\ fin_sent' = (fin_sent /\ ~r.fin)
  ELSE UNCHANGED <<lost, lost_end, fin_sent>>

on_lost(r) ==
  IF ~stop_requested /\ valid_sent_range(r) /\ (r.fin => fin_sent) /\ ~is_acked(r)
  THEN /\ lost' = lost \union {[at |-> lost_end, range |-> r]}
       /\ lost_end' = lost_end + 1
       /\ fin_sent' = (fin_sent /\ ~r.fin)
  ELSE UNCHANGED <<lost, lost_end, fin_sent>>

(* The packet carrying r is acknowledged. *)
Acked(r) ==
  /\ on_acked(r)
  /\ inflight' = inflight \ {r}
  /\ UNCHANGED <<size, max_data, next_unsent, finished, fin_sent,
                 stop_requested, lost_end, declared_lost>>

(* An ACK arrives for a packet that was already declared lost. *)
AckedLate(r) ==
  /\ on_acked(r)
  /\ declared_lost' = declared_lost \ {r}
  /\ UNCHANGED <<size, max_data, next_unsent, finished, fin_sent,
                 stop_requested, lost_end, inflight>>

(* The packet carrying r is declared lost. *)
Lost(r) ==
  /\ lost_end < MaxLosses
  /\ on_lost(r)
  /\ inflight' = inflight \ {r}
  /\ declared_lost' = declared_lost \union {r}
  /\ UNCHANGED <<size, max_data, next_unsent, finished, fin_acked,
                 stop_requested, acked>>

-----------------------------------------------------------------------------
(* Control frames from the peer. *)

update_max_data(v) ==
  /\ max_data' = Larger(max_data, v)
  /\ UNCHANGED <<size, next_unsent, finished, fin_sent, fin_acked,
                 stop_requested, lost, lost_end, acked, inflight, declared_lost>>

stop_sending ==
  /\ stop_requested' = TRUE
  /\ lost' = {}
  /\ UNCHANGED <<size, max_data, next_unsent, finished, fin_sent, fin_acked,
                 lost_end, acked, inflight, declared_lost>>

-----------------------------------------------------------------------------
Init ==
  /\ size = 0
  /\ max_data = InitialMaxData
  /\ next_unsent = 0
  /\ finished = FALSE
  /\ fin_sent = FALSE
  /\ fin_acked = FALSE
  /\ stop_requested = FALSE
  /\ lost = {}
  /\ lost_end = 0
  /\ acked = {}
  /\ inflight = {}
  /\ declared_lost = {}

Next ==
  \/ \E n \in 1..MaxSize : append(n)
  \/ finish
  \/ \E max \in 0..MaxFrame : pop_frame(max)
  \/ \E r \in inflight : Acked(r) \/ Lost(r)
  \/ \E r \in declared_lost : AckedLate(r)
  \/ \E v \in 0..MaxCredit : update_max_data(v)
  \/ stop_sending

Spec == Init /\ [][Next]_vars

-----------------------------------------------------------------------------
(* The variables have the types of the members they stand for. *)
TypeOK ==
  /\ size \in Nat
  /\ max_data \in Nat
  /\ next_unsent \in Nat
  /\ finished \in BOOLEAN
  /\ fin_sent \in BOOLEAN
  /\ fin_acked \in BOOLEAN
  /\ stop_requested \in BOOLEAN
  /\ lost \in SUBSET [at : Nat, range : stream_send_range]
  /\ lost_end \in Nat
  /\ acked \in SUBSET stream_send_range
  /\ inflight \in SUBSET stream_send_range
  /\ declared_lost \in SUBSET stream_send_range

(* Until the peer sends STOP_SENDING, every byte that was ever handed out  *)
(* by pop_frame() is acknowledged, queued for retransmission or carried by *)
(* an outstanding packet: no order of losses, splits, late ACKs and        *)
(* retransmissions makes the sender forget a byte.                         *)
NoByteForgotten ==
  ~stop_requested =>
    \A b \in 0 .. next_unsent - 1 :
      \/ \E r \in acked : Carries(r, b)
      \/ \E l \in lost : Carries(l.range, b)
      \/ \E r \in inflight : Carries(r, b)

(* The same for the FIN: when fin_sent_ says that it is out, it is on its  *)
(* way or acknowledged; when it is not, pop_frame() can still produce it.  *)
NoFinForgotten ==
  ~stop_requested /\ fin_sent => fin_acked \/ \E r \in inflight : r.fin

(* No byte and no FIN is outstanding twice: ranges in flight and ranges    *)
(* queued in lost_ never overlap, so a loss is retransmitted only once.    *)
Disjoint(r, q) ==
  /\ End(r) <= q.offset \/ End(q) <= r.offset \/ r.length = 0 \/ q.length = 0
  /\ ~(r.fin /\ q.fin)

OneCopyOutstanding ==
  /\ \A r, q \in inflight : r # q => Disjoint(r, q)
  /\ \A l, m \in lost : l # m => l.at # m.at /\ Disjoint(l.range, m.range)
  /\ \A r \in inflight, l \in lost : Disjoint(r, l.range)

(* Stream flow control: nothing in flight, lost or acknowledged lies       *)
(* beyond the largest credit the peer granted, retransmissions and FIN     *)
(* included, whatever the order of the MAX_STREAM_DATA frames.             *)
WithinCredit ==
  /\ next_unsent <= max_data /\ next_unsent <= size
  /\ \A r \in inflight \union acked \union declared_lost : End(r) <= next_unsent
  /\ \A l \in lost : End(l.range) <= next_unsent

(* The final size the peer learns is the same from every frame with FIN,   *)
(* first transmission, split or retransmission, and it never changes.      *)
OneFinalSize ==
  /\ \A r \in inflight \union acked \union declared_lost : r.fin => finished /\ End(r) = size
  /\ \A l \in lost : l.range.fin => finished /\ End(l.range) = size

(* A range queued for retransmission is never one that an ACK, late or     *)
(* not, already covers.                                                    *)
NoAckedRetransmission == \A l \in lost : ~is_acked(l.range)

(* STOP_SENDING is final and forgets nothing that is out: whatever losses  *)
(* and ACKs of earlier packets come after it, nothing is sent or queued    *)
(* again, and the ACK of a FIN that was in flight still closes the stream. *)
StopIsFinal ==
  [][stop_requested =>
       /\ inflight' \subseteq inflight /\ next_unsent' = next_unsent /\ lost' = {}
       /\ \A r \in inflight \ inflight' :
            r.fin => fin_acked' \/ r \in declared_lost']_vars

(* The same for a FIN that was declared lost: its late ACK closes, too.    *)
LateFinCloses ==
  [][\A r \in declared_lost \ declared_lost' : r.fin => fin_acked']_vars

-----------------------------------------------------------------------------
(* What keeps the properties above inductive. *)

(* fin_sent_ says exactly where the FIN is: out with an outstanding packet *)
(* when set, in lost_ only when clear; an acknowledged FIN is remembered.  *)
FinTracked ==
  /\ ~stop_requested => /\ \A r \in inflight : r.fin => fin_sent
                        /\ \A l \in lost : l.range.fin => ~fin_sent
  /\ \A a \in acked : a.fin => fin_acked

(* Ranges only ever shrink: one that shares bytes with an older range that *)
(* was acknowledged or declared lost lies inside it.                       *)
Overlap(r, q) ==
  r.length > 0 /\ q.length > 0 /\ r.offset < End(q) /\ q.offset < End(r)

Inside(r, q) == q.offset <= r.offset /\ End(r) <= End(q)

Nested ==
  \A d \in acked \union declared_lost :
    /\ \A r \in inflight : Overlap(d, r) => Inside(r, d)
    /\ \A l \in lost : Overlap(d, l.range) => Inside(l.range, d)

Places ==
  /\ \A l \in lost : l.at < lost_end
  /\ stop_requested => lost = {}

(* The inductive invariant behind the properties of stream_send_state: the *)
(* FIN is where fin_sent_ says, ranges shrink, no copy is outstanding      *)
(* twice, and therefore neither a byte nor the FIN is ever forgotten.      *)
SendInvariant ==
  /\ TypeOK
  /\ WithinCredit
  /\ OneFinalSize
  /\ Places
  /\ OneCopyOutstanding
  /\ FinTracked
  /\ Nested
  /\ NoAckedRetransmission
  /\ NoByteForgotten
  /\ NoFinForgotten
=============================================================================
