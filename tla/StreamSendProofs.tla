-------------------------- MODULE StreamSendProofs --------------------------
(***************************************************************************)
(* Proofs that the safety properties of StreamSend hold for every size,    *)
(* credit, frame limit and number of losses.                               *)
(***************************************************************************)
EXTENDS StreamSend, TLAPS

(* A freshly constructed stream_send_state satisfies the invariant.        *)
LEMMA InitEstablishes == Init => SendInvariant
<1> SUFFICES ASSUME Init PROVE SendInvariant
  OBVIOUS
<1> USE DEF Init
<1>1. WithinCredit /\ size \in Nat /\ max_data \in Nat /\ next_unsent \in Nat /\ lost_end \in Nat
  BY ConstantsAreNaturals DEF WithinCredit
<1>t. TypeOK
  BY <1>1, Zenon DEF TypeOK
<1>2. OneFinalSize /\ Places /\ OneCopyOutstanding /\ FinTracked /\ Nested
  BY DEF OneFinalSize, Places, OneCopyOutstanding, FinTracked, Nested
<1>3. NoAckedRetransmission /\ NoByteForgotten /\ NoFinForgotten
  BY DEF NoAckedRetransmission, NoByteForgotten, NoFinForgotten
<1> QED  BY <1>1, <1>t, <1>2, <1>3 DEF SendInvariant

(* append() only moves the end of the stream, and only before finish().    *)
LEMMA AppendPreserves ==
  ASSUME SendInvariant, NEW n \in 1..MaxSize, append(n)
  PROVE  SendInvariant'
<1> USE DEF SendInvariant, append
<1>1. TypeOK' /\ WithinCredit'
  BY DEF TypeOK, WithinCredit, End
<1>2. OneFinalSize'
  BY DEF OneFinalSize
<1>3. Places' /\ OneCopyOutstanding' /\ FinTracked' /\ Nested'
  BY DEF Places, OneCopyOutstanding, FinTracked, Nested
<1>4. NoAckedRetransmission' /\ NoByteForgotten' /\ NoFinForgotten'
  BY DEF NoAckedRetransmission, is_acked, NoByteForgotten, NoFinForgotten
<1> QED  BY <1>1, <1>2, <1>3, <1>4

(* finish() fixes the final size.                                          *)
LEMMA FinishPreserves ==
  ASSUME SendInvariant, finish
  PROVE  SendInvariant'
<1> USE DEF SendInvariant, finish
<1>1. TypeOK' /\ WithinCredit'
  BY DEF TypeOK, WithinCredit
<1>2. OneFinalSize'
  BY DEF OneFinalSize
<1>3. Places' /\ OneCopyOutstanding' /\ FinTracked' /\ Nested'
  BY DEF Places, OneCopyOutstanding, FinTracked, Nested
<1>4. NoAckedRetransmission' /\ NoByteForgotten' /\ NoFinForgotten'
  BY DEF NoAckedRetransmission, is_acked, NoByteForgotten, NoFinForgotten
<1> QED  BY <1>1, <1>2, <1>3, <1>4

(* MAX_STREAM_DATA only raises the credit.                                 *)
LEMMA UpdateMaxDataPreserves ==
  ASSUME SendInvariant, NEW v \in 0..MaxCredit, update_max_data(v)
  PROVE  SendInvariant'
<1> USE DEF SendInvariant, update_max_data
<1>1. TypeOK' /\ WithinCredit'
  BY DEF TypeOK, WithinCredit, Larger
<1>2. OneFinalSize'
  BY DEF OneFinalSize
<1>3. Places' /\ OneCopyOutstanding' /\ FinTracked' /\ Nested'
  BY DEF Places, OneCopyOutstanding, FinTracked, Nested
<1>4. NoAckedRetransmission' /\ NoByteForgotten' /\ NoFinForgotten'
  BY DEF NoAckedRetransmission, is_acked, NoByteForgotten, NoFinForgotten
<1> QED  BY <1>1, <1>2, <1>3, <1>4

(* STOP_SENDING empties lost_ and lifts the obligation to deliver.         *)
LEMMA StopSendingPreserves ==
  ASSUME SendInvariant, stop_sending
  PROVE  SendInvariant'
<1> USE DEF SendInvariant, stop_sending
<1>1. TypeOK' /\ WithinCredit'
  BY DEF TypeOK, WithinCredit
<1>2. OneFinalSize'
  BY DEF OneFinalSize
<1>3. Places' /\ OneCopyOutstanding' /\ FinTracked' /\ Nested'
  BY DEF Places, OneCopyOutstanding, FinTracked, Nested
<1>4. NoAckedRetransmission' /\ NoByteForgotten' /\ NoFinForgotten'
  BY DEF NoAckedRetransmission, NoByteForgotten, NoFinForgotten
<1> QED  BY <1>1, <1>2, <1>3, <1>4

(* Every range the caller holds passes valid_sent_range().                 *)
LEMMA HeldRangesAreValid ==
  ASSUME SendInvariant, NEW r \in inflight \union declared_lost
  PROVE  r \in stream_send_range /\ valid_sent_range(r)
<1>1. r \in stream_send_range
  BY DEF SendInvariant, TypeOK
<1>2. End(r) <= next_unsent /\ next_unsent <= size
  BY DEF SendInvariant, WithinCredit
<1>3. r.fin => finished /\ End(r) = size
  BY DEF SendInvariant, OneFinalSize
<1> QED  BY <1>1, <1>2, <1>3 DEF valid_sent_range, End, stream_send_range, SendInvariant, TypeOK

(* An ACK, in time or late, of a range the caller holds: what on_acked()   *)
(* records carries the same bytes, and what it erases from lost_ is        *)
(* carried by the recorded range.                                          *)
LEMMA OnAckedEffect ==
  ASSUME SendInvariant, NEW r \in inflight \union declared_lost, on_acked(r)
  PROVE  /\ recorded(r) \in stream_send_range
         /\ recorded(r).offset = r.offset /\ recorded(r).length = r.length
         /\ recorded(r).fin => r.fin /\ finished /\ End(r) = size
         /\ r.fin /\ fin_sent => recorded(r).fin
         /\ acked' = acked \union {recorded(r)}
         /\ lost' = {l \in lost : ~range_covers(recorded(r), l.range)}
         /\ fin_acked' = (fin_acked \/ recorded(r).fin)
<1>1. r \in stream_send_range /\ valid_sent_range(r)
  BY HeldRangesAreValid
<1>2. /\ recorded(r) \in stream_send_range
      /\ recorded(r).offset = r.offset /\ recorded(r).length = r.length
      /\ recorded(r).fin = (/\ r.fin
                            /\ fin_sent \/ covers_lost_fin(r)
                            /\ finished /\ End(r) = size)
  BY <1>1, Zenon DEF recorded, stream_send_range
<1>3. r.fin => finished /\ End(r) = size
  BY <1>1 DEF valid_sent_range
<1> QED  BY <1>1, <1>2, <1>3 DEF on_acked

(* on_acked() preserves all that does not depend on who holds r.           *)
LEMMA OnAckedPreserves ==
  ASSUME SendInvariant, NEW r \in inflight \union declared_lost, on_acked(r),
         inflight' = inflight \/ inflight' = inflight \ {r},
         declared_lost' \in SUBSET declared_lost,
         UNCHANGED <<size, max_data, next_unsent, finished, fin_sent,
                     stop_requested, lost_end>>
  PROVE  SendInvariant'
<1> USE DEF SendInvariant
<1> DEFINE a == recorded(r)
<1>0. /\ a \in stream_send_range
      /\ a.offset = r.offset /\ a.length = r.length
      /\ a.fin => r.fin /\ finished /\ End(r) = size
      /\ r.fin /\ fin_sent => a.fin
      /\ acked' = acked \union {a}
      /\ lost' = {l \in lost : ~range_covers(a, l.range)}
      /\ fin_acked' = (fin_acked \/ a.fin)
  BY OnAckedEffect
<1>r. r \in stream_send_range /\ End(a) = End(r)
  BY <1>0, HeldRangesAreValid DEF End
<1> HIDE DEF a
<1>1. TypeOK'
  BY <1>0 DEF TypeOK
<1>2. WithinCredit'
  BY <1>0, <1>r DEF WithinCredit, End
<1>3. OneFinalSize'
  BY <1>0, <1>r DEF OneFinalSize, End
<1>4. Places'
  BY <1>0 DEF Places
<1>5. OneCopyOutstanding'
  BY <1>0 DEF OneCopyOutstanding
<1>6. FinTracked'
  BY <1>0, Zenon DEF FinTracked
<1>7. Nested'
  <2>1. ASSUME NEW q \in inflight'
        PROVE  Overlap(a, q) => Inside(q, a)
    <3>1. CASE r \in inflight
      <4>1. q = r \/ Disjoint(r, q)
        BY <3>1 DEF OneCopyOutstanding
      <4> QED  BY <4>1, <1>0, <1>r DEF Disjoint, Overlap, Inside, End, stream_send_range, TypeOK
    <3>2. CASE r \in declared_lost
      BY <3>2, <1>0, <1>r DEF Nested, Overlap, Inside, End
    <3> QED  BY <3>1, <3>2
  <2>2. ASSUME NEW l \in lost'
        PROVE  Overlap(a, l.range) => Inside(l.range, a)
    <3>0. l \in lost
      BY <1>0
    <3>1. CASE r \in inflight
      BY <3>0, <3>1, <1>0, <1>r
         DEF OneCopyOutstanding, Disjoint, Overlap, Inside, End, stream_send_range, TypeOK
    <3>2. CASE r \in declared_lost
      BY <3>0, <3>2, <1>0, <1>r DEF Nested, Overlap, Inside, End
    <3> QED  BY <3>1, <3>2
  <2> QED  BY <2>1, <2>2, <1>0 DEF Nested
<1>8. NoAckedRetransmission'
  BY <1>0 DEF NoAckedRetransmission, is_acked
<1>9. NoByteForgotten'
  BY <1>0, <1>r DEF NoByteForgotten, Carries, range_covers, End, TypeOK, stream_send_range
<1>10. NoFinForgotten'
  BY <1>0, Zenon DEF NoFinForgotten
<1> QED  BY <1>1, <1>2, <1>3, <1>4, <1>5, <1>6, <1>7, <1>8, <1>9, <1>10

(* A packet is acknowledged while it is outstanding.                       *)
LEMMA AckedPreserves ==
  ASSUME SendInvariant, NEW r \in inflight, Acked(r)
  PROVE  SendInvariant'
  BY OnAckedPreserves DEF Acked

(* An ACK for a packet that was already declared lost.                     *)
LEMMA AckedLatePreserves ==
  ASSUME SendInvariant, NEW r \in declared_lost, AckedLate(r)
  PROVE  SendInvariant'
  BY OnAckedPreserves DEF AckedLate

(* A packet is declared lost: its range moves from inflight to lost_       *)
(* unless an ACK covers it already.                                        *)
LEMMA LostPreserves ==
  ASSUME SendInvariant, NEW r \in inflight, Lost(r)
  PROVE  SendInvariant'
<1> USE DEF SendInvariant
<1>0. /\ r \in stream_send_range /\ valid_sent_range(r)
      /\ inflight' = inflight \ {r} /\ declared_lost' = declared_lost \union {r}
      /\ UNCHANGED <<size, max_data, next_unsent, finished, fin_acked, stop_requested, acked>>
  BY HeldRangesAreValid DEF Lost
<1>f. ~stop_requested /\ r.fin => fin_sent
  BY DEF FinTracked
<1>n. \A q \in inflight' : Overlap(r, q) => Inside(q, r)
  BY <1>0 DEF OneCopyOutstanding, Disjoint, Overlap, Inside, End, TypeOK, stream_send_range
<1>m. \A l \in lost : Overlap(r, l.range) => Inside(l.range, r)
  BY <1>0 DEF OneCopyOutstanding, Disjoint, Overlap, Inside, End, TypeOK, stream_send_range
<1>1. CASE stop_requested \/ is_acked(r)
  <2>0. UNCHANGED <<lost, lost_end, fin_sent>>
    BY <1>1 DEF Lost, on_lost
  <2>1. TypeOK' /\ Places'
    BY <2>0, <1>0 DEF TypeOK, Places
  <2>2. WithinCredit' /\ OneFinalSize'
    BY <2>0, <1>0 DEF WithinCredit, OneFinalSize
  <2>3. OneCopyOutstanding' /\ FinTracked'
    BY <2>0, <1>0 DEF OneCopyOutstanding, FinTracked
  <2>4. Nested'
    BY <2>0, <1>0, <1>n, <1>m DEF Nested
  <2>5. NoAckedRetransmission'
    BY <2>0, <1>0 DEF NoAckedRetransmission, is_acked
  <2>6. NoByteForgotten'
    BY <2>0, <1>0, <1>1
       DEF NoByteForgotten, is_acked, range_covers, Carries, End, TypeOK, stream_send_range
  <2>7. NoFinForgotten'
    BY <2>0, <1>0, <1>1 DEF NoFinForgotten, FinTracked, is_acked, range_covers
  <2> QED  BY <2>1, <2>2, <2>3, <2>4, <2>5, <2>6, <2>7
<1>2. CASE ~stop_requested /\ ~is_acked(r)
  <2> DEFINE e == [at |-> lost_end, range |-> r]
  <2>0. /\ lost' = lost \union {e} /\ lost_end' = lost_end + 1
        /\ fin_sent' = (fin_sent /\ ~r.fin)
        /\ e.at = lost_end /\ e.range = r /\ e \in [at : Nat, range : stream_send_range]
    BY <1>0, <1>2, <1>f DEF Lost, on_lost, TypeOK
  <2> HIDE DEF e
  <2>1. TypeOK'
    BY <2>0, <1>0 DEF TypeOK
  <2>2. WithinCredit' /\ OneFinalSize' /\ Places'
    BY <2>0, <1>0, <1>2 DEF WithinCredit, OneFinalSize, Places, TypeOK, valid_sent_range
  <2>3. OneCopyOutstanding'
    BY <2>0, <1>0 DEF OneCopyOutstanding, Disjoint, Places, TypeOK
  <2>4. FinTracked'
    BY <2>0, <1>0, <1>f, Zenon DEF FinTracked, OneCopyOutstanding, Disjoint
  <2>5. Nested'
    <3>1. \A d \in acked' \union declared_lost' : \A q \in inflight' : Overlap(d, q) => Inside(q, d)
      BY <1>0, <1>n DEF Nested
    <3>2. Inside(r, r)
      BY <1>0 DEF Inside, End, stream_send_range
    <3>3. \A d \in acked' \union declared_lost' : \A l \in lost' : Overlap(d, l.range) => Inside(l.range, d)
      BY <1>0, <2>0, <3>2, <1>m DEF Nested
    <3> QED  BY <3>1, <3>3, SMTT(30) DEF Nested
  <2>6. NoAckedRetransmission'
    BY <2>0, <1>0, <1>2 DEF NoAckedRetransmission, is_acked
  <2>7. NoByteForgotten'
    BY <2>0, <1>0 DEF NoByteForgotten
  <2>8. NoFinForgotten'
    BY <2>0, <1>0, Zenon DEF NoFinForgotten
  <2> QED  BY <2>1, <2>2, <2>3, <2>4, <2>5, <2>6, <2>7, <2>8
<1> QED  BY <1>1, <1>2

(* pop_frame() serves the first live element of lost_: the part handed out *)
(* and the part put back together carry exactly its bytes and its FIN.     *)
LEMMA PopLostPreserves ==
  ASSUME SendInvariant, NEW max \in 0..MaxFrame, PopLost(max)
  PROVE  SendInvariant'
<1> USE DEF SendInvariant
<1>p. PICK l \in live :
        /\ is_front(l)
        /\ l.range.length = 0 \/ max > 0
        /\ lost' = behind(l) \union reinserted(l, max)
        /\ fin_sent' = (fin_sent \/ retransmitted(l, max).fin)
        /\ inflight' = inflight \union {retransmitted(l, max)}
  BY DEF PopLost
<1>u. /\ UNCHANGED <<size, max_data, next_unsent, finished, fin_acked,
                     stop_requested, lost_end, acked, declared_lost>>
      /\ ~stop_requested
      /\ max \in Nat
  BY ConstantsAreNaturals DEF PopLost
<1>l. /\ l \in lost /\ ~is_acked(l.range)
      /\ l.at \in Nat /\ l.range \in stream_send_range
  BY DEF live, TypeOK
<1> DEFINE out == retransmitted(l, max)
           rest == reinserted(l, max)
(* What is handed out is a prefix of l; what is put back is the rest.      *)
<1>o. /\ out \in stream_send_range
      /\ out.offset = l.range.offset
      /\ End(out) <= End(l.range)
      /\ out.fin => l.range.fin /\ rest = {} /\ End(out) = End(l.range)
      /\ rest = {} => out = l.range
  <2>1. CASE must_split(l, max)
    <3>1. out = Range(l.range.offset, max, FALSE) /\ rest # {}
      BY <2>1, Zenon DEF retransmitted, reinserted
    <3> QED  BY <3>1, <2>1, <1>l, <1>u DEF must_split, Range, End, stream_send_range
  <2>2. CASE ~must_split(l, max)
    <3>1. out = l.range /\ rest = {}
      BY <2>2 DEF retransmitted, reinserted
    <3> QED  BY <3>1, <1>l DEF End, stream_send_range
  <2> QED  BY <2>1, <2>2, SMTT(30)
<1>s. \A m \in rest : /\ m \in [at : Nat, range : stream_send_range]
                      /\ m.at = l.at
                      /\ m.range.offset = End(out) /\ End(m.range) = End(l.range)
                      /\ m.range.length > 0
                      /\ m.range.fin = l.range.fin
                      /\ rest = {m}
                      /\ ~out.fin
  BY <1>l, <1>u DEF retransmitted, reinserted, must_split, Range, End, stream_send_range
<1>b. \A m \in behind(l) : m \in lost /\ m.at > l.at /\ m # l /\ Disjoint(m.range, l.range)
  BY <1>l DEF behind, OneCopyOutstanding, TypeOK
(* Elements that disappear from lost_ are l and acknowledged ones.         *)
<1>d. \A m \in lost : m \in behind(l) \/ m = l \/ is_acked(m.range)
  <2> SUFFICES ASSUME NEW m \in lost, m \notin behind(l), m # l
               PROVE  is_acked(m.range)
    OBVIOUS
  <2>1. m.at < l.at
    BY <1>l DEF behind, OneCopyOutstanding, TypeOK
  <2> QED  BY <2>1, <1>p, <1>l DEF is_front, live, TypeOK
<1>e. inflight' = inflight \union {out} /\ lost' = behind(l) \union rest /\ fin_sent' = (fin_sent \/ out.fin)
  BY <1>p
<1> HIDE DEF out, rest
<1>1. TypeOK'
  BY <1>e, <1>u, <1>o, <1>s, <1>b DEF TypeOK, stream_send_range
<1>2. WithinCredit'
  BY <1>e, <1>u, <1>o, <1>s, <1>b, <1>l DEF WithinCredit, End, TypeOK, stream_send_range
<1>3. OneFinalSize'
  BY <1>e, <1>u, <1>o, <1>s, <1>b, <1>l DEF OneFinalSize
<1>4. Places'
  BY <1>e, <1>u, <1>s, <1>b, <1>l DEF Places
<1>5. OneCopyOutstanding'
  <2>1. \A q \in inflight : Disjoint(q, out) /\ Disjoint(out, q)
    BY <1>o, <1>l, SMTT(30) DEF OneCopyOutstanding, Disjoint, End, TypeOK, stream_send_range
  <2>2. \A q \in inflight, m \in rest : Disjoint(q, m.range)
    BY <1>o, <1>s, <1>l DEF OneCopyOutstanding, Disjoint, End, TypeOK, stream_send_range
  <2>3. \A m \in behind(l) : Disjoint(out, m.range)
    BY <1>o, <1>b, <1>l DEF Disjoint, End, TypeOK, stream_send_range
  <2>4. \A m \in behind(l), k \in rest : m.at # k.at /\ Disjoint(k.range, m.range) /\ Disjoint(m.range, k.range)
    BY <1>o, <1>s, <1>b, <1>l DEF Disjoint, End, TypeOK, stream_send_range
  <2>5. \A k \in rest : Disjoint(out, k.range)
    BY <1>o, <1>s, <1>l DEF Disjoint, End, TypeOK, stream_send_range
  <2>6. \A r, q \in inflight' : r # q => Disjoint(r, q)
    BY <1>e, <2>1 DEF OneCopyOutstanding
  <2>7. \A k, m \in lost' : k # m => k.at # m.at /\ Disjoint(k.range, m.range)
    BY <1>e, <1>b, <1>s, <2>4 DEF OneCopyOutstanding
  <2>8. \A r \in inflight', k \in lost' : Disjoint(r, k.range)
    BY <1>e, <1>b, <2>2, <2>3, <2>5 DEF OneCopyOutstanding
  <2> QED  BY <2>6, <2>7, <2>8 DEF OneCopyOutstanding
<1>6. FinTracked'
  BY <1>e, <1>u, <1>o, <1>s, <1>b, <1>l, Zenon DEF FinTracked, Disjoint
<1>7. Nested'
  <2> SUFFICES ASSUME NEW d \in acked \union declared_lost
               PROVE  /\ \A r \in inflight' : Overlap(d, r) => Inside(r, d)
                      /\ \A m \in lost' : Overlap(d, m.range) => Inside(m.range, d)
    BY <1>u DEF Nested
  <2>0. d \in stream_send_range
    BY DEF TypeOK
  <2>1. Overlap(d, l.range) => Inside(l.range, d)
    BY <1>l DEF Nested
  <2>2. Overlap(d, out) => Inside(out, d)
    BY <2>0, <2>1, <1>o, <1>l DEF Overlap, Inside, End, stream_send_range
  <2>3. \A m \in rest : Overlap(d, m.range) => Inside(m.range, d)
    BY <2>0, <2>1, <1>o, <1>s, <1>l DEF Overlap, Inside, End, stream_send_range
  <2> QED  BY <2>2, <2>3, <1>e, <1>b, SMTT(30) DEF Nested
<1>8. NoAckedRetransmission'
  <2> SUFFICES ASSUME NEW m \in lost', NEW a \in acked, range_covers(a, m.range)
               PROVE  FALSE
    BY <1>u DEF NoAckedRetransmission, is_acked
  <2>1. CASE m \in behind(l)
    BY <2>1, <1>b DEF NoAckedRetransmission, is_acked
  <2>2. CASE m \in rest
    <3>0. a \in stream_send_range
      BY DEF TypeOK
    <3>1. Overlap(a, l.range)
      BY <2>2, <3>0, <1>s, <1>o, <1>l DEF range_covers, Overlap, End, stream_send_range
    <3>2. Inside(l.range, a)
      BY <3>1, <1>l DEF Nested
    <3>3. range_covers(a, l.range)
      BY <3>2, <2>2, <1>s, SMTT(30) DEF range_covers, Inside
    <3> QED  BY <3>3, <1>l DEF is_acked
  <2> QED  BY <2>1, <2>2, <1>e
<1>9. NoByteForgotten'
  <2> SUFFICES ASSUME NEW b \in 0 .. next_unsent - 1
               PROVE  \/ \E r \in acked : Carries(r, b)
                      \/ \E m \in lost' : Carries(m.range, b)
                      \/ \E r \in inflight' : Carries(r, b)
    BY <1>u DEF NoByteForgotten
  <2>1. CASE \E r \in acked : Carries(r, b)
    BY <2>1
  <2>2. CASE \E r \in inflight : Carries(r, b)
    BY <2>2, <1>e
  <2>3. ASSUME NEW m \in lost, Carries(m.range, b)
        PROVE  \/ \E r \in acked : Carries(r, b)
               \/ \E k \in lost' : Carries(k.range, b)
               \/ \E r \in inflight' : Carries(r, b)
    <3>1. CASE m \in behind(l)
      BY <3>1, <2>3, <1>e
    <3>2. CASE is_acked(m.range)
      BY <3>2, <2>3 DEF is_acked, range_covers, Carries, End, TypeOK, stream_send_range
    <3>3. CASE m = l
      <4>1. CASE b < End(out)
        BY <4>1, <3>3, <2>3, <1>e, <1>o DEF Carries
      <4>2. CASE ~(b < End(out))
        <5>1. PICK k \in rest : TRUE
          BY <4>2, <3>3, <2>3, <1>o DEF Carries
        <5> QED  BY <5>1, <4>2, <3>3, <2>3, <1>e, <1>s, <1>o, <1>l DEF Carries, End, stream_send_range
      <4> QED  BY <4>1, <4>2
    <3> QED  BY <3>1, <3>2, <3>3, <1>d
  <2> QED  BY <2>1, <2>2, <2>3, <1>u DEF NoByteForgotten
<1>10. NoFinForgotten'
  BY <1>e, <1>u, Zenon DEF NoFinForgotten
<1> QED  BY <1>1, <1>2, <1>3, <1>4, <1>5, <1>6, <1>7, <1>8, <1>9, <1>10, SMTT(30)

(* pop_frame() hands out new bytes: they start where everything handed out *)
(* before ends.                                                            *)
LEMMA PopNewPreserves ==
  ASSUME SendInvariant, NEW max \in 0..MaxFrame, PopNew(max)
  PROVE  SendInvariant'
<1> USE DEF SendInvariant
<1> DEFINE out == fresh(max)
<1>u. /\ UNCHANGED <<size, max_data, finished, fin_acked, stop_requested,
                     lost_end, acked, declared_lost>>
      /\ lost' = {} /\ inflight' = inflight \union {out}
      /\ next_unsent' = next_unsent + out.length /\ fin_sent' = (fin_sent \/ out.fin)
      /\ ~stop_requested /\ max \in Nat /\ max > 0
      /\ next_unsent < size /\ next_unsent < max_data
  BY ConstantsAreNaturals DEF PopNew
<1>a. \A l \in lost : is_acked(l.range)
  BY DEF PopNew, live
<1>o. /\ out \in stream_send_range
      /\ out.offset = next_unsent /\ out.length > 0
      /\ End(out) = next_unsent'
      /\ End(out) <= size /\ End(out) <= max_data
      /\ out.fin => finished /\ End(out) = size
  <2> DEFINE length == Smaller(max, Smaller(size - next_unsent, max_data - next_unsent))
             fin == finished /\ next_unsent + length = size /\ size <= max_data
  <2>1. size \in Nat /\ max_data \in Nat /\ next_unsent \in Nat /\ finished \in BOOLEAN
    BY ConstantsAreNaturals DEF TypeOK
  <2>2. /\ length \in Nat /\ length > 0
        /\ next_unsent + length <= size /\ next_unsent + length <= max_data
    BY <1>u, <2>1 DEF Smaller
  <2>3. out = [offset |-> next_unsent, length |-> length, fin |-> fin]
    BY DEF fresh, Range
  <2>4. out.offset = next_unsent /\ out.length = length /\ out.fin = fin /\ fin \in BOOLEAN
    BY <2>3
  <2>5. End(out) = next_unsent + length
    BY <2>4 DEF End
  <2>6. out \in stream_send_range
    <3> HIDE DEF length, fin, out
    <3> QED  BY <2>1, <2>2, <2>3, <2>4 DEF stream_send_range
  <2>7. out.fin => finished /\ End(out) = size
    BY <2>4, <2>5, Zenon
  <2> HIDE DEF length, fin, out
  <2> QED  BY <1>u, <2>2, <2>4, <2>5, <2>6, <2>7
<1> HIDE DEF out
<1>w. \A r \in inflight \union acked \union declared_lost : r \in stream_send_range /\ End(r) <= next_unsent
  BY DEF WithinCredit, TypeOK
<1>f. out.fin => \A r \in inflight : ~r.fin
  BY <1>o, <1>u, <1>w DEF OneFinalSize, End, TypeOK, stream_send_range
<1>1. TypeOK'
  BY <1>u, <1>o DEF TypeOK, stream_send_range
<1>2. WithinCredit'
  BY <1>u, <1>o, <1>w, SMTT(30) DEF WithinCredit, End, TypeOK, stream_send_range
<1>3. OneFinalSize' /\ Places'
  BY <1>u, <1>o, SMTT(30) DEF OneFinalSize, Places
<1>4. OneCopyOutstanding'
  <2>1. \A q \in inflight : Disjoint(q, out) /\ Disjoint(out, q)
    BY <1>o, <1>w, <1>f DEF Disjoint
  <2> QED  BY <2>1, <1>u DEF OneCopyOutstanding
<1>5. FinTracked'
  BY <1>u, Zenon DEF FinTracked
<1>6. Nested'
  <2>1. \A d \in acked \union declared_lost : ~Overlap(d, out)
    BY <1>o, <1>w DEF Overlap, End, stream_send_range, TypeOK
  <2> QED  BY <2>1, <1>u DEF Nested
<1>7. NoAckedRetransmission'
  BY <1>u DEF NoAckedRetransmission
<1>8. NoByteForgotten'
  <2> SUFFICES ASSUME NEW b \in 0 .. next_unsent' - 1
               PROVE  \/ \E r \in acked : Carries(r, b)
                      \/ \E r \in inflight' : Carries(r, b)
    BY <1>u DEF NoByteForgotten
  <2>1. CASE b < next_unsent
    <3>1. b \in 0 .. next_unsent - 1
      BY <2>1 DEF TypeOK
    <3> QED  BY <3>1, <1>u, <1>a
             DEF NoByteForgotten, is_acked, range_covers, Carries, End, TypeOK, stream_send_range
  <2>2. CASE ~(b < next_unsent)
    BY <2>2, <1>u, <1>o DEF Carries, TypeOK, stream_send_range
  <2> QED  BY <2>1, <2>2, SMTT(30)
<1>9. NoFinForgotten'
  BY <1>u, Zenon DEF NoFinForgotten
<1> QED  BY <1>1, <1>2, <1>3, <1>4, <1>5, <1>6, <1>7, <1>8, <1>9

(* pop_frame() hands out the FIN alone: none is in flight or in lost_.     *)
LEMMA PopFinPreserves ==
  ASSUME SendInvariant, NEW max \in 0..MaxFrame, PopFin(max)
  PROVE  SendInvariant'
<1> USE DEF SendInvariant
<1> DEFINE out == Range(size, 0, TRUE)
<1>u. /\ UNCHANGED <<size, max_data, next_unsent, finished, fin_acked,
                     stop_requested, lost_end, acked, declared_lost>>
      /\ lost' = {} /\ inflight' = inflight \union {out} /\ fin_sent' = TRUE
      /\ ~stop_requested /\ ~fin_sent /\ finished /\ next_unsent = size
  BY DEF PopFin
<1>a. \A l \in lost : is_acked(l.range)
  BY DEF PopFin, live
<1>o. /\ out \in stream_send_range /\ out.length = 0 /\ out.offset = size /\ End(out) = size
      /\ out.fin = TRUE
  BY DEF Range, End, TypeOK, stream_send_range
<1> HIDE DEF out
<1>1. TypeOK'
  BY <1>u, <1>o, SMTT(30) DEF TypeOK
<1>2. WithinCredit' /\ OneFinalSize' /\ Places'
  BY <1>u, <1>o DEF WithinCredit, OneFinalSize, Places, TypeOK
<1>3. OneCopyOutstanding'
  <2>1. \A q \in inflight : Disjoint(q, out) /\ Disjoint(out, q)
    BY <1>o, <1>u DEF Disjoint, FinTracked
  <2> QED  BY <2>1, <1>u, Zenon DEF OneCopyOutstanding
<1>4. FinTracked'
  BY <1>u, SMTT(30) DEF FinTracked
<1>5. Nested'
  BY <1>u, <1>o DEF Nested, Overlap
<1>6. NoAckedRetransmission'
  BY <1>u DEF NoAckedRetransmission
<1>7. NoByteForgotten'
  BY <1>u, <1>a DEF NoByteForgotten, is_acked, range_covers, Carries, End, TypeOK, stream_send_range
<1>8. NoFinForgotten'
  <2>1. out \in inflight' /\ out.fin
    BY <1>u, <1>o
  <2> QED  BY <2>1, <1>u, Zenon DEF NoFinForgotten
<1> QED  BY <1>1, <1>2, <1>3, <1>4, <1>5, <1>6, <1>7, <1>8

(* Every step of the sender or of its caller preserves the invariant.      *)
LEMMA NextPreserves == SendInvariant /\ [Next]_vars => SendInvariant'
<1> SUFFICES ASSUME SendInvariant, [Next]_vars PROVE SendInvariant'
  OBVIOUS
<1>1. CASE \E n \in 1..MaxSize : append(n)
  BY <1>1, AppendPreserves
<1>2. CASE finish
  BY <1>2, FinishPreserves
<1>3. CASE \E max \in 0..MaxFrame : pop_frame(max)
  BY <1>3, PopLostPreserves, PopNewPreserves, PopFinPreserves DEF pop_frame
<1>4. CASE \E r \in inflight : Acked(r) \/ Lost(r)
  BY <1>4, AckedPreserves, LostPreserves
<1>5. CASE \E r \in declared_lost : AckedLate(r)
  BY <1>5, AckedLatePreserves
<1>6. CASE \E v \in 0..MaxCredit : update_max_data(v)
  BY <1>6, UpdateMaxDataPreserves, SMTT(30)
<1>7. CASE stop_sending
  BY <1>7, StopSendingPreserves
<1>8. CASE UNCHANGED vars
  BY <1>8 DEF vars, SendInvariant, TypeOK, WithinCredit, OneFinalSize, Places,
              OneCopyOutstanding, FinTracked, Nested, NoAckedRetransmission,
              is_acked, NoByteForgotten, NoFinForgotten
<1> QED  BY <1>1, <1>2, <1>3, <1>4, <1>5, <1>6, <1>7, <1>8 DEF Next

(* stream_send_state keeps the inductive invariant in every reachable      *)
(* state, for all values of the constants.                                 *)
THEOREM SendInvariantHolds == Spec => []SendInvariant
  BY InitEstablishes, NextPreserves, PTL DEF Spec

(* The members of stream_send_state keep their types.                      *)
THEOREM SendTypes == Spec => []TypeOK
<1>1. SendInvariant => TypeOK
  BY DEF SendInvariant
<1> QED  BY <1>1, SendInvariantHolds, PTL

(* No order of losses, splits, retransmissions and late ACKs makes the     *)
(* sender forget a byte it handed out.                                     *)
THEOREM NoByteIsForgotten == Spec => []NoByteForgotten
<1>1. SendInvariant => NoByteForgotten
  BY DEF SendInvariant
<1> QED  BY <1>1, SendInvariantHolds, PTL

(* The FIN is not forgotten either.                                        *)
THEOREM NoFinIsForgotten == Spec => []NoFinForgotten
<1>1. SendInvariant => NoFinForgotten
  BY DEF SendInvariant
<1> QED  BY <1>1, SendInvariantHolds, PTL

(* Nothing is outstanding twice.                                           *)
THEOREM OneCopyIsOutstanding == Spec => []OneCopyOutstanding
<1>1. SendInvariant => OneCopyOutstanding
  BY DEF SendInvariant
<1> QED  BY <1>1, SendInvariantHolds, PTL

(* The sender stays within the credit the peer granted.                    *)
THEOREM CreditIsRespected == Spec => []WithinCredit
<1>1. SendInvariant => WithinCredit
  BY DEF SendInvariant
<1> QED  BY <1>1, SendInvariantHolds, PTL

(* Nothing an ACK covers is queued for retransmission.                     *)
THEOREM NoAckedRangeIsRetransmitted == Spec => []NoAckedRetransmission
<1>1. SendInvariant => NoAckedRetransmission
  BY DEF SendInvariant
<1> QED  BY <1>1, SendInvariantHolds, PTL

(* All frames with FIN announce one final size.                            *)
THEOREM FinalSizeIsUnique == Spec => []OneFinalSize
<1>1. SendInvariant => OneFinalSize
  BY DEF SendInvariant
<1> QED  BY <1>1, SendInvariantHolds, PTL

(* A frame with FIN is in flight only while fin_sent_ is set, after        *)
(* STOP_SENDING, too: on_lost() then leaves fin_sent_ alone.               *)
FinOut == \A r \in inflight : r.fin => fin_sent

(* After STOP_SENDING the steps only take packets out of flight.           *)
LEMMA StoppedSteps ==
  ASSUME SendInvariant, Next, stop_requested
  PROVE  /\ inflight' \subseteq inflight /\ next_unsent' = next_unsent
         /\ lost' = {} /\ fin_sent' = fin_sent
<1>1. lost = {}
  BY DEF SendInvariant, Places
<1>2. CASE \E r \in inflight : Acked(r) \/ Lost(r)
  BY <1>1, <1>2, Zenon DEF Acked, Lost, on_acked, on_lost
<1>3. CASE \E r \in declared_lost : AckedLate(r)
  BY <1>1, <1>3 DEF AckedLate, on_acked
<1>4. CASE stop_sending \/ \E v \in 0..MaxCredit : update_max_data(v)
  BY <1>1, <1>4, Zenon DEF stop_sending, update_max_data
<1> QED
  BY <1>2, <1>3, <1>4, Zenon DEF Next, append, finish, pop_frame, PopLost, PopNew, PopFin

(* Every step keeps it: FinTracked says so until STOP_SENDING.             *)
LEMMA FinOutPreserved == SendInvariant /\ SendInvariant' /\ FinOut /\ [Next]_vars => FinOut'
<1> SUFFICES ASSUME SendInvariant, SendInvariant', FinOut, [Next]_vars PROVE FinOut'
  OBVIOUS
<1>1. CASE ~stop_requested'
  BY <1>1 DEF SendInvariant, FinTracked, FinOut
<1>2. CASE stop_requested /\ Next
  BY <1>2, StoppedSteps DEF FinOut
<1>3. CASE stop_requested' /\ ~stop_requested /\ Next
  <2>1. stop_sending
    BY <1>3, Zenon DEF Next, append, finish, pop_frame, PopLost, PopNew, PopFin, Acked,
                AckedLate, Lost, update_max_data
  <2> QED
    BY <2>1 DEF stop_sending, FinOut
<1>4. CASE UNCHANGED vars
  BY <1>4 DEF vars, FinOut
<1> QED
  BY <1>1, <1>2, <1>3, <1>4

(* After STOP_SENDING nothing is sent or queued again, and a FIN that was  *)
(* in flight is acknowledged, closing the stream, or declared lost.        *)
THEOREM StopSendingIsFinal == Spec => StopIsFinal
<1> DEFINE Final == stop_requested =>
             /\ inflight' \subseteq inflight /\ next_unsent' = next_unsent /\ lost' = {}
             /\ \A r \in inflight \ inflight' :
                  r.fin => fin_acked' \/ r \in declared_lost'
<1>1. Init => FinOut
  BY DEF Init, FinOut
<1>2. SendInvariant /\ FinOut /\ [Next]_vars => [Final]_vars
  <2> SUFFICES ASSUME SendInvariant, FinOut, Next, stop_requested
               PROVE  \A r \in inflight \ inflight' :
                        r.fin => fin_acked' \/ r \in declared_lost'
    BY StoppedSteps, Zenon DEF vars
  <2> SUFFICES ASSUME NEW r \in inflight \ inflight', r.fin
               PROVE  fin_acked' \/ r \in declared_lost'
    OBVIOUS
  <2>1. Acked(r) \/ Lost(r)
    BY Zenon DEF Next, append, finish, pop_frame, PopLost, PopNew, PopFin, Acked,
           AckedLate, Lost, update_max_data, stop_sending
  <2>2. CASE Lost(r)
    BY <2>2 DEF Lost
  <2>3. CASE Acked(r)
    <3>1. valid_sent_range(r) /\ finished /\ End(r) = size
      BY HeldRangesAreValid DEF SendInvariant, OneFinalSize
    <3>2. fin_sent /\ r \in stream_send_range
      BY DEF FinOut, SendInvariant, TypeOK
    <3>3. recorded(r).fin
      BY <3>1, <3>2, Zenon DEF recorded, stream_send_range
    <3> QED
      BY <2>3, <3>1, <3>3, Zenon DEF Acked, on_acked
  <2> QED
    BY <2>1, <2>2, <2>3
<1> QED  BY <1>1, <1>2, FinOutPreserved, SendInvariantHolds, PTL DEF Spec, StopIsFinal
=============================================================================
