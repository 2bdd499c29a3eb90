------------------------ MODULE StreamReceiveProofs -------------------------
(***************************************************************************)
(* Proofs about stream_receive_state: pending_ stays canonical, and the    *)
(* state implements StreamReassembly.                                      *)
(***************************************************************************)
EXTENDS StreamReceive, TLAPS

(* An accepted STREAM frame, as receive() sees it. *)
IsFrame(f) ==
  /\ f.offset \in 0..MaxOffset
  /\ f.length \in Nat
  /\ f.bytes \in [f.offset .. End(f) - 1 -> Byte]

IsEntry(s) ==
  /\ s.start \in 0..MaxOffset /\ s.end \in 0..MaxOffset
  /\ s.bytes \in [s.start .. s.end - 1 -> Byte]
  /\ s = [start |-> s.start, end |-> s.end, bytes |-> s.bytes]

(* What buffer_new_suffix() leaves for drain_contiguous(): entries apart   *)
(* from each other, of which one may start at next_offset_.                *)
Apart(P) ==
  /\ \A s \in P : /\ IsEntry(s)
                  /\ next_offset <= s.start /\ s.start < s.end
                  /\ s.end <= max_data
  /\ \A s, t \in P : s # t => s.end < t.start \/ t.end < s.start

(* The inductive invariant of stream_receive_state.                        *)
ReceiveInvariant == TypeOK /\ Separated /\ WithinCredit

-----------------------------------------------------------------------------
(* The least element is the one nothing is below.                          *)
LEMMA MinIs ==
  ASSUME NEW S \in SUBSET Int, NEW m \in S, \A y \in S : m <= y
  PROVE  Min(S) = m
<1>1. \A x \in S : (\A y \in S : x <= y) => x = m
  OBVIOUS
<1>2. (CHOOSE x \in S : \A y \in S : x <= y) = m
  BY <1>1, Zenon
<1> QED  BY <1>2 DEF Min

(* The greatest element is the one nothing is above.                       *)
LEMMA MaxIs ==
  ASSUME NEW S \in SUBSET Int, NEW m \in S, \A y \in S : m >= y
  PROVE  Max(S) = m
<1>1. \A x \in S : (\A y \in S : x >= y) => x = m
  OBVIOUS
<1>2. (CHOOSE x \in S : \A y \in S : x >= y) = m
  BY <1>1, Zenon
<1> QED  BY <1>2 DEF Max

(* Entries that are apart hold an offset at most once.                     *)
LEMMA OneHolder ==
  ASSUME NEW P, \A s \in P : IsEntry(s),
         \A s, t \in P : s # t => s.end < t.start \/ t.end < s.start,
         NEW o \in Int, NEW s \in P, Holds(s, o)
  PROVE  ByteIn(P, o) = s.bytes[o]
<1>1. \A t \in P : Holds(t, o) => t = s
  BY DEF Holds, IsEntry
<1>2. (CHOOSE t \in P : Holds(t, o)) = s
  BY <1>1
<1> QED  BY <1>2, Zenon DEF ByteIn

(* The loop of buffer_new_suffix() merges exactly the entries that overlap *)
(* or touch the new bytes.                                                 *)
LEMMA MergedWith ==
  ASSUME ReceiveInvariant, NEW f, IsFrame(f), has_new(f), NEW s \in pending
  PROVE  s \in merged_with(f) <=> s.start <= End(f) /\ s.end >= new_start(f)
<1> USE DEF ReceiveInvariant
<1>t. /\ \A t \in pending : t.start \in Nat /\ t.end \in Nat /\ t.start < t.end
      /\ new_start(f) \in Nat /\ End(f) \in Nat /\ new_start(f) < End(f)
  BY DEF TypeOK, Separated, has_new, new_start, Larger, IsFrame, End
<1>p. \A t, u \in pending : t # u => t.end < u.start \/ u.end < t.start
  BY DEF Separated
<1> HIDE DEF ReceiveInvariant
<1>c. \A t \in pending : t \in candidates(f) <=> t.end >= new_start(f)
  <2> SUFFICES ASSUME NEW t \in pending
               PROVE  t \in candidates(f) <=> t.end >= new_start(f)
    OBVIOUS
  <2>1. CASE t.start >= new_start(f)
    BY <2>1, <1>t DEF candidates
  <2>2. CASE t.start < new_start(f)
    <3>1. ASSUME t.end >= new_start(f), NEW u \in pending, u.start < new_start(f)
          PROVE  u.start <= t.start
      BY <3>1, <1>t, <1>p
    <3> QED  BY <3>1, <2>2, <1>t DEF candidates, touches_previous
  <2> QED  BY <2>1, <2>2, <1>t
<1>1. ASSUME s.start <= End(f), s.end >= new_start(f)
      PROVE  s \in merged_with(f)
  <2>1. candidates(f) \subseteq pending
    BY DEF candidates
  <2>2. \A t \in candidates(f) : t.start <= s.start => t.start <= End(f)
    BY <1>1, <2>1, <1>t
  <2> QED  BY <1>1, <1>c, <2>2 DEF merged_with
<1>2. ASSUME s \in merged_with(f)
      PROVE  s.start <= End(f) /\ s.end >= new_start(f)
  <2>1. s \in candidates(f) /\ s.end >= new_start(f)
    BY <1>2, <1>c DEF merged_with
  <2>2. s.start <= End(f) \/ \E u \in candidates(f) : u.start < s.start /\ s.start <= u.end
    BY <1>2, <2>1, <1>t DEF merged_with
  <2>3. \A u \in candidates(f) : ~(u.start < s.start /\ s.start <= u.end)
    BY <1>t, <1>p DEF candidates
  <2> QED  BY <2>1, <2>2, <2>3
<1> QED  BY <1>1, <1>2

(* Where the merged entry starts and ends.                                 *)
LEMMA MergedBounds ==
  ASSUME ReceiveInvariant, NEW f, IsFrame(f), has_new(f)
  PROVE  /\ merged_start(f) \in Nat /\ merged_end(f) \in Nat
         /\ merged_start(f) <= new_start(f) /\ End(f) <= merged_end(f)
         /\ \/ merged_start(f) = new_start(f)
            \/ \E s \in merged_with(f) : s.start = merged_start(f)
         /\ \/ merged_end(f) = End(f)
            \/ \E s \in merged_with(f) : s.end = merged_end(f)
         /\ \A s \in merged_with(f) : merged_start(f) <= s.start /\ s.end <= merged_end(f)
<1> DEFINE M == merged_with(f)
           A == {new_start(f)} \union {s.start : s \in M}
           B == {End(f)} \union {s.end : s \in M}
<1>t. /\ \A t \in pending : t.start \in Nat /\ t.end \in Nat /\ t.start < t.end
      /\ new_start(f) \in Nat /\ End(f) \in Nat /\ new_start(f) < End(f)
  BY DEF ReceiveInvariant, TypeOK, Separated, has_new, new_start, Larger, IsFrame, End
<1>p. \A t, u \in pending : t # u => t.end < u.start \/ u.end < t.start
  BY DEF ReceiveInvariant, Separated
<1>m. /\ M \subseteq pending
      /\ \A s \in M : s.start <= End(f) /\ s.end >= new_start(f)
  <2>1. M \subseteq pending
    BY DEF merged_with, candidates
  <2> QED  BY <2>1, MergedWith
<1> HIDE DEF M
<1>i. A \in SUBSET Int /\ B \in SUBSET Int
  BY <1>t, <1>m
<1>1. \E m \in A : \A y \in A : m <= y
  <2>1. CASE \A s \in M : s.start >= new_start(f)
    BY <2>1, <1>t, <1>m
  <2>2. CASE \E s \in M : s.start < new_start(f)
    <3>1. PICK s \in M : s.start < new_start(f)
      BY <2>2
    <3>2. \A u \in M : s.start <= u.start
      BY <3>1, <1>t, <1>m, <1>p
    <3> QED  BY <3>1, <3>2, <1>t, <1>m
  <2> QED  BY <2>1, <2>2, <1>t, <1>m
<1>2. \E m \in B : \A y \in B : m >= y
  <2>1. CASE \A s \in M : s.end <= End(f)
    BY <2>1, <1>t, <1>m
  <2>2. CASE \E s \in M : s.end > End(f)
    <3>1. PICK s \in M : s.end > End(f)
      BY <2>2
    <3>2. \A u \in M : s.end >= u.end
      BY <3>1, <1>t, <1>m, <1>p
    <3> QED  BY <3>1, <3>2, <1>t, <1>m
  <2> QED  BY <2>1, <2>2, <1>t, <1>m
<1>3. merged_start(f) \in A /\ \A y \in A : merged_start(f) <= y
  <2>1. PICK m \in A : \A y \in A : m <= y
    BY <1>1
  <2>2. merged_start(f) = m
    BY <2>1, <1>i, MinIs, Zenon DEF merged_start, M
  <2> QED  BY <2>1, <2>2
<1>4. merged_end(f) \in B /\ \A y \in B : merged_end(f) >= y
  <2>1. PICK m \in B : \A y \in B : m >= y
    BY <1>2
  <2>2. merged_end(f) = m
    BY <2>1, <1>i, MaxIs, Zenon DEF merged_end, M
  <2> QED  BY <2>1, <2>2
<1> QED  BY <1>3, <1>4, <1>t, <1>m DEF M

(* The merged entry is well formed, and each of its bytes comes from the   *)
(* frame or from an entry merged with it.                                  *)
LEMMA MergedEntry ==
  ASSUME ReceiveInvariant, NEW f, IsFrame(f), has_new(f), End(f) <= max_data
  PROVE  /\ IsEntry(merged(f))
         /\ merged(f).start = merged_start(f) /\ merged(f).end = merged_end(f)
         /\ next_offset <= merged_start(f) /\ merged_start(f) < merged_end(f)
         /\ merged_end(f) <= max_data
         /\ \A o \in merged_start(f) .. merged_end(f) - 1 :
              \/ f.offset <= o /\ o < End(f) /\ merged(f).bytes[o] = f.bytes[o]
              \/ /\ ~(f.offset <= o /\ o < End(f))
                 /\ \E s \in merged_with(f) : Holds(s, o) /\ merged(f).bytes[o] = s.bytes[o]
<1> DEFINE M == merged_with(f)
           ms == merged_start(f)
           me == merged_end(f)
<1>t. /\ \A t \in pending : /\ IsEntry(t) /\ t.start \in Nat /\ t.end \in Nat /\ t.start < t.end
                            /\ next_offset < t.start /\ t.end <= max_data
      /\ new_start(f) \in Nat /\ End(f) \in Nat /\ new_start(f) < End(f)
      /\ f.offset \in Nat /\ f.offset <= new_start(f) /\ next_offset <= new_start(f)
      /\ next_offset \in Nat /\ max_data \in Nat /\ max_data <= MaxOffset
      /\ new_start(f) = f.offset \/ new_start(f) = next_offset
  <2>1. next_offset \in Nat /\ max_data \in Nat /\ max_data <= MaxOffset
    BY ReceiveConstants DEF ReceiveInvariant, TypeOK
  <2>2. \A t \in pending : IsEntry(t) /\ t.start \in Nat /\ t.end \in Nat
    BY ReceiveConstants DEF ReceiveInvariant, TypeOK, IsEntry
  <2>3. \A t \in pending : t.start < t.end /\ next_offset < t.start
    BY DEF ReceiveInvariant, Separated
  <2>4. \A t \in pending : t.end <= max_data
    BY DEF ReceiveInvariant, WithinCredit
  <2>5. f.offset \in Nat /\ End(f) \in Nat
    BY ReceiveConstants DEF IsFrame, End
  <2>6. new_start(f) < End(f)
    BY DEF has_new
  <2>7. /\ new_start(f) \in Nat /\ f.offset <= new_start(f) /\ next_offset <= new_start(f)
        /\ new_start(f) = f.offset \/ new_start(f) = next_offset
    BY <2>1, <2>5 DEF new_start, Larger
  <2> QED  BY <2>1, <2>2, <2>3, <2>4, <2>5, <2>6, <2>7
<1>p. \A t, u \in pending : t # u => t.end < u.start \/ u.end < t.start
  BY DEF ReceiveInvariant, Separated
<1>m. /\ M \subseteq pending
      /\ \A s \in M : s.start <= End(f) /\ s.end >= new_start(f)
  <2>1. M \subseteq pending
    BY DEF merged_with, candidates
  <2> QED  BY <2>1, MergedWith
<1>b. /\ ms \in Nat /\ me \in Nat /\ ms <= new_start(f) /\ End(f) <= me
      /\ ms = new_start(f) \/ \E s \in M : s.start = ms
      /\ me = End(f) \/ \E s \in M : s.end = me
      /\ \A s \in M : ms <= s.start /\ s.end <= me
  BY MergedBounds
<1>f. /\ merged(f).start = ms /\ merged(f).end = me
      /\ merged(f).bytes = [o \in ms .. me - 1 |->
           IF f.offset <= o /\ o < End(f) THEN f.bytes[o] ELSE ByteIn(M, o)]
      /\ merged(f) = [start |-> merged(f).start, end |-> merged(f).end,
                      bytes |-> merged(f).bytes]
  BY DEF merged
<1> HIDE DEF M, ms, me
<1>1. next_offset <= ms /\ ms < me /\ me <= max_data
  BY <1>t, <1>m, <1>b
<1>2. ASSUME NEW o \in ms .. me - 1
      PROVE  \/ /\ f.offset <= o /\ o < End(f)
                /\ merged(f).bytes[o] = f.bytes[o] /\ f.bytes[o] \in Byte
             \/ /\ ~(f.offset <= o /\ o < End(f))
                /\ \E s \in M : Holds(s, o) /\ merged(f).bytes[o] = s.bytes[o] /\ s.bytes[o] \in Byte
  <2>1. CASE f.offset <= o /\ o < End(f)
    BY <2>1, <1>f, <1>t DEF IsFrame
  <2>2. CASE ~(f.offset <= o /\ o < End(f))
    <3>1. \E s \in M : Holds(s, o)
      BY <2>2, <1>b, <1>m, <1>t, <1>1 DEF Holds
    <3>2. PICK s \in M : Holds(s, o)
      BY <3>1
    <3>3. ByteIn(M, o) = s.bytes[o]
      BY <3>2, <1>m, <1>t, <1>p, <1>b, OneHolder
    <3>4. s.bytes[o] \in Byte
      BY <3>2, <1>m, <1>t, <1>b, SMTT(30) DEF IsEntry, Holds
    <3> QED  BY <2>2, <3>2, <3>3, <3>4, <1>f
  <2> QED  BY <2>1, <2>2
<1>3. IsEntry(merged(f))
  <2>1. merged(f).bytes \in [ms .. me - 1 -> Byte]
    BY <1>2, <1>f
  <2> QED  BY <2>1, <1>f, <1>1, <1>b, <1>t, ReceiveConstants DEF IsEntry
<1> QED  BY <1>1, <1>2, <1>3, <1>f DEF M, ms, me

(* buffer_new_suffix() leaves entries that are apart.                      *)
LEMMA BufferedApart ==
  ASSUME ReceiveInvariant, NEW f, IsFrame(f), End(f) <= max_data
  PROVE  Apart(buffer_new_suffix(f))
<1>t. \A t \in pending : /\ IsEntry(t) /\ t.start \in Nat /\ t.end \in Nat /\ t.start < t.end
                         /\ next_offset < t.start /\ t.end <= max_data
  BY DEF ReceiveInvariant, TypeOK, Separated, WithinCredit, IsEntry
<1>p. \A t, u \in pending : t # u => t.end < u.start \/ u.end < t.start
  BY DEF ReceiveInvariant, Separated
<1>n. next_offset \in Nat
  BY DEF ReceiveInvariant, TypeOK
<1>1. CASE ~has_new(f)
  BY <1>1, <1>t, <1>p, <1>n DEF Apart, buffer_new_suffix
<1>2. CASE has_new(f)
  <2> DEFINE m == merged(f)
  <2>1. /\ IsEntry(m) /\ m.start = merged_start(f) /\ m.end = merged_end(f)
        /\ next_offset <= m.start /\ m.start < m.end /\ m.end <= max_data
    BY <1>2, MergedEntry
  <2>2. /\ m.start \in Nat /\ m.end \in Nat
        /\ \/ m.start = new_start(f)
           \/ \E s \in merged_with(f) : s.start = m.start
        /\ \/ m.end = End(f)
           \/ \E s \in merged_with(f) : s.end = m.end
    BY <1>2, <2>1, MergedBounds
  <2>3. buffer_new_suffix(f) = (pending \ merged_with(f)) \union {m}
    BY <1>2 DEF buffer_new_suffix
  <2>4. merged_with(f) \subseteq pending
    BY DEF merged_with, candidates
  <2>5. \A s \in pending \ merged_with(f) : s.start > End(f) \/ s.end < new_start(f)
    <3>1. new_start(f) \in Nat /\ End(f) \in Nat
      BY DEF ReceiveInvariant, TypeOK, new_start, Larger, IsFrame, End
    <3> QED  BY <1>2, MergedWith, <1>t, <3>1
  <2>6. \A s \in merged_with(f) : s.start <= End(f) /\ s.end >= new_start(f)
    BY <1>2, MergedWith, <2>4
  <2>7. new_start(f) \in Nat /\ End(f) \in Nat /\ new_start(f) < End(f)
    BY <1>2 DEF ReceiveInvariant, TypeOK, has_new, new_start, Larger, IsFrame, End
  <2> HIDE DEF m
  <2>8. \A s \in pending \ merged_with(f) : m.end < s.start \/ s.end < m.start
    <3> SUFFICES ASSUME NEW s \in pending \ merged_with(f)
                 PROVE  m.end < s.start \/ s.end < m.start
      OBVIOUS
    <3>1. CASE s.start > End(f)
      BY <3>1, <2>2, <2>4, <2>6, <2>7, <1>t, <1>p
    <3>2. CASE s.end < new_start(f)
      BY <3>2, <2>2, <2>4, <2>6, <2>7, <1>t, <1>p
    <3> QED  BY <3>1, <3>2, <2>5
  <2> QED  BY <2>1, <2>3, <2>8, <1>t, <1>p, <1>n DEF Apart
<1> QED  BY <1>1, <1>2

(* drain_contiguous() takes the entry at next_offset_, if there is one,    *)
(* and no other: the entries are apart.                                    *)
LEMMA Drained ==
  ASSUME next_offset \in Nat, NEW P, Apart(P)
  PROVE  \/ /\ drained(P) = {} /\ drained_to(P) = next_offset
            /\ \A s \in P : next_offset < s.start
         \/ \E s \in P : /\ drained(P) = {s} /\ drained_to(P) = s.end
                         /\ s.start = next_offset
                         /\ \A t \in P : t # s => s.end < t.start
<1>t. \A s \in P : /\ s.start \in Nat /\ s.end \in Nat /\ s.start < s.end
                   /\ next_offset <= s.start
  BY ReceiveConstants DEF Apart, IsEntry
<1>p. \A s, t \in P : s # t => s.end < t.start \/ t.end < s.start
  BY DEF Apart
<1>a. ahead(P) = P
  BY <1>t DEF ahead
<1>d. \A s \in P : s \in drained(P) <=> s.start = next_offset
  <2> SUFFICES ASSUME NEW s \in P PROVE s \in drained(P) <=> s.start = next_offset
    OBVIOUS
  <2>1. ASSUME s.start = next_offset PROVE s \in drained(P)
    BY <2>1, <1>a, <1>t DEF drained, Holds
  <2>2. ASSUME s \in drained(P), s.start # next_offset PROVE FALSE
    <3>1. s.start - 1 \in next_offset .. s.end - 1
      BY <2>2, <1>t
    <3>2. PICK u \in P : Holds(u, s.start - 1)
      BY <2>2, <3>1, <1>a DEF drained
    <3> QED  BY <3>2, <1>t, <1>p DEF Holds
  <2> QED  BY <2>1, <2>2
<1>s. drained(P) \subseteq P
  BY <1>a DEF drained
<1>1. CASE \A s \in P : s.start # next_offset
  <2>1. drained(P) = {}
    BY <1>1, <1>d, <1>s
  <2>2. drained_to(P) = next_offset
    BY <2>1, MaxIs, {next_offset} \union {s.end : s \in drained(P)} = {next_offset} DEF drained_to
  <2> QED  BY <2>1, <2>2, <1>1, <1>t
<1>2. CASE \E s \in P : s.start = next_offset
  <2>1. PICK s \in P : s.start = next_offset
    BY <1>2
  <2>2. drained(P) = {s}
    BY <2>1, <1>d, <1>s, <1>p, <1>t
  <2>3. {next_offset} \union {u.end : u \in drained(P)} = {next_offset, s.end}
    BY <2>2
  <2>4. drained_to(P) = s.end
    <3> DEFINE T == {next_offset, s.end}
    <3>1. T \in SUBSET Int /\ s.end \in T /\ \A y \in T : s.end >= y
      BY <2>1, <1>t
    <3>2. Max(T) = s.end
      BY <3>1, MaxIs, Zenon
    <3> QED  BY <3>2, <2>3 DEF drained_to
  <2>5. \A t \in P : t # s => s.end < t.start
    BY <2>1, <1>t, <1>p
  <2> QED  BY <2>1, <2>2, <2>4, <2>5
<1> QED  BY <1>1, <1>2

-----------------------------------------------------------------------------
(* Initially nothing has been received.                                    *)
LEMMA InitEstablishes == Init => ReceiveInvariant
<1> SUFFICES ASSUME Init PROVE ReceiveInvariant
  OBVIOUS
<1>1. /\ next_offset \in 0..MaxOffset /\ max_data \in 0..MaxOffset
      /\ next_offset <= max_data /\ pending = {}
      /\ final_size \in {NoFinalSize} \union 0..MaxOffset
      /\ delivered \in [0 .. next_offset - 1 -> Byte]
  BY ReceiveConstants DEF Init
<1>2. reset_received \in BOOLEAN /\ error \in {"none", "stream", "flow_control"}
  BY Zenon DEF Init
<1> QED  BY <1>1, <1>2, Zenon DEF ReceiveInvariant, TypeOK, Separated, WithinCredit

(* The bytes given to the application by drain_contiguous() are those of   *)
(* the entry taken.                                                        *)
LEMMA DrainEffect ==
  ASSUME ReceiveInvariant, NEW P, Apart(P), drain_contiguous(P)
  PROVE  /\ next_offset' \in next_offset .. MaxOffset
         /\ next_offset <= max_data => next_offset' <= max_data
         /\ delivered' \in [0 .. next_offset' - 1 -> Byte]
         /\ \A o \in 0 .. next_offset - 1 : delivered'[o] = delivered[o]
         /\ pending' \subseteq P
         /\ \A s \in pending' : next_offset' < s.start
         /\ \A s \in P \ pending' : /\ s.start = next_offset /\ s.end = next_offset'
                                    /\ \A o \in Nat : Holds(s, o) => delivered'[o] = s.bytes[o]
         /\ \A o \in next_offset .. next_offset' - 1 : \E s \in P \ pending' : Holds(s, o)
<1>n. /\ next_offset \in Nat /\ next_offset <= MaxOffset
      /\ delivered \in [0 .. next_offset - 1 -> Byte]
  BY ReceiveConstants DEF ReceiveInvariant, TypeOK
<1>u. /\ next_offset' = drained_to(P)
      /\ delivered' = [o \in 0 .. drained_to(P) - 1 |->
                         IF o < next_offset THEN delivered[o] ELSE ByteIn(drained(P), o)]
      /\ pending' = P \ drained(P)
  BY DEF drain_contiguous
<1>t. \A s \in P : /\ IsEntry(s) /\ s.start \in Nat /\ s.end \in Nat /\ s.start < s.end
                   /\ s.end <= MaxOffset /\ s.end <= max_data
  BY ReceiveConstants DEF Apart, IsEntry
<1>1. CASE drained(P) = {} /\ drained_to(P) = next_offset /\ \A s \in P : next_offset < s.start
  <2>1. next_offset' = next_offset /\ pending' = P
    BY <1>1, <1>u
  <2>2. delivered' = [o \in 0 .. next_offset - 1 |->
                         IF o < next_offset THEN delivered[o] ELSE ByteIn(drained(P), o)]
    BY <1>1, <1>u
  <2>3. delivered' = delivered
    BY <2>2, <1>n
  <2> QED  BY <2>1, <2>3, <1>1, <1>n
<1>2. CASE \E s \in P : /\ drained(P) = {s} /\ drained_to(P) = s.end
                        /\ s.start = next_offset
                        /\ \A t \in P : t # s => s.end < t.start
  <2>1. PICK s \in P : /\ drained(P) = {s} /\ drained_to(P) = s.end
                       /\ s.start = next_offset
                       /\ \A t \in P : t # s => s.end < t.start
    BY <1>2
  <2>2. next_offset' = s.end /\ pending' = P \ {s}
    BY <2>1, <1>u
  <2>3. delivered' = [o \in 0 .. s.end - 1 |->
                         IF o < next_offset THEN delivered[o] ELSE ByteIn({s}, o)]
    BY <2>1, <1>u
  <2>4. \A o \in Int : Holds(s, o) => ByteIn({s}, o) = s.bytes[o] /\ s.bytes[o] \in Byte
    <3>1. ASSUME NEW o \in Int, Holds(s, o) PROVE ByteIn({s}, o) = s.bytes[o]
      BY <3>1, <1>t, OneHolder
    <3>2. ASSUME NEW o \in Int, Holds(s, o) PROVE s.bytes[o] \in Byte
      BY <3>2, <1>t DEF IsEntry, Holds
    <3> QED  BY <3>1, <3>2
  <2>5. \A o \in next_offset .. s.end - 1 : Holds(s, o)
    BY <2>1, <1>t DEF Holds
  <2>6. delivered' \in [0 .. s.end - 1 -> Byte]
    <3>1. ASSUME NEW o \in 0 .. s.end - 1
          PROVE  (IF o < next_offset THEN delivered[o] ELSE ByteIn({s}, o)) \in Byte
      <4>1. CASE o < next_offset
        BY <4>1, <1>n
      <4>2. CASE ~(o < next_offset)
        <5>1. o \in Int /\ Holds(s, o)
          BY <4>2, <2>5, <1>n, <1>t
        <5>2. ByteIn({s}, o) \in Byte
          BY <5>1, <2>4
        <5> QED  BY <4>2, <5>2
      <4> QED  BY <4>1, <4>2
    <3> QED  BY <3>1, <2>3, Zenon
  <2>7. \A o \in 0 .. next_offset - 1 : delivered'[o] = delivered[o]
    BY <2>3, <1>n, <1>t, <2>1
  <2>8. \A o \in Nat : Holds(s, o) => delivered'[o] = s.bytes[o]
    <3> SUFFICES ASSUME NEW o \in Nat, Holds(s, o)
                 PROVE  delivered'[o] = s.bytes[o]
      OBVIOUS
    <3>1. o \in 0 .. s.end - 1 /\ ~(o < next_offset)
      BY <2>1, <1>t, <1>n DEF Holds
    <3>2. delivered'[o] = ByteIn({s}, o)
      BY <3>1, <2>3
    <3>3. o \in Int
      OBVIOUS
    <3> QED  BY <3>2, <3>3, <2>4
  <2> QED  BY <2>1, <2>2, <2>5, <2>6, <2>7, <2>8, <1>t, <1>n
<1> QED  BY <1>1, <1>2, <1>n, Drained

(* An accepted frame keeps pending_ canonical.                             *)
LEMMA AcceptedPreserves ==
  ASSUME ReceiveInvariant, NEW f, IsFrame(f), receive_accepted(f)
  PROVE  ReceiveInvariant'
<1> DEFINE P == buffer_new_suffix(f)
<1>u. /\ drain_contiguous(P) /\ End(f) <= max_data
      /\ max_data' = max_data /\ reset_received' = reset_received /\ error' = "none"
      /\ final_size' = IF f.fin THEN End(f) ELSE final_size
  BY DEF receive_accepted, accepted
<1>a. Apart(P)
  BY <1>u, BufferedApart
<1> HIDE DEF P
<1>t. /\ next_offset \in Nat /\ max_data \in 0..MaxOffset /\ next_offset <= max_data
      /\ final_size \in {NoFinalSize} \union 0..MaxOffset
      /\ End(f) \in 0..MaxOffset
  BY <1>u, ReceiveConstants, SMTT(30) DEF ReceiveInvariant, TypeOK, WithinCredit, IsFrame, End
<1>1. /\ next_offset' \in next_offset .. MaxOffset /\ next_offset' <= max_data
      /\ delivered' \in [0 .. next_offset' - 1 -> Byte]
      /\ pending' \subseteq P
      /\ \A s \in pending' : next_offset' < s.start
  BY <1>u, <1>a, <1>t, DrainEffect
<1>2. \A s \in pending' : IsEntry(s) /\ s.start < s.end /\ s.end <= max_data
  BY <1>1, <1>a DEF Apart
<1>3. next_offset' \in 0..MaxOffset /\ final_size' \in {NoFinalSize} \union 0..MaxOffset
  BY <1>1, <1>t, <1>u
<1>4. reset_received' \in BOOLEAN
  BY <1>u DEF ReceiveInvariant, TypeOK
<1>5. TypeOK'
  BY <1>1, <1>2, <1>3, <1>4, <1>u, <1>t, Zenon DEF TypeOK, IsEntry
<1>6. Separated'
  BY <1>1, <1>2, <1>a DEF Separated, Apart
<1>7. WithinCredit'
  BY <1>1, <1>2, <1>u DEF WithinCredit
<1> QED  BY <1>5, <1>6, <1>7 DEF ReceiveInvariant

(* A call that changes neither the buffers nor the offsets keeps the       *)
(* invariant.                                                              *)
LEMMA OthersPreserve ==
  ASSUME ReceiveInvariant,
         \/ \E f : receive_rejected(f)
         \/ \E size \in 0..MaxOffset : reset(size)
         \/ \E v \in 0..MaxOffset : update_max_data(v)
         \/ UNCHANGED vars
  PROVE  ReceiveInvariant' /\ UNCHANGED <<next_offset, delivered, pending>>
<1>1. UNCHANGED <<next_offset, delivered, pending>>
  BY DEF receive_rejected, reset, update_max_data, vars
<1>2. max_data' \in 0..MaxOffset /\ max_data <= max_data'
  BY DEF receive_rejected, reset, update_max_data, vars, Larger, ReceiveInvariant, TypeOK
<1>3. final_size' \in {NoFinalSize} \union 0..MaxOffset
  BY DEF receive_rejected, reset, update_max_data, vars, ReceiveInvariant, TypeOK
<1>4. reset_received' \in BOOLEAN /\ error' \in {"none", "stream", "flow_control"}
  BY Zenon DEF receive_rejected, reset, update_max_data, vars, ReceiveInvariant, TypeOK
<1>5. TypeOK' /\ Separated'
  BY <1>1, <1>2, <1>3, <1>4, Zenon DEF ReceiveInvariant, TypeOK, Separated
<1>6. WithinCredit'
  BY <1>1, <1>2 DEF ReceiveInvariant, TypeOK, WithinCredit
<1> QED  BY <1>1, <1>5, <1>6 DEF ReceiveInvariant

(* A step either accepts a frame or leaves the buffers alone.              *)
LEMMA StepCases ==
  ASSUME [Next]_vars
  PROVE  \/ \E f : IsFrame(f) /\ receive_accepted(f)
         \/ \E f : receive_rejected(f)
         \/ \E size \in 0..MaxOffset : reset(size)
         \/ \E v \in 0..MaxOffset : update_max_data(v)
         \/ UNCHANGED vars
<1>1. ASSUME NEW o \in 0..MaxOffset, NEW n \in 0..MaxLength, NEW fin \in BOOLEAN,
             NEW d \in [o .. o + n - 1 -> Byte]
      PROVE  IsFrame([offset |-> o, length |-> n, bytes |-> d, fin |-> fin])
  BY ReceiveConstants DEF IsFrame, End
<1> QED  BY <1>1, Zenon DEF Next, receive

(* pending_ stays canonical and within the credit in every reachable       *)
(* state, for every set of byte values and every largest offset.           *)
THEOREM ReceiveInvariantHolds == Spec => []ReceiveInvariant
<1>1. ReceiveInvariant /\ [Next]_vars => ReceiveInvariant'
  BY StepCases, AcceptedPreserves, OthersPreserve
<1> QED  BY <1>1, InitEstablishes, PTL DEF Spec

(* The members of stream_receive_state keep their types.                   *)
THEOREM ReceiveTypes == Spec => []TypeOK
<1>1. ReceiveInvariant => TypeOK
  BY DEF ReceiveInvariant
<1> QED  BY <1>1, ReceiveInvariantHolds, PTL

(* The entries of pending_ never overlap, touch or reach below             *)
(* next_offset_.                                                           *)
THEOREM PendingIsSeparated == Spec => []Separated
<1>1. ReceiveInvariant => Separated
  BY DEF ReceiveInvariant
<1> QED  BY <1>1, ReceiveInvariantHolds, PTL

(* Nothing beyond the granted credit is ever buffered or delivered.        *)
THEOREM ReceiveCreditIsRespected == Spec => []WithinCredit
<1>1. ReceiveInvariant => WithinCredit
  BY DEF ReceiveInvariant
<1> QED  BY <1>1, ReceiveInvariantHolds, PTL

-----------------------------------------------------------------------------
(* validate_overlap() compares a frame with every entry that shares an     *)
(* offset with it, although byte_at() looks at one entry only.             *)
LEMMA OverlapChecked ==
  ASSUME ReceiveInvariant, NEW f, IsFrame(f), validate_overlap(f),
         NEW s \in pending, NEW o \in Nat, Holds(s, o), f.offset <= o, o < End(f)
  PROVE  s.bytes[o] = f.bytes[o]
<1>t. \A t \in pending : t.start \in Nat /\ t.end \in Nat /\ t.start < t.end /\ next_offset < t.start
  BY DEF ReceiveInvariant, TypeOK, Separated
<1>p. \A t, u \in pending : t # u => t.end < u.start \/ u.end < t.start
  BY DEF ReceiveInvariant, Separated
<1>n. next_offset \in Nat /\ o \in f.offset .. End(f) - 1
  BY DEF ReceiveInvariant, TypeOK, IsFrame, End
<1>1. s \in byte_before(o) /\ o < s.end
  BY <1>t, <1>p DEF byte_before, Holds
<1>2. ~(o < next_offset)
  BY <1>t, <1>n DEF Holds
<1>3. s.bytes[o] \in known_at(o)
  BY <1>1, <1>2 DEF known_at
<1> QED  BY <1>3, <1>n DEF validate_overlap

(* What buffer_new_suffix() leaves holds the bytes that were pending and   *)
(* those of the frame, and no others.                                      *)
LEMMA BufferedContent ==
  ASSUME ReceiveInvariant, NEW f, IsFrame(f), accepted(f)
  PROVE  /\ \A o \in Nat : next_offset <= o =>
              ((\E s \in buffer_new_suffix(f) : Holds(s, o))
                 <=> (\E s \in pending : Holds(s, o)) \/ (f.offset <= o /\ o < End(f)))
         /\ \A o \in Nat : \A s \in buffer_new_suffix(f), t \in pending :
              Holds(s, o) /\ Holds(t, o) => s.bytes[o] = t.bytes[o]
<1> DEFINE P == buffer_new_suffix(f)
<1>t. /\ \A t \in pending : t.start \in Nat /\ t.end \in Nat /\ t.start < t.end
      /\ next_offset \in Nat /\ End(f) \in Nat /\ f.offset \in Nat
      /\ \A t \in pending : IsEntry(t)
  <2>1. \A t \in pending : t.start \in Nat /\ t.end \in Nat /\ t.start < t.end
    BY DEF ReceiveInvariant, Separated, TypeOK, IsEntry
  <2>2. next_offset \in Nat
    BY DEF ReceiveInvariant, TypeOK
  <2>3. End(f) \in Nat /\ f.offset \in Nat
    BY DEF IsFrame, End
  <2>4. \A t \in pending : IsEntry(t)
    BY ZenonT(30) DEF ReceiveInvariant, TypeOK, IsEntry
  <2> QED  BY <2>1, <2>2, <2>3, <2>4, Zenon
<1>p. \A t, u \in pending : t # u => t.end < u.start \/ u.end < t.start
  BY DEF ReceiveInvariant, Separated
<1>a. End(f) <= max_data /\ validate_overlap(f)
  BY DEF accepted
<1>1. CASE ~has_new(f)
  <2>1. P = pending
    BY <1>1 DEF buffer_new_suffix
  <2>2. \A o \in Nat : next_offset <= o => ~(f.offset <= o /\ o < End(f))
    BY <1>1, <1>t DEF has_new, new_start, Larger, IsFrame, End
  <2>3. \A o \in Nat : \A s, t \in pending : Holds(s, o) /\ Holds(t, o) => s = t
    BY <1>t, <1>p DEF Holds
  <2> QED  BY <2>1, <2>2, <2>3
<1>2. CASE has_new(f)
  <2> DEFINE m == merged(f)
             M == merged_with(f)
  <2>1. P = (pending \ M) \union {m}
    BY <1>2 DEF buffer_new_suffix
  <2>2. /\ m.start = merged_start(f) /\ m.end = merged_end(f)
        /\ \A o \in m.start .. m.end - 1 :
              \/ f.offset <= o /\ o < End(f) /\ m.bytes[o] = f.bytes[o]
              \/ \E s \in M : Holds(s, o) /\ m.bytes[o] = s.bytes[o]
    BY <1>2, <1>a, MergedEntry
  <2>3. /\ m.start \in Nat /\ m.end \in Nat
        /\ m.start <= new_start(f) /\ End(f) <= m.end
        /\ \A s \in M : m.start <= s.start /\ s.end <= m.end
    BY <1>2, <2>2, MergedBounds
  <2>4. M \subseteq pending
    BY DEF merged_with, candidates
  <2>5. new_start(f) \in Nat /\ \A o \in Nat : next_offset <= o /\ f.offset <= o => new_start(f) <= o
    BY <1>t DEF new_start, Larger
  <2> HIDE DEF m, M, P
  <2>6. ASSUME NEW o \in Nat, next_offset <= o
        PROVE  (\E s \in P : Holds(s, o))
                 <=> (\E s \in pending : Holds(s, o)) \/ (f.offset <= o /\ o < End(f))
    <3>1. ASSUME Holds(m, o)
          PROVE  (\E s \in pending : Holds(s, o)) \/ (f.offset <= o /\ o < End(f))
      <4>1. o \in m.start .. m.end - 1
        BY <3>1, <2>3 DEF Holds
      <4> QED  BY <4>1, <2>2, <2>4
    <3>2. ASSUME f.offset <= o, o < End(f) PROVE Holds(m, o)
      BY <3>2, <2>6, <2>3, <2>5, <1>t DEF Holds
    <3>3. ASSUME NEW s \in M, Holds(s, o) PROVE Holds(m, o)
      BY <3>3, <2>3, <2>4, <1>t DEF Holds
    <3> QED  BY <2>1, <3>1, <3>2, <3>3
  <2>7. ASSUME NEW o \in Nat, NEW s \in P, NEW t \in pending, Holds(s, o), Holds(t, o)
        PROVE  s.bytes[o] = t.bytes[o]
    <3>1. CASE s \in pending
      <4>1. s = t
        BY <3>1, <2>7, <1>t, <1>p DEF Holds
      <4> QED  BY <4>1
    <3>2. CASE s = m
      <4>1. o \in m.start .. m.end - 1
        BY <3>2, <2>7, <2>3 DEF Holds
      <4>2. CASE f.offset <= o /\ o < End(f) /\ m.bytes[o] = f.bytes[o]
        BY <4>2, <3>2, <2>7, <1>a, OverlapChecked
      <4>3. CASE \E u \in M : Holds(u, o) /\ m.bytes[o] = u.bytes[o]
        <5>1. PICK u \in M : Holds(u, o) /\ m.bytes[o] = u.bytes[o]
          BY <4>3
        <5>2. u = t
          BY <5>1, <2>4, <2>7, <1>t, <1>p DEF Holds
        <5> QED  BY <5>1, <5>2, <3>2
      <4> QED  BY <4>1, <4>2, <4>3, <2>2
    <3> QED  BY <3>1, <3>2, <2>1
  <2> QED  BY <2>6, <2>7 DEF P
<1> QED  BY <1>1, <1>2

(* What the entries and delivered_ hold at an offset.                      *)
LEMMA ReceivedIs ==
  ASSUME ReceiveInvariant
  PROVE  /\ DOMAIN received = {o \in 0..MaxOffset : o < next_offset \/ \E s \in pending : Holds(s, o)}
         /\ \A o \in 0 .. next_offset - 1 : o \in DOMAIN received /\ received[o] = delivered[o]
         /\ \A s \in pending : \A o \in Nat :
              Holds(s, o) => o \in DOMAIN received /\ received[o] = s.bytes[o]
<1>t. /\ \A t \in pending : IsEntry(t) /\ t.start \in Nat /\ t.end \in 0..MaxOffset /\ next_offset < t.start
      /\ next_offset \in 0..MaxOffset
  BY DEF ReceiveInvariant, TypeOK, Separated, IsEntry
<1>p. \A t, u \in pending : t # u => t.end < u.start \/ u.end < t.start
  BY DEF ReceiveInvariant, Separated
<1>1. DOMAIN received = {o \in 0..MaxOffset : o < next_offset \/ \E s \in pending : Holds(s, o)}
  BY DEF received
<1>2. ASSUME NEW o \in 0 .. next_offset - 1
      PROVE  o \in DOMAIN received /\ received[o] = delivered[o]
  BY <1>t, ReceiveConstants DEF received
<1>3. ASSUME NEW s \in pending, NEW o \in Nat, Holds(s, o)
      PROVE  o \in DOMAIN received /\ received[o] = s.bytes[o]
  <2>1. o \in DOMAIN received /\ ~(o < next_offset)
    BY <1>1, <1>3, <1>t, ReceiveConstants DEF Holds
  <2>2. received[o] = ByteIn(pending, o)
    BY <2>1 DEF received
  <2>3. ByteIn(pending, o) = s.bytes[o]
    BY <1>3, <1>t, <1>p, OneHolder
  <2> QED  BY <2>1, <2>2, <2>3
<1> QED  BY <1>1, <1>2, <1>3

(* The application has been given the contiguous prefix of what was        *)
(* accepted.                                                               *)
LEMMA DeliveredIsPrefix ==
  ASSUME ReceiveInvariant
  PROVE  delivered = Reassembly!Prefix(received)
<1>t. /\ \A t \in pending : t.start \in Nat /\ next_offset < t.start
      /\ next_offset \in 0..MaxOffset /\ delivered \in [0 .. next_offset - 1 -> Byte]
  BY DEF ReceiveInvariant, TypeOK, Separated
<1>1. next_offset \notin DOMAIN received
  BY <1>t, ReceivedIs DEF Holds
<1>2. \A o \in DOMAIN received : 0..o \subseteq DOMAIN received <=> o \in 0 .. next_offset - 1
  <2> SUFFICES ASSUME NEW o \in DOMAIN received
               PROVE  0..o \subseteq DOMAIN received <=> o \in 0 .. next_offset - 1
    OBVIOUS
  <2>1. o \in Nat
    BY ReceivedIs, ReceiveConstants
  <2>2. ASSUME o \in 0 .. next_offset - 1 PROVE 0..o \subseteq DOMAIN received
    BY <2>2, <2>1, <1>t, ReceivedIs
  <2>3. ASSUME o \notin 0 .. next_offset - 1 PROVE next_offset \in 0..o
    BY <2>3, <2>1, <1>t
  <2> QED  BY <2>2, <2>3, <1>1
<1>3. {o \in DOMAIN received : 0..o \subseteq DOMAIN received} = 0 .. next_offset - 1
  BY <1>2, ReceivedIs
<1>4. Reassembly!Prefix(received) = [o \in 0 .. next_offset - 1 |-> received[o]]
  BY <1>3 DEF Reassembly!Prefix
<1> QED  BY <1>4, <1>t, ReceivedIs

(* ReceivedIs and DeliveredIsPrefix together.                              *)
ReceivedFacts ==
  /\ DOMAIN received = {o \in 0..MaxOffset : o < next_offset \/ \E s \in pending : Holds(s, o)}
  /\ \A o \in 0 .. next_offset - 1 : o \in DOMAIN received /\ received[o] = delivered[o]
  /\ \A s \in pending : \A o \in Nat :
       Holds(s, o) => o \in DOMAIN received /\ received[o] = s.bytes[o]
  /\ delivered = Reassembly!Prefix(received)

(* They hold wherever the invariant does.                                  *)
LEMMA ReceivedFactsHold == ReceiveInvariant => ReceivedFacts
  BY ReceivedIs, DeliveredIsPrefix, SMTT(30) DEF ReceivedFacts

(* What received holds after a step, from what the entries hold then.      *)
LEMMA ReceivedIsNext ==
  ASSUME ReceiveInvariant'
  PROVE  /\ DOMAIN received' = {o \in 0..MaxOffset : o < next_offset' \/ \E s \in pending' : Holds(s, o)}
         /\ \A o \in 0 .. next_offset' - 1 : o \in DOMAIN received' /\ received'[o] = delivered'[o]
         /\ \A s \in pending' : \A o \in Nat :
              Holds(s, o) => o \in DOMAIN received' /\ received'[o] = s.bytes[o]
         /\ delivered' = Reassembly!Prefix(received')
<1>1. ReceiveInvariant' => ReceivedFacts'
  BY ReceivedFactsHold, PTL
<1> QED  BY <1>1 DEF ReceivedFacts, Holds, Reassembly!Prefix

(* An accepted frame is an Accept step of StreamReassembly.                *)
LEMMA AcceptedRefines ==
  ASSUME ReceiveInvariant, NEW f, IsFrame(f), receive_accepted(f)
  PROVE  Reassembly!Accept(f.offset, End(f)) /\ End(f) \in 0..MaxOffset
<1> DEFINE P == buffer_new_suffix(f)
<1>i. ReceiveInvariant'
  BY AcceptedPreserves
<1>u. accepted(f) /\ drain_contiguous(P) /\ End(f) <= max_data
  BY DEF receive_accepted, accepted
<1>a. Apart(P)
  BY <1>u, BufferedApart, SMTT(30)
<1>c. /\ \A o \in Nat : next_offset <= o =>
           ((\E s \in P : Holds(s, o))
              <=> (\E s \in pending : Holds(s, o)) \/ (f.offset <= o /\ o < End(f)))
      /\ \A o \in Nat : \A s \in P, t \in pending :
           Holds(s, o) /\ Holds(t, o) => s.bytes[o] = t.bytes[o]
  BY <1>u, BufferedContent, SMTT(30)
<1> HIDE DEF P
<1>d. /\ next_offset' \in next_offset .. MaxOffset
      /\ \A o \in 0 .. next_offset - 1 : delivered'[o] = delivered[o]
      /\ pending' \subseteq P
      /\ \A s \in P \ pending' : /\ s.start = next_offset /\ s.end = next_offset'
                                 /\ \A o \in Nat : Holds(s, o) => delivered'[o] = s.bytes[o]
      /\ \A o \in next_offset .. next_offset' - 1 : \E s \in P \ pending' : Holds(s, o)
  BY <1>u, <1>a, DrainEffect, SMTT(30)
<1>t. /\ next_offset \in Nat /\ next_offset' \in Nat /\ MaxOffset \in Nat
      /\ f.offset \in 0..MaxOffset /\ End(f) \in 0..MaxOffset
  <2>1. next_offset \in Nat /\ max_data \in 0..MaxOffset /\ MaxOffset \in Nat
    BY ReceiveConstants DEF ReceiveInvariant, TypeOK
  <2>2. next_offset' \in next_offset .. MaxOffset
    BY <1>d, Zenon
  <2>3. f.offset \in 0..MaxOffset /\ End(f) \in 0..MaxOffset
    BY <1>u, <2>1 DEF IsFrame, End
  <2> QED  BY <2>1, <2>2, <2>3
<1>1. \A o \in 0..MaxOffset :
        (o < next_offset' \/ \E s \in pending' : Holds(s, o))
          <=> (o < next_offset \/ \E s \in P : Holds(s, o))
  <2> SUFFICES ASSUME NEW o \in 0..MaxOffset
               PROVE  (o < next_offset' \/ \E s \in pending' : Holds(s, o))
                        <=> (o < next_offset \/ \E s \in P : Holds(s, o))
    OBVIOUS
  <2>1. ASSUME o < next_offset', ~(o < next_offset) PROVE \E s \in P : Holds(s, o)
    <3>1. o \in next_offset .. next_offset' - 1
      <4>1. o \in Int /\ next_offset \in Int /\ next_offset' \in Int
        BY <1>t
      <4>2. next_offset <= o /\ o < next_offset'
        BY <2>1, <4>1
      <4>3. \A i, j \in Int : i <= o /\ o < j => o \in i .. j - 1
        BY <4>1
      <4> QED  BY <4>1, <4>2, <4>3, Zenon
    <3> QED  BY <3>1, <1>d, Zenon
  <2>2. ASSUME NEW s \in P, Holds(s, o), s \notin pending' PROVE o < next_offset'
    BY <2>2, <1>d DEF Holds
  <2> QED  BY <2>1, <2>2, <1>d, <1>t
<1>2. \A o \in 0..MaxOffset :
        (o < next_offset \/ \E s \in P : Holds(s, o))
          <=> \/ o < next_offset \/ \E s \in pending : Holds(s, o)
              \/ f.offset <= o /\ o < End(f)
  <2> SUFFICES ASSUME NEW o \in 0..MaxOffset, next_offset <= o
               PROVE  (\E s \in P : Holds(s, o))
                        <=> (\E s \in pending : Holds(s, o)) \/ (f.offset <= o /\ o < End(f))
    <3>1. \A o \in 0..MaxOffset : next_offset <= o \/ o < next_offset
      BY <1>t
    <3>2. \A s \in P : next_offset <= s.start
      BY <1>a DEF Apart
    <3> QED  BY <3>1, <3>2
  <2>1. o \in Nat
    BY <1>t
  <2> QED  BY <2>1, <1>c
<1>3. DOMAIN received' = DOMAIN received \union f.offset .. (End(f) - 1)
  <2>1. DOMAIN received = {o \in 0..MaxOffset : o < next_offset \/ \E s \in pending : Holds(s, o)}
    BY ReceivedIs
  <2>2. DOMAIN received' = {o \in 0..MaxOffset : o < next_offset' \/ \E s \in pending' : Holds(s, o)}
    BY <1>i, ReceivedIsNext
  <2>3. \A o : o \in f.offset .. (End(f) - 1) <=> o \in 0..MaxOffset /\ f.offset <= o /\ o < End(f)
    BY <1>t
  <2> QED  BY <2>1, <2>2, <2>3, <1>1, <1>2
<1>4. ASSUME NEW o \in DOMAIN received PROVE received'[o] = received[o]
  <2>1. o \in 0..MaxOffset /\ (o < next_offset \/ \E s \in pending : Holds(s, o))
    BY ReceivedIs
  <2>2. CASE o < next_offset
    <3>1. o \in 0 .. next_offset - 1 /\ o \in 0 .. next_offset' - 1
      BY <2>1, <2>2, <1>t, <1>d
    <3> QED  BY <3>1, <1>i, <1>d, ReceivedIs, ReceivedIsNext, ZenonT(30)
  <2>3. CASE ~(o < next_offset) /\ \E s \in pending : Holds(s, o)
    <3>1. PICK t \in pending : Holds(t, o)
      BY <2>3
    <3>2. o \in Nat /\ received[o] = t.bytes[o]
      BY <2>1, <3>1, ReceivedIs, <1>t
    <3>3. PICK s \in P : Holds(s, o)
      BY <2>3, <3>1, <3>2, <1>c, <1>t
    <3>4. s.bytes[o] = t.bytes[o]
      BY <3>1, <3>2, <3>3, <1>c
    <3>5. CASE s \in pending'
      BY <3>2, <3>3, <3>4, <3>5, <1>i, ReceivedIsNext
    <3>6. CASE s \notin pending'
      <4>1. delivered'[o] = s.bytes[o] /\ o < next_offset'
        BY <3>2, <3>3, <3>6, <1>d DEF Holds
      <4>2. o \in 0 .. next_offset' - 1
        BY <4>1, <3>2, <1>t
      <4> QED  BY <4>1, <4>2, <3>2, <3>4, <1>i, ReceivedIsNext
    <3> QED  BY <3>5, <3>6
  <2> QED  BY <2>1, <2>2, <2>3
<1>5. delivered' = Reassembly!Prefix(received')
  BY <1>i, ReceivedIsNext
<1> QED  BY <1>3, <1>4, <1>5, <1>t DEF Reassembly!Accept

(* stream_receive_state implements StreamReassembly: whatever frames       *)
(* arrive, in whatever order, an accepted byte is never changed, lost or   *)
(* withheld.                                                               *)
THEOREM ReceiveImplementsReassembly == Spec => Reassembles
<1>1. Init => Reassembly!Init
  <2> SUFFICES ASSUME Init PROVE Reassembly!Init
    OBVIOUS
  <2>1. next_offset = 0 /\ pending = {} /\ delivered = [o \in {} |-> 0]
    BY DEF Init
  <2>2. {o \in 0..MaxOffset : o < next_offset \/ \E s \in pending : Holds(s, o)} = {}
    BY <2>1, ReceiveConstants
  <2>3. received = [o \in {} |-> 0]
    BY <2>2, Zenon DEF received
  <2> QED  BY <2>1, <2>3 DEF Reassembly!Init
<1>2. ReceiveInvariant /\ [Next]_vars => [Reassembly!Next]_<<received, delivered>>
  <2> SUFFICES ASSUME ReceiveInvariant, [Next]_vars
               PROVE  [Reassembly!Next]_<<received, delivered>>
    OBVIOUS
  <2>1. CASE \E f : IsFrame(f) /\ receive_accepted(f)
    <3>1. PICK f : IsFrame(f) /\ receive_accepted(f)
      BY <2>1
    <3>2. Reassembly!Accept(f.offset, End(f)) /\ End(f) \in 0..MaxOffset /\ f.offset \in 0..MaxOffset
      BY <3>1, AcceptedRefines DEF IsFrame
    <3> QED  BY <3>2 DEF Reassembly!Next, Reassembly!Offsets
  <2>2. CASE UNCHANGED <<next_offset, delivered, pending>>
    BY <2>2 DEF received, ByteIn
  <2> QED  BY <2>1, <2>2, StepCases, OthersPreserve
<1> QED  BY <1>1, <1>2, ReceiveInvariantHolds, PTL DEF Spec, Reassembles, Reassembly!Spec

(* The final size never changes, and a closed stream stays closed and      *)
(* delivers nothing more.                                                  *)
THEOREM ClosedStaysClosed == Spec => ClosedForGood
<1> DEFINE Kept == /\ final_size # NoFinalSize => final_size' = final_size
                   /\ closed => closed' /\ next_offset' = next_offset
<1>1. ReceiveInvariant /\ [Next]_vars => [Kept]_vars
  <2> SUFFICES ASSUME ReceiveInvariant, [Next]_vars PROVE Kept \/ UNCHANGED vars
    OBVIOUS
  <2>1. CASE \E f : IsFrame(f) /\ receive_accepted(f)
    <3>1. PICK f : IsFrame(f) /\ receive_accepted(f)
      BY <2>1
    <3>2. /\ ~reset_received /\ reset_received' = reset_received /\ final_size_agrees(f)
          /\ final_size' = IF f.fin THEN End(f) ELSE final_size
          /\ drain_contiguous(buffer_new_suffix(f)) /\ End(f) <= max_data
      BY <3>1 DEF receive_accepted, accepted
    <3>3. final_size # NoFinalSize => final_size' = final_size /\ End(f) <= final_size
      BY <3>2, <3>1, ReceiveConstants DEF final_size_agrees, IsFrame, End
    <3>4. ASSUME final_size # NoFinalSize, next_offset = final_size PROVE next_offset' = next_offset
      <4>1. ~has_new(f)
        BY <3>1, <3>3, <3>4, ReceiveConstants
           DEF has_new, new_start, Larger, ReceiveInvariant, TypeOK, IsFrame, End
      <4>2. buffer_new_suffix(f) = pending /\ Apart(pending)
        <5>1. buffer_new_suffix(f) = pending
          BY <4>1 DEF buffer_new_suffix
        <5> QED  BY <5>1, <3>1, <3>2, BufferedApart
      <4>3. \A s \in pending : s.start # next_offset
        BY DEF ReceiveInvariant, Separated, TypeOK
      <4>4. next_offset \in Nat
        BY DEF ReceiveInvariant, TypeOK
      <4>5. drained_to(pending) = next_offset
        BY <4>2, <4>3, <4>4, Drained
      <4> QED  BY <4>2, <4>5, <3>2 DEF drain_contiguous
    <3> QED  BY <3>2, <3>3, <3>4 DEF closed
  <2>2. CASE \E f : receive_rejected(f)
    BY <2>2 DEF receive_rejected, closed
  <2>3. CASE \E size \in 0..MaxOffset : reset(size)
    BY <2>3 DEF reset, closed
  <2>4. CASE \E v \in 0..MaxOffset : update_max_data(v)
    BY <2>4 DEF update_max_data, closed
  <2> QED  BY <2>1, <2>2, <2>3, <2>4, StepCases
<1> QED  BY <1>1, ReceiveInvariantHolds, PTL DEF Spec, ClosedForGood
=============================================================================
