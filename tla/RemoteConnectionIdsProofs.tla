---------------------- MODULE RemoteConnectionIdsProofs ---------------------
(***************************************************************************)
(* Proofs about RemoteConnectionIds for any number of IDs and any limit.   *)
(***************************************************************************)
EXTENDS RemoteConnectionIds, FiniteSetTheorems, WellFoundedInduction, TLAPS

(* Before the first NEW_CONNECTION_ID the table is empty. *)
EmptyBefore == ~initialized => table = Empty /\ in_use = 0

IdInvariant == TypeOK /\ EmptyBefore /\ InUseIsUsable /\ GivenBackUnused

(* A set of sequence numbers that is not empty has a least element.        *)
LEMMA LeastExists ==
  ASSUME NEW S \in SUBSET Sequences, S # {}
  PROVE  Least(S) \in S /\ \A r \in S : Least(S) <= r
<1> DEFINE R == OpToRel(<, Nat)
<1>1. S \subseteq Nat
  BY IdConstants DEF Sequences
<1>2. PICK m \in S : \A r \in S : <<r, m>> \notin R
  <2>1. IsWellFoundedOn(R, Nat)
    BY NatLessThanWellFounded, Zenon
  <2> HIDE DEF R
  <2> QED
    BY <2>1, <1>1, WFMin, Zenon
<1>3. R = {p \in Nat \X Nat : p[1] < p[2]}
  BY Zenon DEF OpToRel
<1> HIDE DEF R
<1>4. ASSUME NEW r \in S PROVE m <= r
  <2>1. r < m => <<r, m>> \in R
    BY <1>1, <1>3
  <2> QED
    BY <2>1, <1>1, <1>2
<1> QED
  BY <1>1, <1>4, Zenon DEF Least

-----------------------------------------------------------------------------
(* What a NEW_CONNECTION_ID frame does when the connection stays active:   *)
(* IDs below some bound are retired, at most one is new, and the one in    *)
(* use is the old one or the least that is left.                           *)
Applied(t, s, before) ==
  /\ s \in Sequences /\ before \in Sequences
  /\ t = entered(ensured_table, s)
  /\ table' = retired_before(t, before)
  /\ initialized' = TRUE
  /\ queue' = queue \union (usable(ensured_table) \ usable(table'))
  /\ \/ /\ ~(t[ensured_in_use] = "usable" /\ ensured_in_use < before)
        /\ in_use' = ensured_in_use /\ destination' = destination
     \/ /\ ensured_in_use < before /\ usable(table') # {}
        /\ in_use' = lowest_active(table') /\ destination' = in_use'

(* The first ID stands in for the table until there is one.                *)
LEMMA EnsuredFacts ==
  ASSUME IdInvariant, active
  PROVE  /\ ensured_table \in [Sequences -> {"absent", "usable", "retired"}]
         /\ ensured_in_use \in Sequences /\ ensured_table[ensured_in_use] = "usable"
         /\ ensured_table[0] # "absent" /\ destination = ensured_in_use
         /\ \A s \in Sequences : table[s] = "retired" => ensured_table[s] = "retired"
         /\ initialized => ensured_table = table /\ ensured_in_use = in_use
<1>1. 0 \in Sequences
  BY IdConstants DEF Sequences
<1>2. destination = ensured_in_use /\ ensured_table[ensured_in_use] = "usable"
  BY DEF IdInvariant, InUseIsUsable
<1>3. CASE initialized
  BY <1>2, <1>3 DEF IdInvariant, TypeOK, ensured_table, ensured_in_use
<1>4. CASE ~initialized
  BY <1>1, <1>2, <1>4 DEF IdInvariant, TypeOK, EmptyBefore, Empty, ensured_table, ensured_in_use
<1> QED
  BY <1>3, <1>4

(* A frame that does not close the connection is Applied.                  *)
LEMMA FrameApplied ==
  ASSUME IdInvariant, NEW s \in Sequences, NEW before \in Sequences, NEW same \in BOOLEAN,
         apply_new_connection_id_frame(s, before, same), active'
  PROVE  \E t : Applied(t, s, before)
<1> DEFINE t == entered(ensured_table, s)
           is_new == ensured_table[s] = "absent"
<1>1. active /\ retire_remote_connection_ids_before(t, before, is_new)
  BY DEF apply_new_connection_id_frame, settle, active
<1>2. destination = ensured_in_use
  BY <1>1, EnsuredFacts
<1> HIDE DEF t, is_new
<1>3. Applied(t, s, before)
  <2>1. PICK used, ok : /\ settle(retired_before(t, before), used, ok)
                        /\ \/ /\ ~(t[ensured_in_use] = "usable" /\ ensured_in_use < before)
                              /\ used = ensured_in_use
                           \/ /\ ensured_in_use < before /\ ok = FALSE
                           \/ /\ ensured_in_use < before
                              /\ usable(retired_before(t, before)) # {}
                              /\ used = lowest_active(retired_before(t, before))
    BY <1>1, Zenon DEF retire_remote_connection_ids_before
  <2>2. ok
    BY <2>1 DEF settle, active
  <2>3. destination' = used
    BY <2>1, <1>2 DEF settle
  <2> QED
    BY <2>1, <2>2, <2>3, <1>2 DEF Applied, settle, t
<1> QED
  BY <1>3

(* Such a frame keeps the invariant, retires for good and moves forward.   *)
LEMMA AppliedFacts ==
  ASSUME IdInvariant, active, NEW t, NEW s \in Sequences, NEW before \in Sequences,
         Applied(t, s, before)
  PROVE  /\ table' \in [Sequences -> {"absent", "usable", "retired"}]
         /\ table'[0] # "absent"
         /\ in_use' \in Sequences /\ destination' = in_use' /\ table'[in_use'] = "usable"
         /\ in_use' >= ensured_in_use
         /\ queue' \subseteq Sequences
         /\ \A r \in Sequences : ensured_table[r] = "retired" => table'[r] = "retired"
         /\ \A r \in queue' \ queue : table'[r] = "retired"
<1>1. /\ ensured_table \in [Sequences -> {"absent", "usable", "retired"}]
      /\ ensured_in_use \in Sequences /\ ensured_table[ensured_in_use] = "usable"
      /\ ensured_table[0] # "absent" /\ destination = ensured_in_use
  BY EnsuredFacts
<1>2. /\ t \in [Sequences -> {"absent", "usable", "retired"}]
      /\ \A r \in Sequences : ensured_table[r] # "absent" => t[r] = ensured_table[r]
  BY <1>1 DEF Applied, entered
<1>3. /\ table' \in [Sequences -> {"absent", "usable", "retired"}]
      /\ \A r \in Sequences : table'[r] = IF t[r] = "usable" /\ r < before THEN "retired" ELSE t[r]
  BY <1>2 DEF Applied, retired_before
<1>4. 0 \in Sequences /\ Sequences \subseteq Int
  BY IdConstants DEF Sequences
<1>5. /\ in_use' \in Sequences /\ destination' = in_use' /\ table'[in_use'] = "usable"
      /\ in_use' >= ensured_in_use
  <2>1. CASE /\ ~(t[ensured_in_use] = "usable" /\ ensured_in_use < before)
             /\ in_use' = ensured_in_use /\ destination' = destination
    BY <2>1, <1>1, <1>2, <1>3, <1>4
  <2>2. CASE /\ ensured_in_use < before /\ usable(table') # {}
             /\ in_use' = lowest_active(table') /\ destination' = in_use'
    <3>1. usable(table') \in SUBSET Sequences
      BY DEF usable
    <3>2. in_use' \in usable(table')
      BY <2>2, <3>1, LeastExists DEF lowest_active
    <3>3. in_use' \in Sequences /\ table'[in_use'] = "usable" /\ in_use' >= before
      BY <3>2, <1>3, <1>4 DEF usable
    <3> QED
      BY <3>3, <2>2, <1>1, <1>4
  <2> QED
    BY <2>1, <2>2 DEF Applied
<1>6. queue' = queue \union (usable(ensured_table) \ usable(table')) /\ queue \subseteq Sequences
  BY DEF Applied, IdInvariant, TypeOK
<1>7. \A r \in usable(ensured_table) \ usable(table') : r \in Sequences /\ table'[r] = "retired"
  BY <1>1, <1>2, <1>3 DEF usable
<1>8. table'[0] # "absent"
  BY <1>1, <1>2, <1>3, <1>4
<1>9. \A r \in Sequences : ensured_table[r] = "retired" => table'[r] = "retired"
  BY <1>1, <1>2, <1>3
<1> QED
  BY <1>3, <1>5, <1>6, <1>7, <1>8, <1>9

-----------------------------------------------------------------------------
(* The invariant holds at the start.                                       *)
LEMMA InitIds == Init => IdInvariant
<1> SUFFICES ASSUME Init PROVE IdInvariant
  OBVIOUS
<1>1. 0 \in Sequences /\ 0 \in 0..MaxHeaders
  BY IdConstants DEF Sequences
<1>2. TypeOK
  BY <1>1, Zenon DEF Init, TypeOK, Empty
<1>3. InUseIsUsable
  BY <1>1 DEF Init, InUseIsUsable, ensured_table, ensured_in_use, Empty
<1>4. EmptyBefore /\ GivenBackUnused
  BY DEF Init, EmptyBefore, GivenBackUnused
<1> QED
  BY <1>2, <1>3, <1>4 DEF IdInvariant

(* A frame that closes the connection leaves only the types to show.       *)
LEMMA ClosingFrame ==
  ASSUME IdInvariant, NEW s \in Sequences, NEW before \in Sequences, NEW same \in BOOLEAN,
         apply_new_connection_id_frame(s, before, same), ~active'
  PROVE  IdInvariant'
<1>1. active
  BY DEF apply_new_connection_id_frame
<1>2. /\ ensured_table \in [Sequences -> {"absent", "usable", "retired"}]
      /\ ensured_in_use \in Sequences /\ ensured_table[0] # "absent"
  BY <1>1, EnsuredFacts
<1>3. ASSUME NEW t \in [Sequences -> {"absent", "usable", "retired"}], t[0] # "absent",
             NEW used \in Sequences, NEW ok, settle(t, used, ok),
             prior' \in Sequences, headers' = headers
      PROVE  IdInvariant'
  <2>1. ~ok /\ state' = "closing" /\ queue' = {} /\ initialized' = TRUE
    BY <1>1, <1>3 DEF settle, active
  <2> QED
    BY <1>3, <2>1 DEF settle, IdInvariant, TypeOK, EmptyBefore, InUseIsUsable,
                      GivenBackUnused, active
<1>4. prior' \in Sequences /\ headers' = headers
  BY Zenon DEF apply_new_connection_id_frame, IdInvariant, TypeOK
<1>5. CASE settle(ensured_table, ensured_in_use, FALSE)
  BY <1>2, <1>3, <1>4, <1>5, Zenon
<1>6. CASE retire_remote_connection_ids_before(
             entered(ensured_table, s), before, ensured_table[s] = "absent")
  <2> DEFINE t == entered(ensured_table, s)
             left == retired_before(t, before)
  <2>1. left \in [Sequences -> {"absent", "usable", "retired"}] /\ left[0] # "absent"
    <3>1. t \in [Sequences -> {"absent", "usable", "retired"}] /\ t[0] # "absent"
      BY <1>2 DEF entered
    <3>2. 0 \in Sequences
      BY IdConstants DEF Sequences
    <3> QED
      BY <3>1, <3>2 DEF retired_before
  <2>2. usable(left) # {} => lowest_active(left) \in Sequences
    BY LeastExists, usable(left) \in SUBSET Sequences DEF lowest_active, usable
  <2>3. PICK used \in Sequences, ok \in BOOLEAN : settle(left, used, ok)
    BY <1>2, <1>6, <2>2, Zenon DEF retire_remote_connection_ids_before
  <2> HIDE DEF left
  <2> QED
    BY <2>1, <2>3, <1>3, <1>4
<1> QED
  BY <1>5, <1>6, Zenon DEF apply_new_connection_id_frame

(* Every step keeps the invariant.                                         *)
LEMMA NextIds == IdInvariant /\ [Next]_vars => IdInvariant'
<1> SUFFICES ASSUME IdInvariant, [Next]_vars PROVE IdInvariant'
  OBVIOUS
<1>1. ASSUME NEW s \in Sequences, NEW before \in Sequences, NEW same \in BOOLEAN,
             apply_new_connection_id_frame(s, before, same), active'
      PROVE  IdInvariant'
  <2>1. PICK t : Applied(t, s, before)
    BY <1>1, FrameApplied
  <2>2. /\ active /\ initialized' = TRUE
        /\ prior' \in Sequences /\ headers' = headers /\ announced' = announced
        /\ state' = "active"
    BY <1>1, <2>1 DEF apply_new_connection_id_frame, retire_remote_connection_ids_before,
                      settle, Applied, IdInvariant, TypeOK, active
  <2>3. /\ table' \in [Sequences -> {"absent", "usable", "retired"}]
        /\ table'[0] # "absent"
        /\ in_use' \in Sequences /\ destination' = in_use' /\ table'[in_use'] = "usable"
        /\ queue' \subseteq Sequences
        /\ \A r \in Sequences : ensured_table[r] = "retired" => table'[r] = "retired"
        /\ \A r \in queue' \ queue : table'[r] = "retired"
    BY <2>1, <2>2, AppliedFacts
  <2>4. \A r \in Sequences : table[r] = "retired" => table'[r] = "retired"
    BY <2>2, <2>3, EnsuredFacts
  <2>5. GivenBackUnused'
    BY <2>2, <2>3, <2>4 DEF GivenBackUnused, IdInvariant, TypeOK, active
  <2>6. InUseIsUsable'
    <3>1. headers' = 0 => destination' \notin queue' \union announced'
      BY <2>2, <2>3, <2>5 DEF GivenBackUnused, active
    <3> QED
      BY <2>2, <2>3, <3>1 DEF InUseIsUsable, ensured_table, ensured_in_use
  <2> QED
    BY <2>2, <2>3, <2>5, <2>6 DEF IdInvariant, TypeOK, EmptyBefore
<1>2. ASSUME NEW s \in Sequences, NEW before \in Sequences, NEW same \in BOOLEAN,
             apply_new_connection_id_frame(s, before, same)
      PROVE  IdInvariant'
  BY <1>1, <1>2, ClosingFrame
<1>3. CASE update_remote_connection_id_from_header
  <2>1. /\ headers' = headers + 1 /\ destination' = 0 /\ table' = Empty /\ initialized' = FALSE
        /\ in_use' = 0 /\ UNCHANGED <<state, queue, announced, prior>>
        /\ headers < MaxHeaders
    BY <1>3 DEF update_remote_connection_id_from_header
  <2>2. 0 \in Sequences /\ Empty \in [Sequences -> {"absent", "usable", "retired"}]
    BY IdConstants DEF Empty, Sequences
  <2>3. headers \in 0..MaxHeaders /\ headers' \in 0..MaxHeaders /\ headers' # 0
    BY <2>1, IdConstants DEF IdInvariant, TypeOK
  <2>4. TypeOK'
    BY <2>1, <2>2, <2>3, Zenon DEF IdInvariant, TypeOK
  <2>5. InUseIsUsable'
    BY <2>1, <2>2, <2>3 DEF InUseIsUsable, ensured_table, ensured_in_use, Empty
  <2> QED
    BY <2>1, <2>3, <2>4, <2>5 DEF IdInvariant, EmptyBefore, GivenBackUnused
<1>4. ASSUME NEW s \in Sequences, handle_short_packet_parse_error(s) PROVE IdInvariant'
  BY <1>4 DEF handle_short_packet_parse_error, IdInvariant, TypeOK, EmptyBefore,
              InUseIsUsable, GivenBackUnused, active
<1>5. ASSUME NEW sent \in SUBSET queue, flush(sent) PROVE IdInvariant'
  <2>1. InUseIsUsable'
    BY <1>5 DEF flush, IdInvariant, InUseIsUsable, ensured_table, ensured_in_use, active
  <2> QED
    BY <1>5, <2>1 DEF flush, IdInvariant, TypeOK, EmptyBefore, GivenBackUnused, active
<1>6. CASE queue_application
  <2>1. InUseIsUsable'
    BY <1>6 DEF queue_application, IdInvariant, InUseIsUsable, ensured_table,
                ensured_in_use, active
  <2> QED
    BY <1>6, <2>1 DEF queue_application, IdInvariant, TypeOK, EmptyBefore, GivenBackUnused, active
<1>7. CASE UNCHANGED vars
  <2>1. InUseIsUsable'
    BY <1>7 DEF vars, IdInvariant, InUseIsUsable, ensured_table, ensured_in_use, active
  <2> QED
    BY <1>7, <2>1 DEF vars, IdInvariant, TypeOK, EmptyBefore, GivenBackUnused, active
<1>8. ASSUME Next PROVE IdInvariant'
  <2>1. CASE \E s, before \in Sequences, same \in BOOLEAN :
               apply_new_connection_id_frame(s, before, same)
    BY <1>2, <2>1
  <2>2. CASE \E s \in Sequences : handle_short_packet_parse_error(s)
    BY <1>4, <2>2
  <2>3. CASE \E sent \in SUBSET queue : flush(sent)
    BY <1>5, <2>3
  <2> QED
    BY <1>3, <1>6, <1>8, <2>1, <2>2, <2>3 DEF Next
<1> QED
  BY <1>7, <1>8

-----------------------------------------------------------------------------
(* Packets never go to an ID that the connection has retired since the     *)
(* last long header, and before the first one to none that it has given    *)
(* back or is about to, for any number of IDs, any limit and any order of  *)
(* frames.                                                                 *)
THEOREM UsesNoRetiredId == Spec => [](TypeOK /\ InUseIsUsable /\ GivenBackUnused)
<1>1. IdInvariant => TypeOK /\ InUseIsUsable /\ GivenBackUnused
  BY DEF IdInvariant
<1> QED
  BY InitIds, NextIds, <1>1, PTL DEF Spec

(* Between two long headers the ID in use only moves forward, and what is  *)
(* retired stays retired.                                                  *)
THEOREM IdsNeverReturn == Spec => NeverReturns
<1> DEFINE Forward == initialized /\ initialized' /\ state' = "active" =>
             /\ in_use' >= in_use
             /\ \A s \in Sequences : table[s] = "retired" => table'[s] = "retired"
<1>1. IdInvariant /\ [Next]_vars => [Forward]_vars
  <2> SUFFICES ASSUME IdInvariant, Next, initialized, initialized', state' = "active"
               PROVE  /\ in_use' >= in_use
                      /\ \A s \in Sequences : table[s] = "retired" => table'[s] = "retired"
    BY DEF vars
  <2>1. in_use \in Int
    BY IdConstants DEF IdInvariant, TypeOK, Sequences
  <2>2. CASE \E s, before \in Sequences, same \in BOOLEAN :
               apply_new_connection_id_frame(s, before, same)
    <3>1. PICK s \in Sequences, before \in Sequences, same \in BOOLEAN :
            apply_new_connection_id_frame(s, before, same)
      BY <2>2
    <3>2. active /\ active'
      BY <3>1 DEF apply_new_connection_id_frame, active
    <3>3. PICK t : Applied(t, s, before)
      BY <3>1, <3>2, FrameApplied
    <3>4. ensured_table = table /\ ensured_in_use = in_use
      BY <3>2, EnsuredFacts
    <3> QED
      BY <3>2, <3>3, <3>4, AppliedFacts
  <2>3. CASE ~\E s, before \in Sequences, same \in BOOLEAN :
               apply_new_connection_id_frame(s, before, same)
    <3>1. table' = table /\ in_use' = in_use
      BY <2>3 DEF Next, update_remote_connection_id_from_header,
                  handle_short_packet_parse_error, flush, queue_application
    <3> QED
      BY <2>1, <3>1
  <2> QED
    BY <2>2, <2>3
<1> QED
  BY InitIds, NextIds, <1>1, PTL DEF Spec, NeverReturns

-----------------------------------------------------------------------------
(* A smaller set of IDs is within the limit when a larger one is.          *)
LEMMA FewerIds ==
  ASSUME NEW t, NEW u, usable(t) \subseteq usable(u), within_limit(u)
  PROVE  within_limit(t)
<1>1. IsFiniteSet(Sequences)
  BY IdConstants, FS_Interval DEF Sequences
<1>2. IsFiniteSet(usable(u))
  BY <1>1, FS_Subset DEF usable
<1>3. /\ Cardinality(usable(t)) \in Nat /\ Cardinality(usable(u)) \in Nat
      /\ Cardinality(usable(t)) <= Cardinality(usable(u))
  BY <1>2, FS_Subset, FS_CardinalityType
<1> QED
  BY <1>3, IdConstants DEF within_limit

(* The table that the first frame finds is within the limit.               *)
LEMMA EnsuredWithinLimit ==
  ASSUME IdInvariant, active, LimitKept
  PROVE  within_limit(ensured_table)
<1>1. CASE initialized
  BY <1>1 DEF LimitKept, within_limit, ensured_table
<1>2. CASE ~initialized
  <2>1. 0 \in Sequences
    BY IdConstants DEF Sequences
  <2>2. usable(ensured_table) = {0}
    BY <1>2, <2>1 DEF ensured_table, usable, Empty
  <2>3. Cardinality({0}) = 1
    BY FS_Singleton
  <2> QED
    BY <2>2, <2>3, IdConstants DEF within_limit
<1> QED
  BY <1>1, <1>2

(* The connection never holds more usable IDs than it allows, although     *)
(* only a frame with an ID not seen before has to pass the check.          *)
THEOREM LimitIsKept == Spec => []LimitKept
<1>1. Init => LimitKept
  <2> SUFFICES ASSUME Init PROVE LimitKept
    OBVIOUS
  <2>1. usable(table) = {}
    BY DEF Init, Empty, usable
  <2> QED
    BY <2>1, FS_EmptySet, IdConstants DEF LimitKept
<1>2. IdInvariant /\ LimitKept /\ [Next]_vars => LimitKept'
  <2> SUFFICES ASSUME IdInvariant, LimitKept, [Next]_vars, active' PROVE within_limit(table')
    BY DEF LimitKept, within_limit, usable
  <2>1. ASSUME NEW s \in Sequences, NEW before \in Sequences, NEW same \in BOOLEAN,
               apply_new_connection_id_frame(s, before, same)
        PROVE  within_limit(table')
    <3> DEFINE t == entered(ensured_table, s)
               left == retired_before(t, before)
               is_new == ensured_table[s] = "absent"
    <3>1. active /\ retire_remote_connection_ids_before(t, before, is_new)
      BY <2>1 DEF apply_new_connection_id_frame, settle, active
    <3>2. table' = left /\ (is_new => within_limit(left))
      BY <3>1 DEF retire_remote_connection_ids_before, settle, active
    <3>3. CASE is_new
      BY <3>2, <3>3
    <3>4. CASE ~is_new
      <4>1. ensured_table \in [Sequences -> {"absent", "usable", "retired"}]
        BY <3>1, EnsuredFacts
      <4>2. t = ensured_table
        BY <3>4, <4>1 DEF entered
      <4> HIDE DEF t
      <4>3. usable(left) \subseteq usable(ensured_table)
        BY <4>2 DEF usable, retired_before
      <4>4. within_limit(left)
        BY <3>1, <4>3, EnsuredWithinLimit, FewerIds
      <4> QED
        BY <3>2, <4>4
    <3> QED
      BY <3>3, <3>4
  <2>2. CASE update_remote_connection_id_from_header
    <3>1. usable(table') = {}
      BY <2>2 DEF update_remote_connection_id_from_header, Empty, usable
    <3> QED
      BY <3>1, FS_EmptySet, IdConstants DEF within_limit
  <2>3. CASE /\ table' = table
             /\ active
    BY <2>3 DEF LimitKept, within_limit
  <2>4. CASE UNCHANGED vars
    BY <2>3, <2>4 DEF vars, active
  <2> QED
    BY <2>1, <2>2, <2>3, <2>4 DEF Next, handle_short_packet_parse_error, flush, queue_application
<1> QED
  BY <1>1, <1>2, InitIds, NextIds, PTL DEF Spec
=============================================================================
