-------------------------- MODULE CongestionProofs --------------------------
(***************************************************************************)
(* Proofs about loss recovery and about the congestion controller it       *)
(* drives, for any packet number spaces, number of packets, sizes and      *)
(* windows.  The inductive invariant of Recovery adds to its properties    *)
(* that nothing is recorded of a packet number not used yet.  The steps of *)
(* the two together are steps of Recovery, so what is proved of Recovery   *)
(* holds of them; the properties of the controller are those of NewReno,   *)
(* the controller that guards its counter.                                 *)
(***************************************************************************)
EXTENDS Congestion, FiniteSetTheorems, TLAPS

(* Loss recovery *)

(* A packet number not used yet has no record and no ranges, and no stream *)
(* was told anything about it.                                             *)
Unsent ==
  \A s \in Spaces, p \in Packets :
    p >= next_pn[s] => /\ recovery[s][p] = "absent" /\ ~carries[s][p]
                       /\ acked_calls[s][p] = 0 /\ lost_calls[s][p] = 0

RecoveryInvariant == TypeOK /\ Unsent /\ RecordsAgree /\ OneOutcome /\ AckOnlyNeverLost

-----------------------------------------------------------------------------
(* The initial state has no records.                                       *)
LEMMA InitInvariant == Init => RecoveryInvariant
  <1> SUFFICES ASSUME Init PROVE RecoveryInvariant
    OBVIOUS
  <1>1. TypeOK
    <2>1. /\ next_pn \in [Spaces -> 0..MaxPackets]
          /\ age \in [Spaces -> [Packets -> 0..MaxAge]]
          /\ acked_calls \in [Spaces -> [Packets -> Nat]]
          /\ lost_calls \in [Spaces -> [Packets -> Nat]]
      BY RecoveryConstants DEF Init
    <2>2. /\ tracker \in [Spaces -> [Packets -> Fate]]
          /\ recovery \in [Spaces -> [Packets -> Fate]]
          /\ eliciting \in [Spaces -> [Packets -> BOOLEAN]]
          /\ carries \in [Spaces -> [Packets -> BOOLEAN]]
      BY DEF Init, Fate
    <2>3. /\ largest \in [Spaces -> Packets \union {None}]
          /\ loss_delay \in LossDelays \union {None} /\ pto \in [Spaces -> PtoDelays]
          /\ confirmed \in BOOLEAN /\ discarded \in SUBSET Spaces
      BY Zenon DEF Init
    <2> QED BY <2>1, <2>2, <2>3 DEF TypeOK
  <1>2. Unsent /\ RecordsAgree /\ OneOutcome /\ AckOnlyNeverLost
    BY DEF Init, Unsent, RecordsAgree, OneOutcome, AckOnlyNeverLost
  <1> QED BY <1>1, <1>2 DEF RecoveryInvariant

(* Recording a packet sent touches only the next packet number.            *)
LEMMA SentInvariant ==
  ASSUME RecoveryInvariant, NEW s \in Spaces, NEW e \in BOOLEAN, NEW r \in BOOLEAN,
         record_sent(s, e, r),
         UNCHANGED <<largest, loss_delay, pto, confirmed, discarded, acked_calls, lost_calls>>
  PROVE  RecoveryInvariant'
  <1> DEFINE n == next_pn[s]
  <1>1. n \in Packets /\ n \in Nat
    BY RecoveryConstants DEF record_sent, RecoveryInvariant, TypeOK, Packets
  <1>2. TypeOK'
    <2>1. next_pn' \in [Spaces -> 0..MaxPackets]
      <3>1. n + 1 \in 0..MaxPackets
        BY <1>1, RecoveryConstants DEF Packets
      <3> QED BY <3>1 DEF record_sent, RecoveryInvariant, TypeOK
    <2>4. age' \in [Spaces -> [Packets -> 0..MaxAge]]
      <3>1. 0 \in 0..MaxAge
        BY RecoveryConstants
      <3> QED BY <3>1, <1>1 DEF record_sent, RecoveryInvariant, TypeOK
    <2>2. /\ tracker' \in [Spaces -> [Packets -> Fate]]
          /\ recovery' \in [Spaces -> [Packets -> Fate]]
      BY <1>1 DEF record_sent, RecoveryInvariant, TypeOK, Fate
    <2>3. /\ eliciting' \in [Spaces -> [Packets -> BOOLEAN]]
          /\ carries' \in [Spaces -> [Packets -> BOOLEAN]]
      BY <1>1 DEF record_sent, RecoveryInvariant, TypeOK
    <2> QED BY <2>1, <2>2, <2>3, <2>4 DEF RecoveryInvariant, TypeOK
  <1> SUFFICES ASSUME NEW t \in Spaces, NEW p \in Packets
               PROVE  /\ p >= next_pn'[t] => /\ recovery'[t][p] = "absent" /\ ~carries'[t][p]
                                             /\ acked_calls'[t][p] = 0 /\ lost_calls'[t][p] = 0
                      /\ tracker'[t][p] = recovery'[t][p]
                      /\ acked_calls'[t][p] + lost_calls'[t][p] <= 1
                      /\ carries'[t][p] =>
                           /\ acked_calls'[t][p] = (IF recovery'[t][p] = "acknowledged" THEN 1 ELSE 0)
                           /\ lost_calls'[t][p] = (IF recovery'[t][p] = "lost" THEN 1 ELSE 0)
                      /\ recovery'[t][p] = "lost" => eliciting'[t][p]
    BY <1>2 DEF RecoveryInvariant, Unsent, RecordsAgree, OneOutcome, AckOnlyNeverLost
  <1>3. CASE t = s /\ p = n
    <2>1. /\ next_pn'[t] = n + 1 /\ tracker'[t][p] = "outstanding"
          /\ recovery'[t][p] = "outstanding"
          /\ acked_calls'[t][p] = 0 /\ lost_calls'[t][p] = 0
      BY <1>1, <1>3, SMTT(30) DEF record_sent, RecoveryInvariant, TypeOK, Unsent
    <2> QED BY <2>1, <1>1, <1>3
  <1>4. CASE ~(t = s /\ p = n)
    <2>1. /\ next_pn'[t] >= next_pn[t] /\ tracker'[t][p] = tracker[t][p]
          /\ recovery'[t][p] = recovery[t][p] /\ carries'[t][p] = carries[t][p]
          /\ eliciting'[t][p] = eliciting[t][p]
          /\ acked_calls'[t][p] = acked_calls[t][p] /\ lost_calls'[t][p] = lost_calls[t][p]
      BY <1>1, <1>4 DEF record_sent, RecoveryInvariant, TypeOK
    <2>2. next_pn[t] \in Nat /\ next_pn'[t] \in Nat /\ p \in Nat
      BY <1>2, SMTT(30) DEF RecoveryInvariant, TypeOK, Packets
    <2> QED BY <2>1, <2>2 DEF RecoveryInvariant, Unsent, RecordsAgree, OneOutcome, AckOnlyNeverLost
  <1> QED BY <1>3, <1>4

-----------------------------------------------------------------------------
(* What an ACK and a timer have in common: outstanding packets A become    *)
(* acknowledged, other outstanding ack-eliciting packets L become lost, in *)
(* both lists, and their streams are told.                                 *)
LEMMA ResolutionInvariant ==
  ASSUME RecoveryInvariant, NEW s \in Spaces, NEW A, NEW L,
         A \subseteq Packets, L \subseteq Packets, A \intersect L = {},
         \A p \in A \union L : recovery[s][p] = "outstanding",
         \A p \in L : eliciting[s][p],
         tracker' = [tracker EXCEPT ![s] = Mark(Mark(tracker[s], A, "acknowledged"), L, "lost")],
         recovery' = [recovery EXCEPT ![s] = Mark(Mark(recovery[s], A, "acknowledged"), L, "lost")],
         acked_calls' = Called(acked_calls, s, A),
         lost_calls' = Called(lost_calls, s, L),
         UNCHANGED <<next_pn, eliciting, carries>>
  PROVE  /\ TypeOK' <=> /\ largest' \in [Spaces -> Packets \union {None}]
                        /\ loss_delay' \in LossDelays \union {None}
                        /\ pto' \in [Spaces -> PtoDelays]
                        /\ confirmed' \in BOOLEAN
                        /\ discarded' \in SUBSET Spaces
                        /\ age' \in [Spaces -> [Packets -> 0..MaxAge]]
         /\ Unsent' /\ RecordsAgree' /\ OneOutcome' /\ AckOnlyNeverLost'
  <1>t. /\ tracker \in [Spaces -> [Packets -> Fate]] /\ recovery \in [Spaces -> [Packets -> Fate]]
        /\ acked_calls \in [Spaces -> [Packets -> Nat]] /\ lost_calls \in [Spaces -> [Packets -> Nat]]
        /\ next_pn \in [Spaces -> 0..MaxPackets] /\ eliciting \in [Spaces -> [Packets -> BOOLEAN]]
        /\ carries \in [Spaces -> [Packets -> BOOLEAN]]
    BY DEF RecoveryInvariant, TypeOK
  <1>1. /\ tracker' \in [Spaces -> [Packets -> Fate]]
        /\ recovery' \in [Spaces -> [Packets -> Fate]]
    BY <1>t DEF Mark, Fate
  <1>2. /\ acked_calls' \in [Spaces -> [Packets -> Nat]]
        /\ lost_calls' \in [Spaces -> [Packets -> Nat]]
    BY <1>t DEF Called
  <1>3. TypeOK' <=> /\ largest' \in [Spaces -> Packets \union {None}]
                    /\ loss_delay' \in LossDelays \union {None}
                    /\ pto' \in [Spaces -> PtoDelays]
                    /\ confirmed' \in BOOLEAN
                    /\ discarded' \in SUBSET Spaces
                    /\ age' \in [Spaces -> [Packets -> 0..MaxAge]]
    BY <1>t, <1>1, <1>2, SMTT(30) DEF TypeOK
  <1> SUFFICES ASSUME NEW t \in Spaces, NEW p \in Packets
               PROVE  /\ p >= next_pn'[t] => /\ recovery'[t][p] = "absent" /\ ~carries'[t][p]
                                             /\ acked_calls'[t][p] = 0 /\ lost_calls'[t][p] = 0
                      /\ tracker'[t][p] = recovery'[t][p]
                      /\ acked_calls'[t][p] + lost_calls'[t][p] <= 1
                      /\ carries'[t][p] =>
                           /\ acked_calls'[t][p] = (IF recovery'[t][p] = "acknowledged" THEN 1 ELSE 0)
                           /\ lost_calls'[t][p] = (IF recovery'[t][p] = "lost" THEN 1 ELSE 0)
                      /\ recovery'[t][p] = "lost" => eliciting'[t][p]
    BY <1>3 DEF Unsent, RecordsAgree, OneOutcome, AckOnlyNeverLost
  <1>4. /\ p >= next_pn[t] => /\ recovery[t][p] = "absent" /\ ~carries[t][p]
                              /\ acked_calls[t][p] = 0 /\ lost_calls[t][p] = 0
        /\ tracker[t][p] = recovery[t][p]
        /\ acked_calls[t][p] + lost_calls[t][p] <= 1
        /\ carries[t][p] =>
             /\ acked_calls[t][p] = (IF recovery[t][p] = "acknowledged" THEN 1 ELSE 0)
             /\ lost_calls[t][p] = (IF recovery[t][p] = "lost" THEN 1 ELSE 0)
        /\ recovery[t][p] = "lost" => eliciting[t][p]
        /\ acked_calls[t][p] \in Nat /\ lost_calls[t][p] \in Nat
    BY <1>t DEF RecoveryInvariant, Unsent, RecordsAgree, OneOutcome, AckOnlyNeverLost
  <1>5. /\ next_pn'[t] = next_pn[t] /\ carries'[t][p] = carries[t][p]
        /\ eliciting'[t][p] = eliciting[t][p]
    BY SMTT(30)
  <1>6. CASE t = s /\ p \in A
    <2>1. /\ p \notin L /\ recovery[t][p] = "outstanding"
          /\ tracker'[t][p] = "acknowledged" /\ recovery'[t][p] = "acknowledged"
          /\ acked_calls'[t][p] = IF carries[t][p] THEN acked_calls[t][p] + 1 ELSE acked_calls[t][p]
          /\ lost_calls'[t][p] = lost_calls[t][p]
      BY <1>t, <1>6, SMTT(30) DEF Mark, Called
    <2> QED BY <2>1, <1>4, <1>5
  <1>7. CASE t = s /\ p \in L
    <2>1. /\ p \notin A /\ recovery[t][p] = "outstanding" /\ eliciting[t][p]
          /\ tracker'[t][p] = "lost" /\ recovery'[t][p] = "lost"
          /\ lost_calls'[t][p] = IF carries[t][p] THEN lost_calls[t][p] + 1 ELSE lost_calls[t][p]
          /\ acked_calls'[t][p] = acked_calls[t][p]
      BY <1>t, <1>7, SMTT(30) DEF Mark, Called
    <2> QED BY <2>1, <1>4, <1>5
  <1>8. CASE t # s \/ (p \notin A /\ p \notin L)
    <2>1. /\ tracker'[t][p] = tracker[t][p] /\ recovery'[t][p] = recovery[t][p]
          /\ acked_calls'[t][p] = acked_calls[t][p] /\ lost_calls'[t][p] = lost_calls[t][p]
      BY <1>t, <1>8 DEF Mark, Called
    <2> QED BY <2>1, <1>4, <1>5
  <1> QED BY <1>6, <1>7, <1>8

(* An ACK frame preserves the invariant.                                   *)
LEMMA AckInvariant ==
  ASSUME RecoveryInvariant, NEW s \in Spaces, NEW top \in Packets, NEW acked \in SUBSET Packets,
         apply_ack_frames(s, acked, top)
  PROVE  RecoveryInvariant'
  <1> DEFINE A == newly_acknowledged(s, acked)
             L == newly_lost(s, acked, top)
  <1>1. /\ A \subseteq Packets /\ L \subseteq Packets /\ A \intersect L = {}
        /\ \A p \in A \union L : recovery[s][p] = "outstanding"
        /\ \A p \in L : eliciting[s][p]
    BY DEF newly_acknowledged, newly_lost, RecoveryInvariant, RecordsAgree
  <1>2. /\ tracker' = [tracker EXCEPT ![s] = Mark(Mark(tracker[s], A, "acknowledged"), L, "lost")]
        /\ recovery' = [recovery EXCEPT ![s] = Mark(Mark(recovery[s], A, "acknowledged"), L, "lost")]
        /\ acked_calls' = Called(acked_calls, s, A)
        /\ lost_calls' = Called(lost_calls, s, L)
        /\ UNCHANGED <<next_pn, eliciting, carries>>
    BY SMTT(30) DEF apply_ack_frames, mark_recovery_packets
  <1>3. /\ largest' \in [Spaces -> Packets \union {None}]
        /\ loss_delay' \in LossDelays \union {None}
        /\ pto' \in [Spaces -> PtoDelays]
        /\ confirmed' \in BOOLEAN /\ discarded' \in SUBSET Spaces
        /\ age' \in [Spaces -> [Packets -> 0..MaxAge]]
    BY DEF apply_ack_frames, update_rtt, RecoveryInvariant, TypeOK, Larger
  <1> HIDE DEF A, L
  <1> QED BY <1>1, <1>2, <1>3, ResolutionInvariant, ZenonT(30) DEF RecoveryInvariant

(* The packets a timer declares lost are outstanding and ack-eliciting.    *)
LEMMA TimerLossesWait ==
  ASSUME NEW s \in Spaces
  PROVE  timer_losses(s) \subseteq waiting(s)
  BY DEF timer_losses, time_threshold_losses, below_largest, oldest

(* A recovery timer preserves the invariant.                               *)
LEMMA TimerInvariant ==
  ASSUME RecoveryInvariant, NEW s \in Spaces, on_recovery_timer(s)
  PROVE  RecoveryInvariant'
  <1> DEFINE L == timer_losses(s)
  <1>1. /\ L \subseteq Packets
        /\ \A p \in L : recovery[s][p] = "outstanding" /\ eliciting[s][p]
    BY TimerLossesWait DEF waiting
  <1>t. tracker[s] \in [Packets -> Fate] /\ recovery[s] \in [Packets -> Fate]
        /\ acked_calls \in [Spaces -> [Packets -> Nat]]
    BY DEF RecoveryInvariant, TypeOK
  <1>2. {p \in L : tracker[s][p] = "outstanding"} = L
    BY <1>1 DEF RecoveryInvariant, RecordsAgree
  <1>3. /\ Mark(Mark(tracker[s], {}, "acknowledged"), L, "lost") = Mark(tracker[s], L, "lost")
        /\ Mark(Mark(recovery[s], {}, "acknowledged"), L, "lost") = Mark(recovery[s], L, "lost")
    BY <1>t DEF Mark
  <1>4. acked_calls = Called(acked_calls, s, {})
    BY <1>t DEF Called
  <1>5. /\ tracker' = [tracker EXCEPT ![s] = Mark(Mark(tracker[s], {}, "acknowledged"), L, "lost")]
        /\ recovery' = [recovery EXCEPT ![s] = Mark(Mark(recovery[s], {}, "acknowledged"), L, "lost")]
        /\ acked_calls' = Called(acked_calls, s, {})
        /\ lost_calls' = Called(lost_calls, s, L)
        /\ UNCHANGED <<next_pn, eliciting, carries>>
    BY <1>2, <1>3, <1>4, Zenon DEF on_recovery_timer, mark_lost
  <1>6. /\ largest' \in [Spaces -> Packets \union {None}]
        /\ loss_delay' \in LossDelays \union {None}
        /\ pto' \in [Spaces -> PtoDelays]
        /\ confirmed' \in BOOLEAN /\ discarded' \in SUBSET Spaces
        /\ age' \in [Spaces -> [Packets -> 0..MaxAge]]
    BY DEF on_recovery_timer, RecoveryInvariant, TypeOK
  <1>7. /\ {} \subseteq Packets /\ {} \intersect L = {}
        /\ \A p \in {} \union L : recovery[s][p] = "outstanding"
    BY <1>1
  <1> HIDE DEF L
  <1>8. TypeOK' /\ Unsent' /\ RecordsAgree' /\ OneOutcome' /\ AckOnlyNeverLost'
    BY <1>1, <1>5, <1>6, <1>7, ResolutionInvariant, Zenon
  <1> QED BY <1>8, SMTT(30) DEF RecoveryInvariant

-----------------------------------------------------------------------------
(* Discarding a space preserves the invariant.                             *)
LEMMA DiscardInvariant ==
  ASSUME RecoveryInvariant, NEW s \in Spaces, discard_packet_space(s)
  PROVE  RecoveryInvariant'
  <1> USE DEF discard_packet_space, clear_packet_space, RecoveryInvariant
  <1>1. TypeOK'
    BY SMTT(30) DEF TypeOK, Fate
  <1>2. Unsent' /\ RecordsAgree'
    BY DEF TypeOK, Unsent, RecordsAgree
  <1>3. OneOutcome' /\ AckOnlyNeverLost'
    BY DEF TypeOK, OneOutcome, AckOnlyNeverLost
  <1> QED BY <1>1, <1>2, <1>3, SMTT(30)

(* The passing of time and the confirmation of the handshake do.           *)
LEMMA QuietInvariant ==
  ASSUME RecoveryInvariant, confirm_handshake \/ Tick \/ UNCHANGED vars
  PROVE  RecoveryInvariant'
  <1> USE DEF RecoveryInvariant
  <1>1. CASE confirm_handshake
    BY <1>1, SMTT(30) DEF confirm_handshake, TypeOK, Unsent, RecordsAgree, OneOutcome, AckOnlyNeverLost
  <1>2. CASE Tick
    <2>1. age' \in [Spaces -> [Packets -> 0..MaxAge]]
      BY <1>2, RecoveryConstants, SMTT(30) DEF Tick, TypeOK
    <2> QED BY <2>1, <1>2 DEF Tick, TypeOK, Unsent, RecordsAgree, OneOutcome, AckOnlyNeverLost
  <1>3. CASE UNCHANGED vars
    BY <1>3 DEF vars, TypeOK, Unsent, RecordsAgree, OneOutcome, AckOnlyNeverLost
  <1> QED BY <1>1, <1>2, <1>3, SMTT(30)

(* Every step preserves the invariant.                                     *)
LEMMA StepInvariant == RecoveryInvariant /\ [Next]_vars => RecoveryInvariant'
  <1> SUFFICES ASSUME RecoveryInvariant, [Next]_vars PROVE RecoveryInvariant'
    OBVIOUS
  <1>1. ASSUME NEW s \in Spaces, NEW e \in BOOLEAN, NEW r \in BOOLEAN, flush_space(s, e, r)
        PROVE  RecoveryInvariant'
    BY <1>1, SentInvariant DEF flush_space
  <1>2. ASSUME NEW s \in Spaces, acknowledge(s) PROVE RecoveryInvariant'
    BY <1>2, SentInvariant, Zenon DEF acknowledge
  <1>3. ASSUME NEW s \in Spaces, NEW top \in Packets, NEW rest \in SUBSET Packets,
               apply_ack_frames(s, rest \union {top}, top)
        PROVE  RecoveryInvariant'
    <2>1. rest \union {top} \in SUBSET Packets
      OBVIOUS
    <2> QED BY <2>1, <1>3, AckInvariant
  <1>4. ASSUME NEW s \in Spaces, on_recovery_timer(s) PROVE RecoveryInvariant'
    BY <1>4, TimerInvariant
  <1>5. ASSUME NEW s \in Spaces, discard_packet_space(s) PROVE RecoveryInvariant'
    BY <1>5, DiscardInvariant
  <1>6. CASE confirm_handshake \/ Tick \/ UNCHANGED vars
    BY <1>6, QuietInvariant
  <1> QED BY <1>1, <1>2, <1>3, <1>4, <1>5, <1>6, Zenon DEF Next

-----------------------------------------------------------------------------
(* The inductive invariant holds of every behaviour of the two lists.      *)
THEOREM RecoveryInvariantHolds == Spec => []RecoveryInvariant
  BY InitInvariant, StepInvariant, PTL DEF Spec

(* The sent_packet_tracker of a space and recovery_packets_ agree on every *)
(* packet.                                                                 *)
THEOREM TrackersAgree == Spec => []RecordsAgree
  <1>1. RecoveryInvariant => RecordsAgree
    BY DEF RecoveryInvariant
  <1> QED BY <1>1, RecoveryInvariantHolds, PTL

(* Streams are told the fate of a packet exactly once, and the right one.  *)
THEOREM StreamsLearnOneOutcome == Spec => []OneOutcome
  <1>1. RecoveryInvariant => OneOutcome
    BY DEF RecoveryInvariant
  <1> QED BY <1>1, RecoveryInvariantHolds, PTL

(* Packets that are not ack-eliciting are never declared lost.             *)
THEOREM AckOnlyPacketsAreNotLost == Spec => []AckOnlyNeverLost
  <1>1. RecoveryInvariant => AckOnlyNeverLost
    BY DEF RecoveryInvariant
  <1> QED BY <1>1, RecoveryInvariantHolds, PTL

(* What was decided about a packet is never revised.                       *)
THEOREM FatesAreFinal == Spec => FateIsFinal
  <1> DEFINE Final == \A s \in Spaces, p \in Packets :
                        recovery[s][p] \in {"acknowledged", "lost"} =>
                          recovery'[s][p] \in {recovery[s][p], "absent"}
  <1>1. ASSUME RecoveryInvariant, Next PROVE Final
    <2> SUFFICES ASSUME NEW t \in Spaces, NEW p \in Packets,
                        recovery[t][p] \in {"acknowledged", "lost"}
                 PROVE  recovery'[t][p] \in {recovery[t][p], "absent"}
      OBVIOUS
    <2>t. /\ recovery \in [Spaces -> [Packets -> Fate]] /\ next_pn \in [Spaces -> 0..MaxPackets]
          /\ recovery[t][p] # "outstanding" /\ recovery[t][p] # "absent"
      BY <1>1, SMTT(30) DEF RecoveryInvariant, TypeOK
    <2>1. ASSUME NEW s \in Spaces, NEW e \in BOOLEAN, NEW r \in BOOLEAN, record_sent(s, e, r)
          PROVE  recovery'[t][p] = recovery[t][p]
      <3>1. ~(t = s /\ p = next_pn[s])
        <4>1. p >= next_pn[t] => recovery[t][p] = "absent"
          BY <1>1 DEF RecoveryInvariant, Unsent
        <4>2. p \in Nat /\ next_pn[t] \in Nat
          BY <2>t, RecoveryConstants DEF Packets
        <4> QED BY <4>1, <4>2, <2>t
      <3> QED BY <3>1, <2>1, <2>t, SMTT(30) DEF record_sent
    <2>2. ASSUME NEW s \in Spaces, NEW top \in Packets, NEW rest \in SUBSET Packets,
                 apply_ack_frames(s, rest \union {top}, top)
          PROVE  recovery'[t][p] = recovery[t][p]
      <3>1. t = s => /\ p \notin newly_acknowledged(s, rest \union {top})
                     /\ p \notin newly_lost(s, rest \union {top}, top)
        BY <2>t, <1>1, SMTT(30) DEF RecoveryInvariant, RecordsAgree, newly_acknowledged, newly_lost
      <3>2. recovery' = mark_recovery_packets(s, newly_acknowledged(s, rest \union {top}),
                                                 newly_lost(s, rest \union {top}, top))
        BY <2>2 DEF apply_ack_frames
      <3> QED BY <3>1, <3>2, <2>t, SMTT(30) DEF mark_recovery_packets, Mark
    <2>3. ASSUME NEW s \in Spaces, on_recovery_timer(s)
          PROVE  recovery'[t][p] = recovery[t][p]
      <3>1. t = s => p \notin timer_losses(s)
        BY <2>t, TimerLossesWait DEF waiting
      <3> QED BY <3>1, <2>3, <2>t DEF on_recovery_timer, Mark
    <2>4. ASSUME NEW s \in Spaces, discard_packet_space(s)
          PROVE  recovery'[t][p] \in {recovery[t][p], "absent"}
      BY <2>4, <2>t DEF discard_packet_space, clear_packet_space
    <2>5. CASE confirm_handshake \/ Tick
      BY <2>5 DEF confirm_handshake, Tick
    <2> QED BY <1>1, <2>1, <2>2, <2>3, <2>4, <2>5, ZenonT(30) DEF Next, flush_space, acknowledge
  <1>2. RecoveryInvariant /\ [Next]_vars => [Final]_vars
    BY <1>1
  <1> QED BY <1>2, RecoveryInvariantHolds, PTL DEF Spec, FateIsFinal

-----------------------------------------------------------------------------
(* The congestion controller *)

NewReno == Algorithm = "new_reno"

(* The counter is bounded by what was sent, and the window can be divided  *)
(* by.                                                                     *)
Counted ==
  /\ bytes_in_flight \in Nat /\ bytes_sent \in Nat
  /\ bytes_in_flight <= bytes_sent /\ bytes_in_flight < Width
  /\ congestion_window \in Nat /\ congestion_window >= MinWindow

ControllerInvariant == NewReno => Counted /\ slow_start \in BOOLEAN

-----------------------------------------------------------------------------
(* A step of the connection is a step of its loss recovery.                *)
LEMMA RecoveryStep ==
  ASSUME RecoveryInvariant, [CongestionNext]_all_vars
  PROVE  [Next]_vars
  <1>1. ASSUME NEW s \in Spaces, NEW e \in BOOLEAN, NEW r \in BOOLEAN, NEW size \in Sizes,
               FlushSpace(s, e, r, size)
        PROVE  Next
    BY <1>1 DEF FlushSpace, Next
  <1>2. ASSUME NEW s \in Spaces, Acknowledge(s) PROVE Next
    BY <1>2 DEF Acknowledge, Next
  <1>3. ASSUME NEW s \in Spaces, NEW top \in 0..next_pn[s] - 1, NEW rest \in SUBSET (0..top - 1),
               ApplyAckFrames(s, rest \union {top}, top)
        PROVE  Next
    <2>1. next_pn[s] \in 0..MaxPackets
      BY DEF RecoveryInvariant, TypeOK
    <2>2. top \in Packets /\ rest \in SUBSET Packets /\ \A p \in rest : p < top
      BY <2>1, RecoveryConstants DEF Packets
    <2>3. apply_ack_frames(s, rest \union {top}, top)
      BY <1>3 DEF ApplyAckFrames
    <2> QED
      BY <2>2, <2>3, Zenon DEF Next
  <1>4. ASSUME NEW s \in Spaces, OnRecoveryTimer(s) PROVE Next
    BY <1>4 DEF OnRecoveryTimer, Next
  <1>5. ASSUME NEW s \in Spaces, DiscardPacketSpace(s) PROVE Next
    BY <1>5 DEF DiscardPacketSpace, Next
  <1>6. CASE ConfirmHandshake
    BY <1>6 DEF ConfirmHandshake, Next
  <1>7. CASE TimePasses
    BY <1>7 DEF TimePasses, Next
  <1>8. CASE UNCHANGED all_vars
    BY <1>8 DEF all_vars
  <1> QED
    BY <1>1, <1>2, <1>3, <1>4, <1>5, <1>6, <1>7, <1>8, Zenon DEF CongestionNext

(* The connection with its controller implements Recovery: the properties  *)
(* proved of Recovery hold whatever the controller lets be sent.           *)
THEOREM ImplementsRecovery == CongestionSpec => Spec
  <1>1. CongestionInit => Init
    BY DEF CongestionInit
  <1> QED
    BY <1>1, InitInvariant, StepInvariant, RecoveryStep, PTL DEF CongestionSpec, Spec

-----------------------------------------------------------------------------
(* NewReno cuts the window once, to half of it or to the minimum.          *)
LEMMA ReducedWindow ==
  ASSUME NEW w \in Nat
  PROVE  NewReno => reduced(w) \in Nat /\ reduced(w) >= MinWindow
  BY CongestionConstants DEF NewReno, reduced, Larger

(* A timer of NewReno makes a single cut, however many packets it declares *)
(* lost.                                                                   *)
LEMMA ReducedOnce ==
  ASSUME NewReno, NEW losses
  PROVE  reduced_for(losses) = reduced(congestion_window)
  <1> DEFINE G(g) == [n \in 0..1 |-> IF n = 0 THEN congestion_window ELSE reduced(g[n - 1])]
             h == [n \in 0..1 |-> IF n = 0 THEN congestion_window ELSE reduced(congestion_window)]
             after == CHOOSE g : g = G(g)
  <1>1. h = G(h)
    <2>1. ASSUME NEW n \in 0..1 PROVE h[n] = G(h)[n]
      <3>1. CASE n = 0
        BY <3>1
      <3>2. CASE n = 1
        <4>1. h[n - 1] = congestion_window
          BY <3>2
        <4> QED
          BY <3>2, <4>1
      <3> QED
        BY <3>1, <3>2
    <2> QED
      BY <2>1
  <1>2. after = G(after)
    BY <1>1
  <1> HIDE DEF after
  <1>3. after[0] = congestion_window /\ after[1] = reduced(after[0])
    BY <1>2
  <1>4. reduced_for(losses) = after[1]
    BY DEF reduced_for, after, NewReno
  <1> QED
    BY <1>3, <1>4
(* The releases of any number of datagrams take no more from the counter   *)
(* than it has, and leave no more than there was.                          *)
LEMMA ReleasedBytes ==
  ASSUME NewReno, bytes_in_flight \in Nat, NEW n \in Nat
  PROVE  released(n) \in Nat /\ released(n) <= bytes_in_flight /\ released(n) < Width
  <1> DEFINE all == n * MaxDatagram
  <1>1. all \in Nat /\ Width \in Nat \ {0}
    BY CongestionConstants
  <1> HIDE DEF all
  <1>2. CASE bytes_in_flight < all
    BY <1>1, <1>2 DEF released, NewReno, all
  <1>3. CASE ~(bytes_in_flight < all)
    <2>1. bytes_in_flight - all \in Nat /\ bytes_in_flight - all <= bytes_in_flight
      BY <1>1, <1>3
    <2>2. /\ (bytes_in_flight - all) % Width \in Nat
          /\ (bytes_in_flight - all) % Width <= bytes_in_flight - all
          /\ (bytes_in_flight - all) % Width < Width
      BY <1>1, <2>1
    <2>3. released(n) = (bytes_in_flight - all) % Width
      BY <1>3 DEF released, all
    <2> QED
      BY <1>1, <2>1, <2>2, <2>3
  <1> QED
    BY <1>2, <1>3

(* An acknowledgement does not make the window smaller. *)
LEMMA GrownWindow ==
  ASSUME NewReno, ControllerInvariant, NEW w \in grown
  PROVE  w \in Nat /\ w >= congestion_window /\ w >= MinWindow
  <1>1. congestion_window \in Nat \ {0} /\ congestion_window >= MinWindow /\ MinWindow \in Nat /\ MaxDatagram \in Nat
    BY CongestionConstants DEF ControllerInvariant, Counted
  <1>2. Algorithm # "bbr" /\ Algorithm # "cubic"
    BY DEF NewReno
  <1>3. CASE slow_start
    <2>1. w = congestion_window + MaxDatagram
      BY <1>2, <1>3 DEF grown
    <2> QED
      BY <1>1, <2>1
  <1>4. CASE ~slow_start
    <2>1. w = congestion_window + (MaxDatagram * MaxDatagram) \div congestion_window
      BY <1>2, <1>4 DEF grown
    <2>2. MaxDatagram * MaxDatagram \in Nat
      BY <1>1
    <2>3. (MaxDatagram * MaxDatagram) \div congestion_window \in Nat
      BY <1>1, <2>2
    <2> QED
      BY <1>1, <2>1, <2>3
  <1> QED
    BY <1>3, <1>4

(* Finitely many packets of a space are lost at once. *)
LEMMA CountedLosses ==
  ASSUME NEW s \in Spaces
  PROVE  Cardinality(timer_losses(s)) \in Nat /\ (Cardinality(timer_losses(s)) # 0 => timer_losses(s) # {})
  <1>1. timer_losses(s) \subseteq Packets
    BY TimerLossesWait DEF waiting
  <1>2. IsFiniteSet(Packets)
    BY RecoveryConstants, FS_Interval DEF Packets
  <1> QED
    BY <1>1, <1>2, FS_Subset, FS_CardinalityType, FS_EmptySet


-----------------------------------------------------------------------------
(* A packet that was outstanding is declared lost by this step.            *)
LossDeclared == \E s \in Spaces, p \in Packets : recovery[s][p] = "outstanding" /\ recovery'[s][p] = "lost"

(* What a step of the controller must show.                                *)
Controlled == ControllerInvariant' /\ (congestion_window' < congestion_window => LossDeclared)

(* A packet sent is counted once, or, without ack-eliciting frames, not at *)
(* all.                                                                    *)
LEMMA SentControlled ==
  ASSUME NewReno, ControllerInvariant, NEW s \in Spaces, NEW e \in BOOLEAN, NEW r \in BOOLEAN,
         NEW size \in Sizes, FlushSpace(s, e, r, size)
  PROVE  Controlled
  <1> DEFINE counted == IF Algorithm = "new_reno" /\ ~e THEN 0 ELSE size
  <1>1. counted \in Nat /\ Width \in Nat \ {0}
    BY CongestionConstants
  <1>2. bytes_in_flight' = (bytes_in_flight + counted) % Width /\ bytes_sent' = bytes_sent + counted
    BY DEF FlushSpace, on_packet_sent
  <1>3. congestion_window' = congestion_window
    BY DEF FlushSpace
  <1> HIDE DEF counted
  <1>4. bytes_in_flight \in Nat /\ bytes_sent \in Nat /\ bytes_in_flight <= bytes_sent
        /\ congestion_window \in Nat /\ congestion_window >= MinWindow
    BY DEF ControllerInvariant, Counted
  <1>5. (bytes_in_flight + counted) % Width \in Nat
        /\ (bytes_in_flight + counted) % Width <= bytes_in_flight + counted
        /\ (bytes_in_flight + counted) % Width < Width
    BY <1>1, <1>4
  <1>6. Counted' /\ ~(congestion_window' < congestion_window)
    BY <1>1, <1>2, <1>3, <1>4, <1>5 DEF Counted
  <1>7. slow_start' \in BOOLEAN
    BY DEF FlushSpace, ControllerInvariant
  <1> QED
    BY <1>6, <1>7, Zenon DEF Controlled, ControllerInvariant

(* An ACK frame releases one datagram, grows the window once and cuts it   *)
(* once when it shows packets to be lost.                                  *)
LEMMA AckControlled ==
  ASSUME NewReno, ControllerInvariant, RecoveryInvariant,
         NEW s \in Spaces, NEW acked, NEW top, ApplyAckFrames(s, acked, top)
  PROVE  Controlled
  <1> DEFINE any_acked == newly_acknowledged(s, acked) # {}
             any_lost == newly_lost(s, acked, top) # {}
  <1>1. /\ bytes_in_flight' = (IF any_acked THEN released(1) ELSE bytes_in_flight)
        /\ \E w \in IF any_acked THEN grown ELSE {congestion_window} :
             congestion_window' = IF any_lost THEN reduced(w) ELSE w
        /\ bytes_sent' = bytes_sent
        /\ apply_ack_frames(s, acked, top)
    BY DEF ApplyAckFrames
  <1>2. /\ bytes_in_flight \in Nat /\ bytes_sent \in Nat /\ bytes_in_flight <= bytes_sent
        /\ congestion_window \in Nat /\ congestion_window >= MinWindow
    BY DEF ControllerInvariant, Counted
  <1>3. any_lost => LossDeclared
    <2> SUFFICES ASSUME NEW p \in newly_lost(s, acked, top) PROVE LossDeclared
      OBVIOUS
    <2>1. p \in Packets /\ tracker[s][p] = "outstanding"
      BY DEF newly_lost
    <2>2. recovery[s][p] = "outstanding" /\ recovery \in [Spaces -> [Packets -> Fate]]
      BY <2>1, SMTT(30) DEF RecoveryInvariant, RecordsAgree, TypeOK
    <2>3. recovery'[s][p] = "lost"
      BY <1>1, <2>1, <2>2 DEF apply_ack_frames, mark_recovery_packets, Mark
    <2> QED
      BY <2>1, <2>2, <2>3 DEF LossDeclared
  <1>4. bytes_in_flight' \in Nat /\ bytes_in_flight' <= bytes_in_flight /\ bytes_in_flight' < Width
    BY <1>1, <1>2, ReleasedBytes DEF ControllerInvariant, Counted
  <1> HIDE DEF any_acked, any_lost
  <1>5. PICK w \in IF any_acked THEN grown ELSE {congestion_window} :
             congestion_window' = IF any_lost THEN reduced(w) ELSE w
    BY <1>1
  <1>6. w \in Nat /\ w >= congestion_window /\ w >= MinWindow
    BY <1>2, GrownWindow
  <1>7. congestion_window' \in Nat /\ congestion_window' >= MinWindow
    BY <1>5, <1>6, ReducedWindow
  <1>8. congestion_window' < congestion_window => any_lost
    BY <1>2, <1>5, <1>6, SMTT(30)
  <1>9. bytes_sent' \in Nat /\ bytes_in_flight' <= bytes_sent'
    BY <1>1, <1>2, <1>4
  <1>10. Counted'
    BY <1>4, <1>7, <1>9 DEF Counted
  <1>11. slow_start' \in BOOLEAN
    BY Zenon DEF ApplyAckFrames
  <1> QED
    BY <1>3, <1>8, <1>10, <1>11, Zenon DEF Controlled, ControllerInvariant

(* A timer releases a datagram for each loss and cuts the window once,     *)
(* when there is a loss.                                                   *)
LEMMA TimerControlled ==
  ASSUME NewReno, ControllerInvariant, RecoveryInvariant, NEW s \in Spaces, OnRecoveryTimer(s)
  PROVE  Controlled
  <1> DEFINE losses == Cardinality(timer_losses(s))
  <1>1. /\ bytes_in_flight \in Nat /\ bytes_sent \in Nat /\ bytes_in_flight <= bytes_sent
        /\ congestion_window \in Nat /\ congestion_window >= MinWindow
    BY DEF ControllerInvariant, Counted
  <1>2. on_recovery_timer(s) /\ bytes_sent' = bytes_sent
    BY DEF OnRecoveryTimer
  <1>3. CASE losses = 0
    <2>1. bytes_in_flight' = bytes_in_flight /\ congestion_window' = congestion_window
      BY <1>3 DEF OnRecoveryTimer
    <2>2. ~(congestion_window' < congestion_window)
      BY <1>1, <2>1
    <2>3. Counted'
      BY <1>2, <2>1 DEF ControllerInvariant, Counted
    <2>4. slow_start' \in BOOLEAN
      BY <1>3 DEF OnRecoveryTimer, ControllerInvariant
    <2> QED
      BY <2>2, <2>3, <2>4, Zenon DEF Controlled, ControllerInvariant
  <1>4. CASE losses # 0
    <2>1. bytes_in_flight' = released(losses) /\ congestion_window' = reduced_for(losses)
      BY <1>4 DEF OnRecoveryTimer
    <2>2. losses \in Nat /\ timer_losses(s) # {}
      BY <1>4, CountedLosses
    <2>3. LossDeclared
      <3>1. PICK p \in timer_losses(s) : TRUE
        BY <2>2
      <3>2. p \in Packets /\ recovery[s][p] = "outstanding"
        BY <3>1, TimerLossesWait, SMTT(30) DEF waiting
      <3>3. recovery'[s][p] = "lost"
        BY <1>2, <3>1, <3>2 DEF on_recovery_timer, Mark, RecoveryInvariant, TypeOK
      <3> QED
        BY <3>2, <3>3 DEF LossDeclared
    <2> HIDE DEF losses
    <2>4. bytes_in_flight' \in Nat /\ bytes_in_flight' <= bytes_in_flight /\ bytes_in_flight' < Width
      BY <1>1, <2>1, <2>2, ReleasedBytes
    <2>5. congestion_window' \in Nat /\ congestion_window' >= MinWindow
      BY <1>1, <2>1, ReducedOnce, ReducedWindow
    <2>6. bytes_sent' \in Nat /\ bytes_in_flight' <= bytes_sent'
      BY <1>1, <1>2, <2>4
    <2>7. slow_start' \in BOOLEAN
      BY <1>4, Zenon DEF OnRecoveryTimer, losses
    <2>8. Counted'
      BY <2>4, <2>5, <2>6 DEF Counted
    <2> QED
      BY <2>3, <2>7, <2>8, ZenonT(30) DEF Controlled, ControllerInvariant
  <1> QED
    BY <1>3, <1>4

(* Every step of the connection. *)
LEMMA StepControlled ==
  ASSUME NewReno, ControllerInvariant, RecoveryInvariant, [CongestionNext]_all_vars
  PROVE  Controlled
  <1>1. ASSUME UNCHANGED congestion_vars PROVE Controlled
    <2>1. ControllerInvariant'
      BY <1>1 DEF ControllerInvariant, Counted, congestion_vars, NewReno
    <2>2. ~(congestion_window' < congestion_window)
      BY <1>1 DEF ControllerInvariant, Counted, congestion_vars
    <2> QED
      BY <2>1, <2>2 DEF Controlled
  <1>2. CASE UNCHANGED all_vars
    BY <1>1, <1>2 DEF all_vars
  <1>3. CASE CongestionNext
    BY <1>1, <1>3, SentControlled, AckControlled, TimerControlled, Zenon
       DEF CongestionNext, Acknowledge, DiscardPacketSpace, ConfirmHandshake, TimePasses
  <1> QED
    BY <1>2, <1>3

(* The inductive invariant of the controller together with that of loss    *)
(* recovery.                                                               *)
THEOREM ControllerInvariantHolds == CongestionSpec => [](RecoveryInvariant /\ ControllerInvariant)
  <1>1. CongestionInit => ControllerInvariant
    BY CongestionConstants DEF CongestionInit, ControllerInvariant, Counted
  <1>2. CongestionInit => RecoveryInvariant
    BY InitInvariant DEF CongestionInit
  <1>3. RecoveryInvariant /\ ControllerInvariant /\ [CongestionNext]_all_vars
          => (RecoveryInvariant /\ ControllerInvariant)'
    <2> SUFFICES ASSUME RecoveryInvariant, ControllerInvariant, [CongestionNext]_all_vars
                 PROVE  RecoveryInvariant' /\ ControllerInvariant'
      OBVIOUS
    <2>1. RecoveryInvariant'
      BY RecoveryStep, StepInvariant
    <2>2. CASE NewReno
      BY <2>1, <2>2, StepControlled DEF Controlled
    <2>3. CASE ~NewReno
      BY <2>1, <2>3 DEF ControllerInvariant, NewReno
    <2> QED
      BY <2>2, <2>3
  <1> QED
    BY <1>1, <1>2, <1>3, PTL DEF CongestionSpec

(* The members of the NewReno controller keep their types and the window   *)
(* its minimum.                                                            *)
THEOREM NewRenoTypes == CongestionSpec => [](NewReno => CongestionTypeOK)
  <1>1. ControllerInvariant => (NewReno => CongestionTypeOK)
    <2>1. Counted => /\ bytes_in_flight \in 0..Width - 1 /\ bytes_sent \in Nat
                     /\ congestion_window \in Nat /\ congestion_window >= MinWindow
      BY CongestionConstants DEF Counted
    <2> QED
      BY <2>1, Zenon DEF ControllerInvariant, CongestionTypeOK
  <1> QED
    BY <1>1, ControllerInvariantHolds, PTL

(* The counter of NewReno never wraps and never exceeds what was sent,     *)
(* although full datagrams are released for smaller packets and for        *)
(* packets that were never counted.                                        *)
THEOREM NewRenoCountsWhatWasSent == CongestionSpec => [](NewReno => InFlightWasSent)
  <1>1. ControllerInvariant => (NewReno => InFlightWasSent)
    BY DEF ControllerInvariant, Counted, InFlightWasSent
  <1> QED
    BY <1>1, ControllerInvariantHolds, PTL

(* NewReno cuts its window only in a step that declares a packet lost.     *)
THEOREM NewRenoCutsOnlyForLoss == NewReno => (CongestionSpec => ReducedOnlyByLoss)
  <1> SUFFICES ASSUME NewReno PROVE CongestionSpec => ReducedOnlyByLoss
    OBVIOUS
  <1>1. RecoveryInvariant /\ ControllerInvariant /\ [CongestionNext]_all_vars
          => [congestion_window' < congestion_window => LossDeclared]_all_vars
    BY StepControlled DEF Controlled
  <1> QED
    BY <1>1, ControllerInvariantHolds, PTL DEF CongestionSpec, ReducedOnlyByLoss, LossDeclared
=============================================================================
