------------------------------ MODULE Recovery ------------------------------
(***************************************************************************)
(* Loss recovery of a connection: the sent_packet_tracker of each packet   *)
(* number space, the list recovery_packets_ that the timers work on, and   *)
(* the table sent_stream_ranges_ through which the streams learn what      *)
(* happened to their frames (include/flowq/quic/ack_loss.hpp and           *)
(* connection.hpp).                                                        *)
(*                                                                         *)
(* A record of a packet is its entry in a function from packet numbers,    *)
(* "absent" when there is none.  Within a space both lists are in the      *)
(* order of the packet numbers, so the oldest packet has the smallest one. *)
(* Time is the age of a packet, counted up to MaxAge, beyond which no      *)
(* comparison changes.  An RTT sample makes the loss delay and the PTO any *)
(* of LossDelays and PtoDelays.                                            *)
(***************************************************************************)
EXTENDS Integers

CONSTANTS
  Spaces,           \* packet number spaces, Application among them
  Application,      \* the one space that needs a confirmed handshake for PTO
  MaxPackets,       \* bound: packet numbers of a space are below it
  LossDelays,       \* values of time_threshold_loss_delay()
  PtoDelays,        \* values of pto_duration()
  MaxAge,           \* an age no delay exceeds
  None              \* an optional without a value

ASSUME RecoveryConstants ==
  /\ Application \in Spaces
  /\ MaxPackets \in Nat
  /\ MaxAge \in Nat
  /\ LossDelays \subseteq 1..MaxAge /\ LossDelays # {}
  /\ PtoDelays \subseteq 1..MaxAge /\ PtoDelays # {}
  /\ None \notin Nat

VARIABLES
  next_pn,          \* next_packet_number of each space
  tracker,          \* sent_packet_tracker::packets_: state by packet number
  recovery,         \* recovery_packets_: state by packet number
  eliciting,        \* ack_eliciting of the packets sent
  age,              \* time since sent_at
  carries,          \* sent_stream_ranges_: the packet carries stream ranges
  largest,          \* largest_acknowledged
  loss_delay,       \* None until there is an RTT sample
  pto,              \* pto_duration() of each space
  confirmed,        \* recovery_pto_config_.handshake_confirmed
  discarded,        \* discarded spaces
  acked_calls,      \* on_acked() calls made for the ranges of a packet
  lost_calls        \* on_lost() calls made for the ranges of a packet

vars == <<next_pn, tracker, recovery, eliciting, age, carries, largest, loss_delay,
          pto, confirmed, discarded, acked_calls, lost_calls>>

Packets == 0 .. MaxPackets - 1

Fate == {"absent", "outstanding", "acknowledged", "lost"}

packet_threshold == 3

Larger(a, b) == IF a >= b THEN a ELSE b

(* The state of the packets P becomes f. *)
Mark(states, P, f) == [p \in Packets |-> IF p \in P THEN f ELSE states[p]]

(* One more call for each packet of P that carries stream ranges. *)
Called(calls, s, P) ==
  [calls EXCEPT ![s] = [p \in Packets |-> IF p \in P /\ carries[s][p]
                                          THEN calls[s][p] + 1 ELSE calls[s][p]]]

-----------------------------------------------------------------------------
(* Sending. *)

record_sent(s, is_eliciting, has_ranges) ==
  LET p == next_pn[s]
  IN  /\ p < MaxPackets
      /\ next_pn' = [next_pn EXCEPT ![s] = p + 1]
      /\ tracker' = [tracker EXCEPT ![s][p] = "outstanding"]
      /\ recovery' = [recovery EXCEPT ![s][p] = "outstanding"]
      /\ eliciting' = [eliciting EXCEPT ![s][p] = is_eliciting]
      /\ age' = [age EXCEPT ![s][p] = 0]
      /\ carries' = [carries EXCEPT ![s][p] = has_ranges]

(* flush_space() past its gates: a packet with the frames selected. *)
flush_space(s, is_eliciting, has_ranges) ==
  /\ s \notin discarded
  /\ has_ranges => is_eliciting /\ s = Application
  /\ record_sent(s, is_eliciting, has_ranges)
  /\ UNCHANGED <<largest, loss_delay, pto, confirmed, discarded, acked_calls, lost_calls>>

(* acknowledge(): a packet with an ACK frame only. *)
acknowledge(s) ==
  /\ s \notin discarded
  /\ record_sent(s, FALSE, FALSE)
  /\ UNCHANGED <<largest, loss_delay, pto, confirmed, discarded, acked_calls, lost_calls>>

-----------------------------------------------------------------------------
(* apply_ack_frames(): an ACK frame for the packet numbers "acked", of     *)
(* which "top" is the largest, arrives in space s.                         *)

(* on_ack_received() that does not look at the state of the packet. *)
newly_acknowledged_any(s, acked) == {p \in Packets : p \in acked /\ tracker[s][p] # "absent"}

newly_acknowledged(s, acked) == {p \in Packets : p \in acked /\ tracker[s][p] = "outstanding"}

(* The losses are computed before the packets acknowledged are marked. *)
newly_lost_before_acks(s, acked, top) ==
  {p \in Packets :
     /\ tracker[s][p] = "outstanding" /\ eliciting[s][p]
     /\ p <= top /\ top - p >= packet_threshold}

newly_lost(s, acked, top) ==
  {p \in Packets \ acked :
     /\ tracker[s][p] = "outstanding" /\ eliciting[s][p]
     /\ p <= top /\ top - p >= packet_threshold}

has_rtt_sample(s, acked) ==
  \E p \in newly_acknowledged(s, acked) : eliciting[s][p] /\ recovery[s][p] = "outstanding"

update_rtt(sampled) ==
  IF sampled
  THEN loss_delay' \in LossDelays /\ pto' \in [Spaces -> PtoDelays]
  ELSE UNCHANGED <<loss_delay, pto>>

mark_recovery_packets(s, A, L) ==
  [recovery EXCEPT ![s] = Mark(Mark(recovery[s], A, "acknowledged"), L, "lost")]

apply_ack_frames(s, acked, top) ==
  LET A == newly_acknowledged(s, acked)
      L == newly_lost(s, acked, top)
  IN  /\ s \notin discarded
      /\ largest' = [largest EXCEPT ![s] = IF largest[s] = None THEN top
                                           ELSE Larger(largest[s], top)]
      /\ tracker' = [tracker EXCEPT ![s] = Mark(Mark(tracker[s], A, "acknowledged"), L, "lost")]
      /\ update_rtt(has_rtt_sample(s, acked))
      /\ recovery' = mark_recovery_packets(s, A, L)
      /\ acked_calls' = Called(acked_calls, s, A)
      /\ lost_calls' = Called(lost_calls, s, L)
      /\ UNCHANGED <<next_pn, eliciting, age, carries, confirmed, discarded>>

-----------------------------------------------------------------------------
(* Timers. *)

waiting(s) == {p \in Packets : recovery[s][p] = "outstanding" /\ eliciting[s][p]}

(* detect_time_threshold_losses(). *)
below_largest(s) == {p \in waiting(s) : largest[s] # None /\ loss_delay # None /\ p < largest[s]}

time_threshold_losses(s) == {p \in below_largest(s) : age[s][p] >= loss_delay}

pto_allowed(s) == s # Application \/ confirmed

(* recovery_timer_for(): the deadline of the space has come, in loss time  *)
(* mode or, when no packet waits for its loss time, in PTO mode.           *)
loss_time_due(s) == time_threshold_losses(s) # {}

(* No PTO once a packet of the space has been acknowledged. *)
pto_due_before_ack(s) ==
  /\ largest[s] = None /\ waiting(s) # {} /\ pto_allowed(s)
  /\ \A p \in waiting(s) : age[s][p] >= pto[s]

pto_due(s) ==
  /\ below_largest(s) = {} /\ waiting(s) # {} /\ pto_allowed(s)
  /\ \A p \in waiting(s) : age[s][p] >= pto[s]

timer_due(s) == s \notin discarded /\ (loss_time_due(s) \/ pto_due(s))

oldest(s) == {p \in waiting(s) : \A q \in waiting(s) : p <= q}

(* The packets that on_recovery_timer() declares lost.  The PTO looks at   *)
(* the packets that the time threshold left.                               *)
timer_losses(s) ==
  IF loss_time_due(s) THEN time_threshold_losses(s)
  ELSE IF pto_due(s) THEN oldest(s) ELSE {}

(* The losses are not reported to the tracker of the space. *)
mark_lost_forgotten(s, L) == tracker

mark_lost(s, L) ==
  [tracker EXCEPT ![s] = Mark(tracker[s], {p \in L : tracker[s][p] = "outstanding"}, "lost")]

on_recovery_timer(s) ==
  LET L == timer_losses(s)
  IN  /\ s \notin discarded
      /\ recovery' = [recovery EXCEPT ![s] = Mark(recovery[s], L, "lost")]
      /\ tracker' = mark_lost(s, L)
      /\ lost_calls' = Called(lost_calls, s, L)
      /\ UNCHANGED <<next_pn, eliciting, age, carries, largest, loss_delay, pto,
                     confirmed, discarded, acked_calls>>

Tick ==
  /\ age' = [s \in Spaces |-> [p \in Packets |->
              IF p < next_pn[s] /\ age[s][p] < MaxAge THEN age[s][p] + 1 ELSE age[s][p]]]
  /\ UNCHANGED <<next_pn, tracker, recovery, eliciting, carries, largest, loss_delay, pto,
                 confirmed, discarded, acked_calls, lost_calls>>

-----------------------------------------------------------------------------
(* discard_packet_space() and what refresh_key_lifecycle() derives from    *)
(* the TLS state.                                                          *)

clear_packet_space(s) ==
  /\ tracker' = [tracker EXCEPT ![s] = [p \in Packets |-> "absent"]]
  /\ recovery' = [recovery EXCEPT ![s] = [p \in Packets |-> "absent"]]
  /\ carries' = [carries EXCEPT ![s] = [p \in Packets |-> FALSE]]
  /\ largest' = [largest EXCEPT ![s] = None]

discard_packet_space(s) ==
  /\ s \notin discarded
  /\ discarded' = discarded \union {s}
  /\ clear_packet_space(s)
  /\ UNCHANGED <<next_pn, eliciting, age, loss_delay, pto, confirmed, acked_calls, lost_calls>>

confirm_handshake ==
  /\ ~confirmed
  /\ confirmed' = TRUE
  /\ pto' \in [Spaces -> PtoDelays]
  /\ UNCHANGED <<next_pn, tracker, recovery, eliciting, age, carries, largest, loss_delay,
                 discarded, acked_calls, lost_calls>>

-----------------------------------------------------------------------------
Init ==
  /\ next_pn = [s \in Spaces |-> 0]
  /\ tracker = [s \in Spaces |-> [p \in Packets |-> "absent"]]
  /\ recovery = tracker
  /\ eliciting = [s \in Spaces |-> [p \in Packets |-> FALSE]]
  /\ age = [s \in Spaces |-> [p \in Packets |-> 0]]
  /\ carries = eliciting
  /\ largest = [s \in Spaces |-> None]
  /\ loss_delay = None
  /\ pto \in [Spaces -> PtoDelays]
  /\ confirmed = FALSE
  /\ discarded = {}
  /\ acked_calls = age
  /\ lost_calls = age

Next ==
  \/ \E s \in Spaces, e, r \in BOOLEAN : flush_space(s, e, r)
  \/ \E s \in Spaces : acknowledge(s)
  \/ \E s \in Spaces : \E top \in Packets, rest \in SUBSET Packets :
       (\A p \in rest : p < top) /\ apply_ack_frames(s, rest \union {top}, top)
  \/ \E s \in Spaces : on_recovery_timer(s)
  \/ \E s \in Spaces : discard_packet_space(s)
  \/ confirm_handshake
  \/ Tick

Spec == Init /\ [][Next]_vars

(* Time passes, and a timer that is due is serviced: next_recovery_timer() *)
(* is polled after every change and recovery_scheduler.hpp calls           *)
(* on_recovery_timer() at the deadline.                                    *)
Fairness ==
  /\ WF_vars(Tick)
  /\ \A s \in Spaces : WF_vars(timer_due(s) /\ on_recovery_timer(s))

FairSpec == Spec /\ Fairness

-----------------------------------------------------------------------------
(* The records have their types.                                           *)
TypeOK ==
  /\ next_pn \in [Spaces -> 0..MaxPackets]
  /\ tracker \in [Spaces -> [Packets -> Fate]]
  /\ recovery \in [Spaces -> [Packets -> Fate]]
  /\ eliciting \in [Spaces -> [Packets -> BOOLEAN]]
  /\ age \in [Spaces -> [Packets -> 0..MaxAge]]
  /\ carries \in [Spaces -> [Packets -> BOOLEAN]]
  /\ largest \in [Spaces -> Packets \union {None}]
  /\ loss_delay \in LossDelays \union {None}
  /\ pto \in [Spaces -> PtoDelays]
  /\ confirmed \in BOOLEAN
  /\ discarded \in SUBSET Spaces
  /\ acked_calls \in [Spaces -> [Packets -> Nat]]
  /\ lost_calls \in [Spaces -> [Packets -> Nat]]

(* The two lists of sent packets, kept by different classes and updated on *)
(* different paths (ACK, packet threshold, time threshold, PTO, discard),  *)
(* agree on the state of every packet.                                     *)
RecordsAgree == \A s \in Spaces, p \in Packets : tracker[s][p] = recovery[s][p]

(* A stream learns the fate of each packet that carries its data exactly   *)
(* once and is told the fate that was recorded: never both on_acked() and  *)
(* on_lost(), never one of them twice, whatever ACKs and timers race.      *)
OneOutcome ==
  \A s \in Spaces, p \in Packets :
    /\ acked_calls[s][p] + lost_calls[s][p] <= 1
    /\ carries[s][p] => /\ acked_calls[s][p] = (IF recovery[s][p] = "acknowledged" THEN 1 ELSE 0)
                        /\ lost_calls[s][p] = (IF recovery[s][p] = "lost" THEN 1 ELSE 0)

(* A packet that is not ack-eliciting is never declared lost: the peer     *)
(* owes no ACK for it.                                                     *)
AckOnlyNeverLost == \A s \in Spaces, p \in Packets : recovery[s][p] = "lost" => eliciting[s][p]

(* The fate of a packet is final until its space is discarded: a late ACK  *)
(* of a lost packet and a timer after the ACK change nothing.              *)
FateIsFinal ==
  [][\A s \in Spaces, p \in Packets :
       recovery[s][p] \in {"acknowledged", "lost"} =>
         recovery'[s][p] \in {recovery[s][p], "absent"}]_vars

(* Every ack-eliciting packet is eventually acknowledged, declared lost or *)
(* dropped with its space, once its space may use the PTO: no packet is    *)
(* left outstanding without a timer.                                       *)
Resolved ==
  \A s \in Spaces, p \in Packets :
    (recovery[s][p] = "outstanding" /\ eliciting[s][p] /\ pto_allowed(s))
      ~> recovery[s][p] # "outstanding"
=============================================================================
