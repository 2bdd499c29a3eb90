----------------------------- MODULE Congestion -----------------------------
(***************************************************************************)
(* Loss recovery together with the congestion controller of the connection *)
(* (include/flowq/quic/congestion_algorithms.hpp, congestion.hpp): every   *)
(* step of Recovery with the calls it makes to on_packet_sent(),           *)
(* on_packet_acknowledged(), on_packet_lost() and on_congestion_event().   *)
(*                                                                         *)
(* Sizes are in a unit of which a full datagram has MaxDatagram; the       *)
(* counter of bytes in flight is a Width-ary word.  The growth of the      *)
(* CUBIC window over time is any growth up to MaxWindow.  Pacing, which    *)
(* only delays a flush, is left out.                                       *)
(***************************************************************************)
EXTENDS Recovery, FiniteSets

CONSTANTS
  Algorithm,        \* "new_reno", "cubic" or "bbr"
  Sizes,            \* sizes of the datagrams assembled
  MaxDatagram,      \* pipeline.max_datagram_size, the size of every release
  InitialWindow,    \* initial congestion window
  MinWindow,        \* minimum congestion window
  MaxWindow,        \* bound: a window that grows stops here
  Width             \* number of values of the counter of bytes in flight

ASSUME CongestionConstants ==
  /\ Algorithm \in {"new_reno", "cubic", "bbr"}
  /\ {MaxDatagram, InitialWindow, MinWindow, MaxWindow, Width} \subseteq Nat \ {0}
  /\ Sizes \subseteq 1..MaxDatagram
  /\ MinWindow <= InitialWindow /\ InitialWindow <= MaxWindow
  /\ 2 * MaxWindow < Width

VARIABLES
  bytes_in_flight,
  congestion_window,
  slow_start,       \* phase is slow_start
  bytes_sent        \* sum of the sizes passed to on_packet_sent()

congestion_vars == <<bytes_in_flight, congestion_window, slow_start, bytes_sent>>

all_vars == <<vars, congestion_vars>>

can_send == bytes_in_flight < congestion_window

on_packet_sent(size, is_eliciting) ==
  LET counted == IF Algorithm = "new_reno" /\ ~is_eliciting THEN 0 ELSE size
  IN  /\ bytes_in_flight' = (bytes_in_flight + counted) % Width
      /\ bytes_sent' = bytes_sent + counted

(* The subtraction without its guard in the NewReno controller. *)
released_unguarded(n) == (bytes_in_flight - n * MaxDatagram) % Width

(* The bytes left in flight after n releases of a datagram. *)
released(n) ==
  IF Algorithm = "new_reno" /\ bytes_in_flight < n * MaxDatagram
  THEN 0
  ELSE (bytes_in_flight - n * MaxDatagram) % Width

(* on_congestion_event(): the window, cut but not below its minimum. *)
reduced(w) == Larger(IF Algorithm = "cubic" THEN (7 * w) \div 10 ELSE w \div 2, MinWindow)

(* on_packet_lost() of CUBIC and BBR cuts the window, too. *)
reduced_for(losses) ==
  LET cuts == IF Algorithm = "new_reno" THEN 1 ELSE losses + 1
      after[n \in 0..cuts] == IF n = 0 THEN congestion_window ELSE reduced(after[n - 1])
  IN  after[cuts]

grown ==
  CASE Algorithm = "bbr" -> {congestion_window}
    [] slow_start -> {congestion_window + MaxDatagram}
    [] Algorithm = "cubic" -> congestion_window .. Larger(MaxWindow, congestion_window)
    [] OTHER -> {congestion_window + (MaxDatagram * MaxDatagram) \div congestion_window}

-----------------------------------------------------------------------------
FlushSpace(s, e, r, size) ==
  /\ can_send
  /\ flush_space(s, e, r)
  /\ on_packet_sent(size, e)
  /\ UNCHANGED <<congestion_window, slow_start>>

Acknowledge(s) == acknowledge(s) /\ UNCHANGED congestion_vars

(* One on_packet_acknowledged() for all the packets of a frame, and one    *)
(* on_congestion_event() for all that it shows to be lost.                 *)
ApplyAckFrames(s, acked, top) ==
  LET any_acked == newly_acknowledged(s, acked) # {}
      any_lost == newly_lost(s, acked, top) # {}
  IN  /\ apply_ack_frames(s, acked, top)
      /\ bytes_in_flight' = IF any_acked THEN released(1) ELSE bytes_in_flight
      /\ \E w \in IF any_acked THEN grown ELSE {congestion_window} :
           congestion_window' = IF any_lost THEN reduced(w) ELSE w
      /\ slow_start' = (slow_start /\ CASE Algorithm = "new_reno" -> ~any_lost
                                       [] Algorithm = "cubic" -> ~any_acked
                                       [] Algorithm = "bbr" -> TRUE)
      /\ UNCHANGED bytes_sent

(* A timer that is a congestion event even when nothing is lost. *)
TimerIsCongestion(s) ==
  /\ on_recovery_timer(s)
  /\ bytes_in_flight' = released(Cardinality(timer_losses(s)))
  /\ congestion_window' = reduced_for(Cardinality(timer_losses(s)))
  /\ slow_start' = FALSE
  /\ UNCHANGED bytes_sent

(* One on_packet_lost() for each loss and one on_congestion_event().       *)
OnRecoveryTimer(s) ==
  LET losses == Cardinality(timer_losses(s))
  IN  /\ on_recovery_timer(s)
      /\ IF losses = 0
         THEN UNCHANGED <<bytes_in_flight, congestion_window, slow_start>>
         ELSE /\ bytes_in_flight' = released(losses)
              /\ congestion_window' = reduced_for(losses)
              /\ slow_start' = FALSE
      /\ UNCHANGED bytes_sent

DiscardPacketSpace(s) == discard_packet_space(s) /\ UNCHANGED congestion_vars

ConfirmHandshake == confirm_handshake /\ UNCHANGED congestion_vars

TimePasses == Tick /\ UNCHANGED congestion_vars

CongestionInit ==
  /\ Init
  /\ bytes_in_flight = 0
  /\ congestion_window = InitialWindow
  /\ slow_start = TRUE
  /\ bytes_sent = 0

(* The peer acknowledges packets that were sent. *)
CongestionNext ==
  \/ \E s \in Spaces, e, r \in BOOLEAN, size \in Sizes : FlushSpace(s, e, r, size)
  \/ \E s \in Spaces : Acknowledge(s)
  \/ \E s \in Spaces : \E top \in 0..next_pn[s] - 1 : \E rest \in SUBSET (0..top - 1) :
       ApplyAckFrames(s, rest \union {top}, top)
  \/ \E s \in Spaces : OnRecoveryTimer(s)
  \/ \E s \in Spaces : DiscardPacketSpace(s)
  \/ ConfirmHandshake
  \/ TimePasses

CongestionSpec == CongestionInit /\ [][CongestionNext]_all_vars

(* The fairness of Recovery: time passes and a timer that is due is        *)
(* serviced.                                                               *)
CongestionFairness ==
  /\ WF_all_vars(TimePasses)
  /\ \A s \in Spaces : WF_all_vars(timer_due(s) /\ OnRecoveryTimer(s))

FairCongestionSpec == CongestionSpec /\ CongestionFairness

-----------------------------------------------------------------------------
(* The window stays at or above the minimum window in which the connection *)
(* can make progress, and the counter is a word.                           *)
CongestionTypeOK ==
  /\ bytes_in_flight \in 0..Width - 1
  /\ congestion_window \in Nat /\ congestion_window >= MinWindow
  /\ slow_start \in BOOLEAN
  /\ bytes_sent \in Nat

(* The controller never believes more bytes in flight than were sent: the  *)
(* release of a full datagram for an ACK of smaller packets, or of packets *)
(* that were never counted, does not wrap the counter around.              *)
InFlightWasSent == bytes_in_flight <= bytes_sent

(* When no packet is outstanding that an ACK or a timer could still        *)
(* release, and no space was discarded, the window is open: no event of    *)
(* the sender's own would open it again.                                   *)
NoStall == discarded = {} /\ (\A s \in Spaces : waiting(s) = {}) => can_send

(* The congestion window is reduced only by a step that also declares a    *)
(* packet lost.                                                            *)
ReducedOnlyByLoss ==
  [][congestion_window' < congestion_window =>
       \E s \in Spaces, p \in Packets : recovery[s][p] = "outstanding" /\ recovery'[s][p] = "lost"]_all_vars
=============================================================================
