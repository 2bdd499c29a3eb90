------------------------ MODULE ConnectionLifecycle -------------------------
(***************************************************************************)
(* The life of a connection: active, closing or draining, closed           *)
(* (include/flowq/quic/connection.hpp), seen through session.hpp, whose    *)
(* calls hand every action to the application at once, and driven by the   *)
(* scheduler of timer_scheduler.hpp, whose operation arms one timer and    *)
(* reports its deadline, not the time, when it fires.                      *)
(*                                                                         *)
(* Of a packet only its effect on the life of the connection is kept; of   *)
(* loss recovery only how many packets wait for a timer and its deadline.  *)
(***************************************************************************)
EXTENDS Integers

CONSTANTS
  IdleTimeout,      \* max_idle_timeout, 0 for none
  CloseTimeout,     \* closing_draining_timeout
  SendLag,          \* the longest delay from making a sender to its start()
  MaxPackets,       \* bound: packets that wait for a recovery timer
  Quiet,            \* bound: no packet and no cancel() after this time
  MaxTime,          \* bound: the clock stops here, for any later time
  None              \* an optional without a value

ASSUME LifecycleConstants ==
  /\ {IdleTimeout, CloseTimeout, SendLag, MaxPackets, Quiet, MaxTime} \subseteq Nat
  /\ Quiet + IdleTimeout <= MaxTime
  /\ None \notin Nat

VARIABLES
  now,
  state,
  last_activity,    \* last_activity_at_
  entered,          \* close_state_entered_at_
  waiting,          \* ack-eliciting packets outstanding
  recovery,         \* deadline of the recovery timer, if any packet waits
  armed,            \* fired_ of the scheduler operation, None without one
  closes,           \* close actions handed to the application
  heard,            \* the real time of the last packet that counts as activity:
                    \* received, or sent by flush()
  received,         \* the real time at which a packet was last received
  left,             \* the real time at which the active state was left
  idled             \* it was the idle timer that ended it

vars == <<now, state, last_activity, entered, waiting, recovery, armed, closes,
          heard, received, left, idled>>

history == <<heard, received, left, idled>>

Kinds == {"idle", "closing", "draining", "recovery"}

(* The time d after t, on a clock that stops at MaxTime. *)
Later(t, d) == IF t + d <= MaxTime THEN t + d ELSE MaxTime

Timer(k, d) == [kind |-> k, deadline |-> d]

(* A closing or draining connection handles packets and calls, too. *)
active_until_closed == state # "closed"

active == state = "active"

(* enter_closing() and enter_draining(): the spaces are cleared and the    *)
(* close action goes out.  What is recorded is the time at, not now.       *)
enter(s, at) ==
  /\ state' = s
  /\ entered' = at /\ left' = now
  /\ waiting' = 0 /\ recovery' = None
  /\ closes' = closes + 1

enter_closed ==
  /\ state' = "closed"
  /\ entered' = None
  /\ waiting' = 0 /\ recovery' = None
  /\ UNCHANGED <<closes, left>>

(* Loss recovery after a packet was sent or an ACK received. *)
recovery_changes ==
  /\ waiting' \in 0..MaxPackets
  /\ recovery' \in IF waiting' = 0 THEN {None} ELSE 0..MaxTime

-----------------------------------------------------------------------------
(* on_datagram(). *)

receive_packet ==
  /\ active /\ now <= Quiet
  /\ last_activity' = now /\ heard' = now /\ received' = now
  /\ recovery_changes
  /\ UNCHANGED <<now, state, entered, armed, closes, left, idled>>

(* A malformed packet or one that violates the protocol, after others of   *)
(* the datagram perhaps.                                                   *)
receive_error ==
  /\ active /\ now <= Quiet
  /\ enter("closing", now)
  /\ last_activity' \in {last_activity, now}
  /\ UNCHANGED <<now, armed, heard, received, idled>>

(* CONNECTION_CLOSE, APPLICATION_CLOSE or a stateless reset. *)
receive_close ==
  /\ active /\ now <= Quiet
  /\ enter("draining", now)
  /\ last_activity' \in {last_activity, now}
  /\ UNCHANGED <<now, armed, heard, received, idled>>

-----------------------------------------------------------------------------
(* Sending.  The time a sender passes on is the one at which it was made,  *)
(* lag before it is started.                                               *)

mark_activity(at) == last_activity' = at

(* flush_space() of flush(), with any frames that were queued. *)
flush(lag) ==
  /\ active /\ now <= Quiet /\ lag <= now
  /\ mark_activity(now - lag) /\ heard' = now
  /\ recovery_changes
  /\ UNCHANGED <<now, state, entered, armed, closes, received, left, idled>>

(* A packet cannot be assembled, or TLS fails, in flush() or acknowledge().*)
send_error(lag) ==
  /\ active /\ now <= Quiet /\ lag <= now
  /\ enter("closing", now - lag)
  /\ last_activity' \in {last_activity, now - lag}
  /\ UNCHANGED <<now, armed, heard, received, idled>>

(* clear_packet_space(): the packets of the space wait no longer. *)
clear_packet_space ==
  /\ waiting' \in 0..waiting - 1
  /\ recovery' \in IF waiting' = 0 THEN {None} ELSE 0..MaxTime

(* acknowledge() sends a packet with an ACK frame only: no packet waits    *)
(* for it, and it is no activity.  refresh_key_lifecycle() may discard.    *)
acknowledge ==
  /\ active /\ now <= Quiet
  /\ clear_packet_space \/ UNCHANGED <<waiting, recovery>>
  /\ UNCHANGED <<now, state, last_activity, entered, armed, closes, history>>

(* discard_packet_space(), or another call that learns of new keys. *)
discard_packet_space ==
  /\ waiting > 0
  /\ clear_packet_space
  /\ UNCHANGED <<now, state, last_activity, entered, armed, closes, history>>

-----------------------------------------------------------------------------
(* Timers. *)

started_at(at) == IF last_activity = None THEN at ELSE last_activity

(* The closing period runs from the last packet, not from the close. *)
timer_from_activity(at) ==
  CASE state = "closed" -> None
    [] state = "active" -> IF IdleTimeout = 0 THEN None
                           ELSE Timer("idle", Later(started_at(at), IdleTimeout))
    [] OTHER -> Timer(state, Later(started_at(at), CloseTimeout))

next_lifecycle_timer(at) ==
  CASE state = "closed" -> None
    [] state = "active" -> IF IdleTimeout = 0 THEN None
                           ELSE Timer("idle", Later(started_at(at), IdleTimeout))
    [] OTHER -> Timer(state, Later(entered, CloseTimeout))

(* next_lifecycle_timer() starts the idle period at the first call. *)
idle_period_starts(at) ==
  last_activity' = IF active /\ IdleTimeout > 0 THEN started_at(at) ELSE last_activity

next_recovery_timer == IF active /\ waiting > 0 THEN Timer("recovery", recovery) ELSE None

select_quic_timer(r, l) ==
  IF l # None /\ (r = None \/ l.deadline <= r.deadline) THEN l ELSE r

(* start() of the scheduler operation. *)
start(lag) ==
  /\ armed = None /\ lag <= now
  /\ armed' = select_quic_timer(next_recovery_timer, next_lifecycle_timer(now - lag))
  /\ idle_period_starts(now - lag)
  /\ UNCHANGED <<now, state, entered, waiting, recovery, closes, history>>

cancel ==
  /\ armed # None /\ now <= Quiet
  /\ armed' = None
  /\ UNCHANGED <<now, state, last_activity, entered, waiting, recovery, closes, history>>

(* The timer armed is taken for the one that is due. *)
expires_unchecked(k, at) == k # "recovery" /\ next_lifecycle_timer(at) # None

(* A timer is due only after its deadline. *)
expires_after(k, at) ==
  LET t == next_lifecycle_timer(at)
  IN  t # None /\ t.kind = k /\ at > t.deadline

(* The timer that is due now is of the kind that fired. *)
expires(k, at) ==
  LET t == next_lifecycle_timer(at)
  IN  t # None /\ t.kind = k /\ at >= t.deadline

on_lifecycle_timer(k, at) ==
  /\ idle_period_starts(at)
  /\ CASE expires(k, at) /\ k = "idle" /\ active ->
              enter("closing", at) /\ idled' = TRUE
       [] expires(k, at) /\ k # "idle" /\ k = state ->
              enter_closed /\ UNCHANGED idled
       [] OTHER -> UNCHANGED <<state, entered, waiting, recovery, closes, left, idled>>

(* At least the oldest packet is lost if the deadline has come. *)
on_recovery_timer(at) ==
  /\ IF active /\ waiting > 0 /\ at >= recovery
     THEN /\ waiting' \in 0..waiting - 1
          /\ recovery' \in IF waiting' = 0 THEN {None} ELSE recovery..MaxTime
     ELSE UNCHANGED <<waiting, recovery>>
  /\ UNCHANGED <<state, last_activity, entered, closes, left, idled>>

(* complete_wait(), however long after the deadline. *)
fire ==
  /\ armed # None /\ armed.deadline <= now
  /\ armed' = None
  /\ IF armed.kind = "recovery" THEN on_recovery_timer(armed.deadline)
     ELSE on_lifecycle_timer(armed.kind, armed.deadline)
  /\ UNCHANGED <<now, heard, received>>

Tick ==
  /\ now < MaxTime
  /\ now' = now + 1
  /\ UNCHANGED <<state, last_activity, entered, waiting, recovery, armed, closes, history>>

-----------------------------------------------------------------------------
Init ==
  /\ now = 0
  /\ state = "active"
  /\ last_activity = None
  /\ entered = None
  /\ waiting = 0 /\ recovery = None
  /\ armed = None
  /\ closes = 0
  /\ heard = 0 /\ received = 0
  /\ left = None /\ idled = FALSE

Next ==
  \/ receive_packet \/ receive_error \/ receive_close
  \/ \E lag \in 0..SendLag : flush(lag) \/ send_error(lag) \/ start(lag)
  \/ acknowledge \/ discard_packet_space \/ fire \/ cancel \/ Tick

Spec == Init /\ [][Next]_vars

(* Time passes, the Asio timer that has expired completes its operation,   *)
(* and the application starts another one when none is left.               *)
Fairness ==
  /\ WF_vars(Tick) /\ WF_vars(fire)
  /\ WF_vars(\E lag \in 0..SendLag : start(lag))

FairSpec == Spec /\ Fairness

-----------------------------------------------------------------------------
(* The members have their types; a connection that closes knows since when.*)
TypeOK ==
  /\ now \in Nat /\ heard \in 0..now /\ received \in 0..heard
  /\ state \in {"active", "closing", "draining", "closed"}
  /\ last_activity \in 0..now \union {None}
  /\ entered \in Nat \union {None}
  /\ (entered # None) <=> state \in {"closing", "draining"}
  /\ waiting \in Nat
  /\ recovery \in Nat \union {None}
  /\ (recovery # None) <=> waiting > 0
  /\ armed \in [kind : Kinds, deadline : Nat] \union {None}
  /\ closes \in Nat
  /\ left \in 0..now \union {None}
  /\ (left = None) <=> active
  /\ idled \in BOOLEAN

(* The application is told exactly once that the connection is closed,     *)
(* however errors, closes by the peer and timers race, and is told before  *)
(* the state is dropped.                                                   *)
OneCloseReported == closes = IF state = "active" THEN 0 ELSE 1

(* The connection only moves on: active, closing or draining, closed.  A   *)
(* late packet neither revives it nor takes it from closing to draining.   *)
OnlyForward ==
  [][state' # state => \/ state = "active" /\ state' \in {"closing", "draining"}
                       \/ state \in {"closing", "draining"} /\ state' = "closed"]_vars

(* A timer that fires late, or was armed before the last packet, closes    *)
(* the connection only after IdleTimeout without a packet received or sent *)
(* by flush(), but for the delay between making a sender and starting it.  *)
(* The packets of acknowledge() do not put it off.                         *)
IdleTimedOut ==
  [][state = "active" /\ armed' # armed /\ state' = "closing"
       => now - heard >= IdleTimeout - SendLag]_vars

(* What a test says: a packet that arrives restarts the idle period.       *)
InboundRestartsIdle ==
  [][state = "active" /\ armed' # armed /\ state' = "closing"
       => now - received >= IdleTimeout]_vars

(* By the clock, not by the times the connection recorded, its state is    *)
(* forgotten only closing_draining_timeout after an error or a close ended *)
(* it, or both timeouts after the last activity when the idle timer did,   *)
(* but for the delay of a sender: a timer armed while it was active, or    *)
(* for a packet, does not end it.                                          *)
NotClosedEarly ==
  [][state' = "closed" /\ state # "closed"
       => now >= IF idled THEN Later(heard - SendLag, IdleTimeout + CloseTimeout)
                 ELSE Later(left - SendLag, CloseTimeout)]_vars

(* The same for an idle timer: its closing period lasts CloseTimeout, too. *)
FullClosingPeriod ==
  [][state' = "closed" /\ state # "closed"
       => now >= Later(left - SendLag, CloseTimeout)]_vars

(* Once the peers are silent the connection ends up closed: the one timer  *)
(* that is armed at a time always leads to the next.                       *)
EventuallyClosed == <>(state = "closed")
=============================================================================
