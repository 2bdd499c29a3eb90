--------------------- MODULE ConnectionLifecycleProofs ----------------------
(***************************************************************************)
(* Proofs about ConnectionLifecycle for every timeout, lag and bound.      *)
(***************************************************************************)
EXTENDS ConnectionLifecycle, TLAPS

(* The recorded time of the last activity is behind the real one by at     *)
(* most the lag of a sender, and packets stop at Quiet.                    *)
ActivityFollows ==
  /\ heard <= Quiet
  /\ IF last_activity = None THEN heard = 0 ELSE heard <= last_activity + SendLag

(* The recorded time of the close is behind the real one by at most that   *)
(* lag, and behind the last activity by the idle timeout when an idle      *)
(* timer closed, however late the timer fired.                             *)
CloseFollows ==
  /\ active => ~idled
  /\ entered # None =>
       entered >= IF idled THEN Later(heard - SendLag, IdleTimeout) ELSE left - SendLag

IInv == TypeOK /\ OneCloseReported /\ ActivityFollows /\ CloseFollows

(* A later time is a time, and one of the clock's if the earlier one is.   *)
LEMMA LaterIsTime ==
  ASSUME NEW t \in Nat, NEW d \in Nat
  PROVE  Later(t, d) \in Nat
  BY LifecycleConstants DEF Later

(* What the armed timer can be: what select_quic_timer() returns is a      *)
(* timer of one of the four kinds, or nothing.                             *)
LEMMA SelectedTimer ==
  ASSUME TypeOK, NEW at \in Nat
  PROVE  select_quic_timer(next_recovery_timer, next_lifecycle_timer(at))
           \in [kind : Kinds, deadline : Nat] \union {None}
<1> DEFINE T == [kind : Kinds, deadline : Nat]
<1>1. next_recovery_timer \in T \union {None}
  BY LifecycleConstants DEF next_recovery_timer, Timer, Kinds, TypeOK
<1>2. started_at(at) \in Nat
  BY LifecycleConstants DEF started_at, TypeOK
<1>3. next_lifecycle_timer(at) \in T \union {None}
  <2>1. CASE state \in {"closed", "active"}
    BY <2>1, <1>2, LaterIsTime, LifecycleConstants
    DEF next_lifecycle_timer, Timer, Kinds
  <2>2. CASE state \in {"closing", "draining"}
    <3>1. entered \in Nat
      BY <2>2 DEF TypeOK
    <3> QED
      BY <2>2, <3>1, LaterIsTime, LifecycleConstants
      DEF next_lifecycle_timer, Timer, Kinds
  <2> QED
    BY <2>1, <2>2 DEF TypeOK
<1> QED
  BY <1>1, <1>3 DEF select_quic_timer

(* The invariant holds at the start. *)
LEMMA InitIInv == Init => IInv
<1> SUFFICES ASSUME Init PROVE IInv
  OBVIOUS
<1>1. TypeOK
  <2>1. left \in 0..now \union {None} /\ ((left = None) <=> active) /\ idled \in BOOLEAN
    BY Zenon DEF Init, active
  <2> QED
    BY <2>1, LifecycleConstants DEF Init, TypeOK
<1>2. OneCloseReported /\ ActivityFollows /\ CloseFollows
  BY LifecycleConstants DEF Init, OneCloseReported, ActivityFollows, CloseFollows
<1> QED
  BY <1>1, <1>2 DEF IInv

(* When an idle timer closes the connection, its deadline is IdleTimeout   *)
(* after the last activity, less the lag: on_lifecycle_timer() computes    *)
(* the deadline anew, so a timer that was armed earlier does no harm.      *)
LEMMA IdleDeadline ==
  ASSUME IInv, active, NEW k, NEW at \in Nat, expires(k, at)
  PROVE  IdleTimeout > 0 /\ at >= Later(heard - SendLag, IdleTimeout)
<1>1. IdleTimeout > 0 /\ at >= Later(started_at(at), IdleTimeout)
  BY LifecycleConstants DEF expires, next_lifecycle_timer, Timer, active
<1>2. /\ heard \in Nat /\ started_at(at) \in Nat
      /\ heard <= started_at(at) + SendLag
  BY LifecycleConstants DEF IInv, TypeOK, ActivityFollows, started_at
<1> QED
  BY <1>1, <1>2, LifecycleConstants DEF Later

(* A step in which the connection stays as it is and is not active, or     *)
(* that changes nothing a close depends on, keeps what is known of it.     *)
LEMMA CloseKept ==
  ASSUME IInv, UNCHANGED <<state, entered, left, idled>>,
         heard' = heard \/ active
  PROVE  CloseFollows'
  BY DEF IInv, TypeOK, CloseFollows, active

(* A close by a packet, an error or a call is recorded at most SendLag     *)
(* before it happens.                                                      *)
LEMMA CloseRecorded ==
  ASSUME IInv, active, NEW s, NEW at, at >= now - SendLag,
         enter(s, at), s # "active", UNCHANGED idled
  PROVE  CloseFollows'
  BY LifecycleConstants DEF IInv, TypeOK, CloseFollows, active, enter

(* No step of loss recovery, of a packet or of a timer disturbs it. *)
LEMMA NextIInv == IInv /\ [Next]_vars => IInv'
<1> SUFFICES ASSUME IInv, [Next]_vars PROVE IInv'
  OBVIOUS
<1> DEFINE Others == TypeOK /\ OneCloseReported /\ ActivityFollows
<1>a. Others' /\ CloseFollows' => IInv'
  BY DEF IInv
<1>b. Others /\ now \in Nat
  BY DEF IInv, TypeOK
<1> USE LifecycleConstants
<1>1. CASE receive_packet
  <2>1. Others'
    BY <1>1, <1>b DEF receive_packet, recovery_changes, active, TypeOK, OneCloseReported,
                ActivityFollows
  <2>2. CloseFollows'
    BY <1>1, CloseKept DEF receive_packet
  <2> QED
    BY <2>1, <2>2, <1>a
<1>2. CASE receive_error
  <2>1. Others'
    BY <1>2, <1>b DEF receive_error, enter, active, TypeOK, OneCloseReported, ActivityFollows
  <2>2. CloseFollows'
    BY <1>2, <1>b, CloseRecorded, now >= now - SendLag DEF receive_error
  <2> QED
    BY <2>1, <2>2, <1>a
<1>3. CASE receive_close
  <2>1. Others'
    BY <1>3, <1>b DEF receive_close, enter, active, TypeOK, OneCloseReported, ActivityFollows
  <2>2. CloseFollows'
    BY <1>3, <1>b, CloseRecorded, now >= now - SendLag DEF receive_close
  <2> QED
    BY <2>1, <2>2, <1>a
<1>4. ASSUME NEW lag \in 0..SendLag, flush(lag) PROVE IInv'
  <2>1. Others'
    BY <1>4, <1>b DEF flush, mark_activity, recovery_changes, active, TypeOK,
                OneCloseReported, ActivityFollows
  <2>2. CloseFollows'
    BY <1>4, CloseKept DEF flush
  <2> QED
    BY <2>1, <2>2, <1>a
<1>5. ASSUME NEW lag \in 0..SendLag, send_error(lag) PROVE IInv'
  <2>1. Others'
    BY <1>5, <1>b DEF send_error, enter, active, TypeOK, OneCloseReported, ActivityFollows
  <2>2. CloseFollows'
    BY <1>5, <1>b, CloseRecorded, now - lag >= now - SendLag DEF send_error
  <2> QED
    BY <2>1, <2>2, <1>a
<1>6. ASSUME NEW lag \in 0..SendLag, start(lag) PROVE IInv'
  <2>1. Others'
    BY <1>6, <1>b, SelectedTimer, now - lag \in Nat
    DEF start, idle_period_starts, started_at, active, TypeOK, OneCloseReported,
        ActivityFollows, history
  <2>2. CloseFollows'
    BY <1>6, CloseKept DEF start, history
  <2> QED
    BY <2>1, <2>2, <1>a
<1>7. CASE discard_packet_space \/ acknowledge
  <2>1. Others'
    BY <1>7, <1>b DEF discard_packet_space, acknowledge, clear_packet_space, active, TypeOK,
                OneCloseReported, ActivityFollows, history
  <2>2. CloseFollows'
    BY <1>7, CloseKept DEF discard_packet_space, acknowledge, history
  <2> QED
    BY <2>1, <2>2, <1>a
<1>8. CASE cancel \/ Tick
  <2>1. Others'
    BY <1>8, <1>b DEF cancel, Tick, active, TypeOK, OneCloseReported, ActivityFollows, history
  <2>2. CloseFollows'
    BY <1>8, CloseKept DEF cancel, Tick, history
  <2> QED
    BY <2>1, <2>2, <1>a
<1>9. CASE fire
  <2> DEFINE at == armed.deadline
  <2>1. /\ at \in Nat /\ at <= now /\ armed.kind \in Kinds
        /\ armed' = None /\ UNCHANGED <<now, heard, received>>
    BY <1>9, <1>b DEF fire, TypeOK
  <2> HIDE DEF at
  <2>2. CASE armed.kind = "recovery"
    <3>1. on_recovery_timer(at)
      BY <1>9, <2>2 DEF fire, at
    <3>2. Others'
      BY <1>b, <2>1, <3>1 DEF on_recovery_timer, active, TypeOK, OneCloseReported,
                        ActivityFollows
    <3>3. CloseFollows'
      BY <2>1, <3>1, CloseKept DEF on_recovery_timer
    <3> QED
      BY <3>2, <3>3, <1>a
  <2>3. CASE armed.kind # "recovery"
    <3>1. on_lifecycle_timer(armed.kind, at)
      BY <1>9, <2>3 DEF fire, at
    <3>2. /\ last_activity' \in 0..now \union {None}
          /\ ActivityFollows'
      BY <1>b, <2>1, <3>1
      DEF on_lifecycle_timer, idle_period_starts, started_at, TypeOK, ActivityFollows
    <3>3. CASE active /\ expires(armed.kind, at) /\ enter("closing", at) /\ idled' = TRUE
      <4>1. Others'
        BY <1>b, <2>1, <3>2, <3>3 DEF enter, active, TypeOK, OneCloseReported
      <4>2. CloseFollows'
        BY <2>1, <3>3, IdleDeadline DEF CloseFollows, enter, active
      <4> QED
        BY <4>1, <4>2, <1>a
    <3>4. CASE state \in {"closing", "draining"} /\ enter_closed /\ UNCHANGED idled
      <4>1. Others'
        BY <1>b, <2>1, <3>2, <3>4 DEF enter_closed, active, TypeOK, OneCloseReported
      <4>2. CloseFollows'
        BY <3>4 DEF CloseFollows, enter_closed, active
      <4> QED
        BY <4>1, <4>2, <1>a
    <3>5. CASE UNCHANGED <<state, entered, waiting, recovery, closes, left, idled>>
      <4>1. Others'
        BY <1>b, <2>1, <3>2, <3>5 DEF active, TypeOK, OneCloseReported
      <4>2. CloseFollows'
        BY <2>1, <3>5, CloseKept
      <4> QED
        BY <4>1, <4>2, <1>a
    <3> QED
      BY <2>1, <2>3, <3>1, <3>3, <3>4, <3>5, Zenon DEF on_lifecycle_timer, active, Kinds
  <2> QED
    BY <2>2, <2>3
<1>10. CASE UNCHANGED vars
  <2>1. Others'
    BY <1>10, <1>b DEF vars, active, TypeOK, OneCloseReported, ActivityFollows
  <2>2. CloseFollows'
    BY <1>10, CloseKept DEF vars
  <2> QED
    BY <2>1, <2>2, <1>a
<1> QED
  BY <1>1, <1>2, <1>3, <1>4, <1>5, <1>6, <1>7, <1>8, <1>9, <1>10 DEF Next

(* Types, and exactly one close reported, whatever the order of packets,   *)
(* errors, closes and timers.                                              *)
THEOREM LifecycleSafe == Spec => [](TypeOK /\ OneCloseReported)
<1>1. IInv => TypeOK /\ OneCloseReported
  BY DEF IInv
<1> QED
  BY InitIInv, NextIInv, <1>1, PTL DEF Spec

(* No step goes back: closing and draining lead only to closed, and closed *)
(* to nothing.                                                             *)
THEOREM LifecycleOnlyForward == Spec => OnlyForward
<1> DEFINE Forward == state' # state =>
             \/ state = "active" /\ state' \in {"closing", "draining"}
             \/ state \in {"closing", "draining"} /\ state' = "closed"
<1>1. IInv /\ [Next]_vars => [Forward]_vars
  <2> SUFFICES ASSUME IInv, Next PROVE Forward
    BY DEF vars
  <2>1. CASE fire
    <3>1. armed.kind \in Kinds
      BY <2>1 DEF fire, IInv, TypeOK
    <3> QED
      BY <2>1, <3>1 DEF fire, on_recovery_timer, on_lifecycle_timer, enter,
                        enter_closed, active, Kinds
  <2>2. CASE ~fire
    BY <2>2 DEF Next, receive_packet, receive_error, receive_close, flush, send_error,
                start, acknowledge, discard_packet_space, cancel, Tick, enter, active
  <2> QED
    BY <2>1, <2>2
<1> QED
  BY InitIInv, NextIInv, <1>1, PTL DEF Spec, OnlyForward

(* A connection times out as idle only after IdleTimeout without a packet  *)
(* received or sent by flush(), less the lag of a sender, whatever timer   *)
(* was armed and however late it fires; what acknowledge() sends does not  *)
(* count, and does not put the timeout off.                                *)
THEOREM LifecycleIdle == Spec => IdleTimedOut
<1> DEFINE Idle == state = "active" /\ armed' # armed /\ state' = "closing"
                     => now - heard >= IdleTimeout - SendLag
<1>1. IInv /\ [Next]_vars => [Idle]_vars
  <2> SUFFICES ASSUME IInv, Next, state = "active", armed' # armed, state' = "closing"
               PROVE  now - heard >= IdleTimeout - SendLag
    BY DEF vars
  <2>1. fire
    BY DEF Next, receive_packet, receive_error, receive_close, flush, send_error,
           start, acknowledge, discard_packet_space, cancel, Tick
  <2> DEFINE at == armed.deadline
  <2>2. /\ at \in Nat /\ at <= now
        /\ now \in Nat /\ heard \in Nat /\ heard <= Quiet
    BY <2>1 DEF fire, IInv, TypeOK, ActivityFollows
  <2> HIDE DEF at
  <2>3. expires(armed.kind, at) /\ active
    BY <2>1 DEF fire, on_recovery_timer, on_lifecycle_timer, active, at
  <2>4. at >= Later(heard - SendLag, IdleTimeout)
    BY <2>2, <2>3, IdleDeadline
  <2> QED
    BY <2>2, <2>4, LifecycleConstants DEF Later
<1> QED
  BY InitIInv, NextIInv, <1>1, PTL DEF Spec, IdleTimedOut

(* By the clock, the state of a connection is forgotten only CloseTimeout  *)
(* after an error or a close ended it, or both timeouts after the last     *)
(* activity when the idle timer did, less the lag of a sender:             *)
(* on_lifecycle_timer() asks next_lifecycle_timer() anew, so a timer that  *)
(* was armed while the connection was active, or for a packet, does not    *)
(* end it early.                                                           *)
THEOREM LifecycleNotClosedEarly == Spec => NotClosedEarly
<1> DEFINE Due == IF idled THEN Later(heard - SendLag, IdleTimeout + CloseTimeout)
                  ELSE Later(left - SendLag, CloseTimeout)
           Early == state' = "closed" /\ state # "closed" => now >= Due
<1>1. IInv /\ [Next]_vars => [Early]_vars
  <2> SUFFICES ASSUME IInv, Next, state' = "closed", state # "closed"
               PROVE  now >= Due
    BY DEF vars
  <2>1. fire
    BY DEF Next, receive_packet, receive_error, receive_close, flush, send_error,
           start, acknowledge, discard_packet_space, cancel, Tick, enter
  <2> DEFINE at == armed.deadline
  <2>2. at \in Nat /\ at <= now /\ now \in Nat /\ armed.kind \in Kinds
    BY <2>1 DEF fire, IInv, TypeOK
  <2> HIDE DEF at
  <2>3. expires(armed.kind, at) /\ state \in {"closing", "draining"}
    <3>1. on_lifecycle_timer(armed.kind, at)
      BY <2>1 DEF fire, on_recovery_timer, at
    <3>2. expires(armed.kind, at) /\ armed.kind # "idle" /\ armed.kind = state
      BY <3>1 DEF on_lifecycle_timer, enter
    <3> QED
      BY <2>2, <3>2 DEF Kinds, IInv, TypeOK
  <2>4. entered \in Nat /\ at >= Later(entered, CloseTimeout)
    BY <2>3, LifecycleConstants DEF expires, next_lifecycle_timer, Timer, IInv, TypeOK
  <2>5. CASE idled
    <3>1. heard \in Nat /\ entered >= Later(heard - SendLag, IdleTimeout)
      BY <2>4, <2>5, LifecycleConstants DEF IInv, TypeOK, CloseFollows
    <3> QED
      BY <2>2, <2>4, <2>5, <3>1, LifecycleConstants DEF Later
  <2>6. CASE ~idled
    <3>1. left \in Nat /\ entered >= left - SendLag
      BY <2>3, <2>4, <2>6, LifecycleConstants DEF IInv, TypeOK, CloseFollows, active
    <3> QED
      BY <2>2, <2>4, <2>6, <3>1, LifecycleConstants DEF Later
  <2> QED
    BY <2>5, <2>6
<1> QED
  BY InitIInv, NextIInv, <1>1, PTL DEF Spec, NotClosedEarly
=============================================================================
