------------------------ MODULE PathValidationProofs ------------------------
(***************************************************************************)
(* Proofs of the properties of PathValidation, for any addresses, sizes of *)
(* datagrams and width of the byte counters.                               *)
(***************************************************************************)
EXTENDS PathValidation, TLAPS

(* No counter has come near its largest value. *)
FarFromEdge == \A a \in Peers : got[a] <= MaxWord \div 3

(* The counters of the current path are part of the totals of its address, *)
(* and both what they count and what was counted before is in bounds.      *)
Accounting ==
  /\ peer_bytes_received <= got[peer]
  /\ FarFromEdge =>
       /\ \A a \in Peers : a # peer => gave[a] <= 3 * got[a]
       /\ gave[peer] <= 3 * got[peer]
       /\ ~peer_address_validated =>
            /\ peer_bytes_sent <= 3 * peer_bytes_received
            /\ gave[peer] - peer_bytes_sent <= 3 * (got[peer] - peer_bytes_received)

(* The queue holds no challenge but the pending one, not sent yet; the     *)
(* pending one was sent to no address but the current one.                 *)
Challenges ==
  active =>
    /\ queue \subseteq {pending} \ {None}
    /\ queue # {} => pending_queued
    /\ \A a \in Peers : <<pending, a>> \in challenged =>
         a = peer /\ pending_queued /\ queue = {}

PathInvariant == TypeOK /\ Accounting /\ Challenges

-----------------------------------------------------------------------------
(* Adding within the range of a word is exact.                             *)
LEMMA SaturatingAdd ==
  ASSUME NEW t \in 0..MaxWord, NEW v \in Nat
  PROVE  /\ saturating_add(t, v) \in 0..MaxWord
         /\ saturating_add(t, v) <= t + v
         /\ t + v <= MaxWord => saturating_add(t, v) = t + v
  BY PathConstants DEF saturating_add

(* A third of the largest value fits three times.                          *)
LEMMA ThirdFits ==
  ASSUME NEW x \in Nat, x <= MaxWord \div 3
  PROVE  3 * x <= MaxWord
  BY PathConstants

(* The initial state has nothing counted and nothing pending.              *)
LEMMA InitInvariant == Init => PathInvariant
  <1> SUFFICES ASSUME Init PROVE PathInvariant
    OBVIOUS
  <1>1. TypeOK
    <2>1. /\ peer_bytes_received \in 0..MaxWord /\ peer_bytes_sent \in 0..MaxWord
          /\ tokens \in Nat /\ pending \in 0..tokens - 1 \union {None}
          /\ got \in [Peers -> Nat] /\ gave \in [Peers -> Nat]
      BY PathConstants DEF Init
    <2>2. /\ active \in BOOLEAN /\ migration_disabled \in BOOLEAN /\ confirmed \in BOOLEAN
          /\ peer_address_validated \in BOOLEAN /\ peer_path_migrated \in BOOLEAN
          /\ pending_queued \in BOOLEAN /\ peer \in Peers
          /\ queue = {} /\ challenged = {}
      BY PathConstants, Zenon DEF Init
    <2> QED BY <2>1, <2>2 DEF TypeOK
  <1>2. Accounting
    BY PathConstants DEF Init, Accounting
  <1>3. Challenges
    BY DEF Init, Challenges
  <1> QED BY <1>1, <1>2, <1>3 DEF PathInvariant

-----------------------------------------------------------------------------
(* Refreshing and receiving from the same address.                         *)
LEMMA RefreshInvariant ==
  ASSUME PathInvariant, NEW conf \in BOOLEAN, refresh_key_lifecycle(conf),
         UNCHANGED <<active, peer, migration_disabled, peer_path_migrated, pending,
                     tokens, challenged, peer_bytes_sent, gave>>,
         NEW size \in Nat,
         got' = [got EXCEPT ![peer] = got[peer] + size],
         peer_bytes_received' \in {peer_bytes_received, saturating_add(peer_bytes_received, size)},
         ~peer_address_validated' => peer_bytes_received' = saturating_add(peer_bytes_received, size)
  PROVE  PathInvariant'
  <1>t. TypeOK /\ Accounting /\ Challenges
    BY DEF PathInvariant
  <1>1. /\ peer_address_validated' \in BOOLEAN /\ pending_queued' \in BOOLEAN
        /\ confirmed' \in BOOLEAN
        /\ peer_address_validated => peer_address_validated'
    BY <1>t DEF TypeOK, refresh_key_lifecycle, validated_by_handshake
  <1>2. queue' \subseteq 0..tokens - 1
    BY <1>t DEF TypeOK, refresh_key_lifecycle, to_queue
  <1>3. /\ saturating_add(peer_bytes_received, size) \in 0..MaxWord
        /\ saturating_add(peer_bytes_received, size) <= peer_bytes_received + size
        /\ peer_bytes_received + size <= MaxWord =>
             saturating_add(peer_bytes_received, size) = peer_bytes_received + size
    BY <1>t, SaturatingAdd DEF TypeOK
  <1>4. peer_bytes_received' \in 0..MaxWord /\ got' \in [Peers -> Nat]
    <2>1. got[peer] + size \in Nat
      BY <1>t DEF TypeOK
    <2>2. got' \in [Peers -> Nat]
      BY <2>1, <1>t DEF TypeOK
    <2>3. peer_bytes_received' \in 0..MaxWord
      <3>1. CASE peer_bytes_received' = peer_bytes_received
        BY <3>1, <1>t DEF TypeOK
      <3>2. CASE peer_bytes_received' = saturating_add(peer_bytes_received, size)
        BY <3>2, <1>3
      <3> QED BY <3>1, <3>2
    <2> QED BY <2>2, <2>3
  <1>5. TypeOK'
    BY <1>t, <1>1, <1>2, <1>4 DEF TypeOK
  <1>6. Accounting'
    <2> USE DEF TypeOK
    <2>1. /\ got'[peer] = got[peer] + size /\ got[peer] \in Nat /\ gave[peer] \in Nat
          /\ \A a \in Peers : a # peer => got'[a] = got[a]
          /\ \A a \in Peers : got[a] <= got'[a] /\ got[a] \in Nat /\ gave[a] \in Nat /\ got'[a] \in Nat
      BY <1>t
    <2>2. peer_bytes_received' <= got'[peer]
      <3>1. /\ peer_bytes_received <= got[peer] /\ peer_bytes_received \in Nat
            /\ saturating_add(peer_bytes_received, size) \in Nat
        BY <1>t, <1>3 DEF Accounting
      <3>2. CASE peer_bytes_received' = peer_bytes_received
        BY <3>1, <3>2, <2>1
      <3>3. CASE peer_bytes_received' = saturating_add(peer_bytes_received, size)
        BY <3>1, <3>3, <2>1, <1>3
      <3> QED BY <3>2, <3>3
    <2>3. ASSUME FarFromEdge' PROVE FarFromEdge
      BY <2>1, <2>3, PathConstants DEF FarFromEdge
    <2>4. ASSUME FarFromEdge', ~peer_address_validated'
          PROVE  /\ peer_bytes_sent <= 3 * peer_bytes_received'
                 /\ gave[peer] - peer_bytes_sent <= 3 * (got'[peer] - peer_bytes_received')
      <3>1. got'[peer] <= MaxWord \div 3
        BY <2>4, <1>t DEF FarFromEdge
      <3>2. 3 * got'[peer] <= MaxWord
        BY <3>1, <2>1, ThirdFits
      <3>3. peer_bytes_received' = peer_bytes_received + size
        <4>1. peer_bytes_received <= got[peer] /\ peer_bytes_received \in Nat
          BY <1>t DEF Accounting
        <4>2. peer_bytes_received + size <= MaxWord
          BY <4>1, <3>2, <2>1, PathConstants
        <4> QED BY <4>2, <2>4, <1>3
      <3>4. ~peer_address_validated
        BY <1>1, <2>4
      <3>5. /\ peer_bytes_sent <= 3 * peer_bytes_received
            /\ gave[peer] - peer_bytes_sent <= 3 * (got[peer] - peer_bytes_received)
        BY <2>3, <2>4, <3>4, <1>t DEF Accounting
      <3> QED BY <3>3, <3>5, <2>1, <1>t, PathConstants
    <2>5. ASSUME FarFromEdge'
          PROVE  \A a \in Peers : gave[a] <= 3 * got'[a]
      BY <2>1, <2>3, <2>5, <1>t DEF Accounting
    <2> QED BY <2>2, <2>4, <2>5, <1>t, Zenon DEF Accounting
  <1>7. Challenges'
    BY <1>t DEF Challenges, TypeOK, refresh_key_lifecycle, to_queue
  <1> QED BY <1>5, <1>6, <1>7 DEF PathInvariant

-----------------------------------------------------------------------------
(* A datagram leaves only within the limit.                                *)
LEMMA FlushInvariant ==
  ASSUME PathInvariant, NEW size \in SendSizes, NEW conf \in BOOLEAN, NEW c \in BOOLEAN,
         flush_space(size, conf, c)
  PROVE  PathInvariant'
  <1>t. TypeOK /\ Accounting /\ Challenges /\ size \in Nat
    BY PathConstants DEF PathInvariant
  <1> DEFINE valid == validated_by_handshake(peer_address_validated, peer_path_migrated, pending, conf)
             frames == queue \union to_queue(pending, pending_queued, conf)
  <1>1. /\ valid \in BOOLEAN /\ pending_queued' \in BOOLEAN /\ conf \in BOOLEAN
        /\ peer_address_validated => valid
        /\ peer_address_validated' = valid
    BY <1>t DEF TypeOK, flush_space, validated_by_handshake
  <1>2. frames \subseteq 0..tokens - 1 /\ queue' \subseteq frames
        /\ challenged' \subseteq (0..tokens - 1) \X Peers
    BY <1>t DEF TypeOK, flush_space, to_queue
  <1>3. /\ peer_bytes_sent' = IF valid THEN peer_bytes_sent ELSE saturating_add(peer_bytes_sent, size)
        /\ gave' = [gave EXCEPT ![peer] = IF valid THEN gave[peer] ELSE gave[peer] + size]
    BY <1>t, <1>1, Zenon DEF flush_space, record_sent
  <1>4. /\ saturating_add(peer_bytes_sent, size) \in 0..MaxWord
        /\ peer_bytes_sent + size <= MaxWord =>
             saturating_add(peer_bytes_sent, size) = peer_bytes_sent + size
    BY <1>t, SaturatingAdd DEF TypeOK
  <1>5. peer_bytes_sent' \in 0..MaxWord /\ gave' \in [Peers -> Nat]
    BY <1>t, <1>1, <1>3, <1>4 DEF TypeOK
  <1>6. TypeOK'
    BY <1>t, <1>1, <1>2, <1>5 DEF TypeOK, flush_space
  <1>7. Accounting'
    <2>1. /\ UNCHANGED <<peer, got, peer_bytes_received>>
          /\ \A a \in Peers : a # peer => gave'[a] = gave[a]
          /\ gave[peer] \in Nat /\ got[peer] \in Nat
      BY <1>t, <1>3 DEF TypeOK, flush_space
    <2>2. CASE valid
      <3>1. gave' = gave
        BY <2>2, <1>3, <1>t DEF TypeOK
      <3> QED BY <3>1, <2>1, <2>2, <1>1, <1>t DEF Accounting, FarFromEdge
    <2>3. CASE ~valid
      <3>1. ~peer_address_validated /\ gave'[peer] = gave[peer] + size
        BY <2>3, <1>1, <1>3, <1>t DEF TypeOK
      <3>2. anti_amplification_allows(size)
        BY <2>3 DEF flush_space
      <3>3. ASSUME FarFromEdge
            PROVE  /\ peer_bytes_sent' = peer_bytes_sent + size
                   /\ peer_bytes_sent + size <= 3 * peer_bytes_received
        <4>1. 3 * got[peer] <= MaxWord
          BY <3>3, <1>t, <2>1, ThirdFits DEF FarFromEdge, TypeOK
        <4>2. peer_bytes_received <= MaxWord \div 3 /\ peer_bytes_received <= got[peer]
          BY <3>3, <1>t, PathConstants DEF FarFromEdge, TypeOK, Accounting
        <4>3. peer_bytes_sent + size <= 3 * peer_bytes_received
          BY <4>2, <3>1, <3>2, <1>t, PathConstants
             DEF anti_amplification_allows, anti_amplification_limited, TypeOK
        <4> QED BY <4>1, <4>2, <4>3, <1>3, <1>4, <2>1, <2>3, <1>t, PathConstants DEF TypeOK
      <3>4. ASSUME FarFromEdge
            PROVE  /\ gave'[peer] - peer_bytes_sent' <= 3 * (got[peer] - peer_bytes_received)
                   /\ gave'[peer] <= 3 * got[peer]
        BY <3>1, <3>3, <3>4, <2>1, <1>t DEF Accounting, TypeOK
      <3> QED BY <3>3, <3>4, <2>1, <1>t DEF Accounting, FarFromEdge
    <2> QED BY <2>2, <2>3
  <1>8. Challenges'
    <2>1. UNCHANGED <<peer, pending>> /\ frames \subseteq {pending} \ {None}
      BY <1>t DEF flush_space, to_queue, Challenges
    <2>2. CASE c
      BY <2>1, <2>2, <1>t DEF flush_space, to_queue, Challenges, TypeOK
    <2>3. CASE ~c
      BY <2>1, <2>3, <1>t DEF flush_space, to_queue, Challenges, TypeOK
    <2> QED BY <2>2, <2>3
  <1> QED BY <1>6, <1>7, <1>8 DEF PathInvariant

-----------------------------------------------------------------------------
(* A migration starts the counters and the challenge anew.                 *)
LEMMA MigrationInvariant ==
  ASSUME PathInvariant, NEW from \in Peers, NEW size \in ReceiveSizes, NEW conf \in BOOLEAN,
         receive_migrated(from, size, conf)
  PROVE  PathInvariant'
  <1>t. TypeOK /\ Accounting /\ Challenges /\ size \in Nat
    BY PathConstants DEF PathInvariant
  <1>1. /\ saturating_add(0, size) \in 0..MaxWord /\ saturating_add(0, size) <= size
        /\ size <= MaxWord => saturating_add(0, size) = size
    BY <1>t, SaturatingAdd, PathConstants
  <1>2. queue' = {t \in {tokens} : conf}
    BY <1>t DEF receive_migrated, queue_after_migration, Challenges
  <1>3. TypeOK'
    <2>1. /\ tokens' \in Nat /\ pending' \in 0..tokens' - 1 /\ queue' \subseteq 0..tokens' - 1
          /\ challenged' \subseteq (0..tokens' - 1) \X Peers
      BY <1>t, <1>2 DEF TypeOK, receive_migrated
    <2>2. got' \in [Peers -> Nat]
      BY <1>t DEF TypeOK, receive_migrated
    <2>3. peer_bytes_received' \in 0..MaxWord /\ peer_bytes_sent' \in 0..MaxWord
      BY <1>1, PathConstants DEF receive_migrated
    <2>4. /\ active' \in BOOLEAN /\ migration_disabled' \in BOOLEAN /\ confirmed' \in BOOLEAN
          /\ peer_address_validated' \in BOOLEAN /\ peer_path_migrated' \in BOOLEAN
          /\ pending_queued' \in BOOLEAN /\ peer' \in Peers /\ gave' \in [Peers -> Nat]
      BY <1>t, Zenon DEF TypeOK, receive_migrated
    <2> QED BY <2>1, <2>2, <2>3, <2>4, Zenon DEF TypeOK
  <1>4. Accounting'
    <2>1. /\ got'[from] = got[from] + size /\ peer' = from /\ gave' = gave
          /\ peer_bytes_received' = saturating_add(0, size) /\ peer_bytes_sent' = 0
          /\ \A a \in Peers : a # from => got'[a] = got[a]
          /\ \A a \in Peers : got[a] <= got'[a] /\ got[a] \in Nat /\ gave[a] \in Nat /\ got'[a] \in Nat
      BY <1>t DEF TypeOK, receive_migrated
    <2>2. peer_bytes_received' <= got'[from]
      BY <2>1, <1>1, <1>t
    <2>3. ASSUME FarFromEdge'
          PROVE  /\ \A a \in Peers : gave[a] <= 3 * got[a]
                 /\ 3 * got'[from] <= MaxWord
      <3>1. FarFromEdge
        BY <2>1, <2>3, PathConstants DEF FarFromEdge
      <3>2. 3 * got'[from] <= MaxWord
        BY <2>1, <2>3, ThirdFits DEF FarFromEdge
      <3> QED BY <3>1, <3>2, <1>t DEF Accounting
    <2>4. ASSUME FarFromEdge'
          PROVE  /\ \A a \in Peers : gave'[a] <= 3 * got'[a]
                 /\ peer_bytes_received' = size
                 /\ gave'[from] <= 3 * (got'[from] - size)
      BY <2>1, <2>3, <2>4, <1>1, <1>t, PathConstants
    <2> QED BY <2>1, <2>2, <2>4, <1>1, <1>t DEF Accounting
  <1>5. Challenges'
    <2>1. \A a \in Peers : <<tokens, a>> \notin challenged
      BY <1>t DEF TypeOK
    <2> QED BY <2>1, <1>2, <1>t, PathConstants DEF Challenges, receive_migrated, TypeOK
  <1> QED BY <1>3, <1>4, <1>5 DEF PathInvariant

(* A failed migration closes the connection.                               *)
LEMMA ClosingInvariant ==
  ASSUME PathInvariant, NEW from \in Peers, migration_rejected(from) \/ challenge_failed(from)
  PROVE  PathInvariant'
  <1>t. TypeOK /\ Accounting /\ Challenges
    BY DEF PathInvariant
  <1>1. CASE migration_rejected(from)
    BY <1>t, <1>1, Zenon DEF PathInvariant, TypeOK, Accounting, FarFromEdge, Challenges, migration_rejected
  <1>2. CASE challenge_failed(from)
    <2>1. TypeOK'
      <3>1. peer_bytes_received' \in 0..MaxWord /\ peer_bytes_sent' \in 0..MaxWord
        BY <1>2, PathConstants DEF challenge_failed
      <3>2. /\ active' \in BOOLEAN /\ peer_address_validated' \in BOOLEAN
            /\ peer_path_migrated' \in BOOLEAN /\ pending_queued' \in BOOLEAN
            /\ peer' \in Peers /\ queue' = {}
            /\ UNCHANGED <<migration_disabled, pending, confirmed, tokens, challenged, got, gave>>
        BY <1>2, Zenon DEF challenge_failed
      <3> QED BY <1>t, <3>1, <3>2 DEF TypeOK
    <2>2. Accounting'
      BY <1>t, <1>2 DEF TypeOK, Accounting, FarFromEdge, challenge_failed
    <2>3. Challenges'
      BY <1>t, <1>2 DEF Challenges, challenge_failed
    <2> QED BY <2>1, <2>2, <2>3 DEF PathInvariant
  <1> QED BY <1>1, <1>2

(* A matching response validates the path and resets the counters.         *)
LEMMA ResponseInvariant ==
  ASSUME PathInvariant, NEW token \in Nat, NEW size \in ReceiveSizes,
         receive_response(token, size)
  PROVE  PathInvariant'
  <1>t. TypeOK /\ Accounting /\ Challenges /\ size \in Nat
    BY PathConstants DEF PathInvariant
  <1>1. pending_queued /\ queue = {} /\ queue' = {}
    BY <1>t DEF receive_response, response_matches, to_queue, Challenges
  <1>2. got' \in [Peers -> Nat] /\ \A a \in Peers : got[a] <= got'[a]
    BY <1>t DEF TypeOK, receive_response
  <1>3. TypeOK'
    <2>1. peer_bytes_received' \in 0..MaxWord /\ peer_bytes_sent' \in 0..MaxWord
      BY PathConstants DEF receive_response
    <2>2. /\ peer_address_validated' \in BOOLEAN /\ peer_path_migrated' \in BOOLEAN
          /\ pending_queued' \in BOOLEAN /\ pending' = None /\ queue' = {}
          /\ UNCHANGED <<active, peer, migration_disabled, confirmed, tokens, challenged, gave>>
      BY <1>1, Zenon DEF receive_response
    <2> QED BY <1>t, <1>2, <2>1, <2>2 DEF TypeOK
  <1>4. Accounting'
    <2>1. /\ UNCHANGED <<peer, gave>> /\ peer_address_validated' = TRUE
          /\ peer_bytes_received' = 0
      BY DEF receive_response
    <2>2. ASSUME FarFromEdge' PROVE FarFromEdge
      BY <2>2, <1>2, <1>t, PathConstants DEF FarFromEdge, TypeOK
    <2> QED BY <2>1, <2>2, <1>2, <1>t DEF Accounting, TypeOK
  <1>5. Challenges'
    <2>1. \A a \in Peers : <<None, a>> \notin challenged
      BY <1>t, PathConstants DEF TypeOK
    <2> QED BY <2>1, <1>1, Zenon DEF Challenges, receive_response
  <1> QED BY <1>3, <1>4, <1>5 DEF PathInvariant

-----------------------------------------------------------------------------
(* Every step preserves the invariant.                                     *)
LEMMA StepInvariant == PathInvariant /\ [Next]_vars => PathInvariant'
  <1> SUFFICES ASSUME PathInvariant, [Next]_vars PROVE PathInvariant'
    OBVIOUS
  <1>t. TypeOK /\ Accounting /\ Challenges
    BY DEF PathInvariant
  <1>1. ASSUME NEW conf \in BOOLEAN, refresh(conf) PROVE PathInvariant'
    <2>1. got' = [got EXCEPT ![peer] = got[peer] + 0]
      <3>1. got[peer] + 0 = got[peer]
        BY <1>t DEF TypeOK
      <3>2. got' = got /\ got = [got EXCEPT ![peer] = got[peer]]
        BY <1>1, <1>t DEF refresh, TypeOK
      <3> QED BY <3>1, <3>2
    <2>2. peer_bytes_received' = saturating_add(peer_bytes_received, 0)
      BY <1>1, <1>t, PathConstants DEF refresh, TypeOK, saturating_add
    <2>3. 0 \in Nat
      OBVIOUS
    <2> QED BY <2>1, <2>2, <2>3, <1>1, RefreshInvariant DEF refresh
  <1>2. CASE queue_application
    BY <1>2, <1>t DEF queue_application, PathInvariant, TypeOK, Accounting, FarFromEdge, Challenges
  <1>3. ASSUME NEW size \in SendSizes, NEW conf \in BOOLEAN, NEW c \in BOOLEAN,
               flush_space(size, conf, c)
        PROVE  PathInvariant'
    BY <1>3, FlushInvariant
  <1>4. ASSUME NEW size \in SendSizes, acknowledge(size) PROVE PathInvariant'
    BY <1>4, <1>t, FlushInvariant, Zenon DEF acknowledge, TypeOK
  <1>5. ASSUME NEW from \in Peers, migration_rejected(from) \/ challenge_failed(from)
        PROVE  PathInvariant'
    BY <1>5, ClosingInvariant
  <1>6. ASSUME NEW from \in Peers, NEW size \in ReceiveSizes, NEW conf \in BOOLEAN,
               receive_migrated(from, size, conf)
        PROVE  PathInvariant'
    BY <1>6, MigrationInvariant
  <1>7. ASSUME NEW size \in ReceiveSizes, NEW conf \in BOOLEAN, receive(size, conf)
        PROVE  PathInvariant'
    <2>1. size \in Nat
      BY PathConstants
    <2>2. ~peer_address_validated' =>
            peer_bytes_received' = saturating_add(peer_bytes_received, size)
      BY <1>7, Zenon DEF receive, refresh_key_lifecycle, validated_by_handshake
    <2> QED BY <2>1, <2>2, <1>7, RefreshInvariant, Zenon DEF receive
  <1>8. ASSUME NEW token \in 0..MaxTokens - 1, NEW size \in ReceiveSizes,
               receive_response(token, size)
        PROVE  PathInvariant'
    <2>1. token \in Nat
      OBVIOUS
    <2> QED BY <2>1, <1>8, ResponseInvariant
  <1>9. CASE UNCHANGED vars
    BY <1>9, <1>t DEF vars, PathInvariant, TypeOK, Accounting, FarFromEdge, Challenges
  <1> QED BY <1>1, <1>2, <1>3, <1>4, <1>5, <1>6, <1>7, <1>8, <1>9 DEF Next

(* The inductive invariant of the peer's path holds in every behaviour.    *)
THEOREM PathInvariantHolds == Spec => []PathInvariant
  BY InitInvariant, StepInvariant, PTL DEF Spec

(* What is sent to an address before it is validated is at most three      *)
(* times what was received from it (anti_amplification_allows).            *)
THEOREM AmplificationIsLimited == Spec => []AmplificationLimit
  <1>1. PathInvariant => AmplificationLimit
    BY Zenon DEF PathInvariant, Accounting, FarFromEdge, AmplificationLimit
  <1> QED BY <1>1, PathInvariantHolds, PTL

(* An address is validated by the handshake, if the peer never moved, or   *)
(* by a response to a challenge that was sent to it.                       *)
THEOREM ValidationNeedsItsOwnChallenge == Spec => ValidatedByItsOwnChallenge
  <1> DEFINE A == ~peer_address_validated /\ peer_address_validated' =>
                    \/ ~peer_path_migrated /\ confirmed'
                    \/ peer' = peer /\ pending # None /\ <<pending, peer>> \in challenged
  <1>1. ASSUME PathInvariant, Next PROVE A
    <2> SUFFICES ASSUME ~peer_address_validated, peer_address_validated'
                 PROVE  \/ ~peer_path_migrated /\ confirmed'
                        \/ peer' = peer /\ pending # None /\ <<pending, peer>> \in challenged
      OBVIOUS
    <2>1. ASSUME NEW conf \in BOOLEAN, refresh_key_lifecycle(conf)
          PROVE  ~peer_path_migrated /\ confirmed'
      BY <2>1, Zenon DEF refresh_key_lifecycle, validated_by_handshake
    <2>2. ASSUME NEW size \in SendSizes, NEW conf \in BOOLEAN, NEW c \in BOOLEAN,
                 flush_space(size, conf, c)
          PROVE  ~peer_path_migrated /\ confirmed'
      BY <2>2, Zenon DEF flush_space, validated_by_handshake
    <2>3. ASSUME NEW size \in SendSizes, acknowledge(size)
          PROVE  ~peer_path_migrated /\ confirmed'
      BY <2>3, Zenon DEF acknowledge, flush_space, validated_by_handshake
    <2>4. ASSUME NEW token \in 0..MaxTokens - 1, NEW size \in ReceiveSizes,
                 receive_response(token, size)
          PROVE  peer' = peer /\ pending # None /\ <<pending, peer>> \in challenged
      BY <1>1, <2>4, PathConstants DEF PathInvariant, Challenges, receive_response, response_matches
    <2>5. ASSUME NEW from \in Peers, NEW size \in ReceiveSizes, NEW conf \in BOOLEAN,
                 \/ migration_rejected(from) \/ challenge_failed(from)
                 \/ receive_migrated(from, size, conf)
          PROVE  FALSE
      BY <2>5, Zenon DEF migration_rejected, challenge_failed, receive_migrated
    <2>6. ASSUME NEW from \in Peers, migration_rejected(from) \/ challenge_failed(from)
          PROVE  FALSE
      BY <2>6, Zenon DEF migration_rejected, challenge_failed
    <2>7. ~queue_application
      BY Zenon DEF queue_application
    <2> QED BY <1>1, <2>1, <2>2, <2>3, <2>4, <2>5, <2>6, <2>7 DEF Next, refresh, receive
  <1>2. PathInvariant /\ [Next]_vars => [A]_vars
    BY <1>1
  <1> QED BY <1>2, PathInvariantHolds, PTL DEF Spec, ValidatedByItsOwnChallenge

(* A challenge leaves only for the address it was made for.                *)
THEOREM ChallengesAreCurrent == Spec => ChallengeIsCurrent
  <1> DEFINE A == \A c \in challenged' \ challenged : c = <<pending, peer>>
  <1>1. ASSUME PathInvariant, Next PROVE A
    <2>1. ASSUME NEW size \in SendSizes, NEW conf \in BOOLEAN, NEW c \in BOOLEAN,
                 flush_space(size, conf, c)
          PROVE  A
      BY <1>1, <2>1, ZenonT(30) DEF PathInvariant, Challenges, flush_space, to_queue
    <2>2. ASSUME NEW size \in SendSizes, acknowledge(size) PROVE A
      BY <1>1, <2>2 DEF acknowledge, flush_space
    <2>3. CASE UNCHANGED challenged
      BY <2>3
    <2> QED BY <1>1, <2>1, <2>2, <2>3
            DEF Next, refresh, queue_application, migration_rejected, challenge_failed,
                receive_migrated, receive, receive_response
  <1>2. PathInvariant /\ [Next]_vars => [A]_vars
    BY <1>1
  <1> QED BY <1>2, PathInvariantHolds, PTL DEF Spec, ChallengeIsCurrent
=============================================================================
