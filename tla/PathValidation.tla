--------------------------- MODULE PathValidation ---------------------------
(***************************************************************************)
(* The server's view of its peer's address (include/flowq/quic/            *)
(* connection.hpp): the anti-amplification limit, the migration of the     *)
(* peer to another address, and the PATH_CHALLENGE that validates it.      *)
(*                                                                         *)
(* Of the Application queue only the PATH_CHALLENGE frames are kept, of    *)
(* TLS only whether the handshake is confirmed, with which the application *)
(* keys come.  Tokens are numbered in the order make_path_challenge_token  *)
(* returns them: the token source does not repeat itself.  The peer        *)
(* answers a challenge it received, from any address and at any time.      *)
(***************************************************************************)
EXTENDS Integers

CONSTANTS
  Peers,            \* addresses the peer may send from
  FirstPeer,        \* config_.peer at the start
  MaxWord,          \* the largest value of the byte counters
  ReceiveSizes,     \* sizes of packets received
  SendSizes,        \* sizes of datagrams assembled
  MaxBytes,         \* bound: bytes received from an address
  MaxSent,          \* bound: bytes sent to an address that is not validated
  MaxTokens,        \* bound: path challenges made
  None              \* an optional without a value

ASSUME PathConstants ==
  /\ FirstPeer \in Peers
  /\ MaxWord \in Nat /\ MaxBytes \in Nat /\ MaxSent \in Nat /\ MaxTokens \in Nat
  /\ ReceiveSizes \subseteq Nat \ {0} /\ SendSizes \subseteq Nat \ {0}
  /\ None \notin Nat

VARIABLES
  active,           \* state_ is active
  peer,             \* config_.peer
  migration_disabled,
  peer_address_validated,
  peer_bytes_received,
  peer_bytes_sent,
  peer_path_migrated,
  pending,          \* pending_path_challenge_
  pending_queued,   \* pending_path_challenge_queued_
  queue,            \* tokens of the PATH_CHALLENGE frames queued
  confirmed,        \* the TLS handshake is confirmed
  tokens,           \* number of tokens made
  challenged,       \* pairs of a token and an address it was sent to
  got,              \* bytes received from an address
  gave              \* bytes sent to an address while it was not validated

vars == <<active, peer, migration_disabled, peer_address_validated, peer_bytes_received,
          peer_bytes_sent, peer_path_migrated, pending, pending_queued, queue, confirmed,
          tokens, challenged, got, gave>>

anti_amplification_limited == ~peer_address_validated

saturating_add(target, value) == IF value > MaxWord - target THEN MaxWord ELSE target + value

(* The limit, not counting what was sent already. *)
anti_amplification_forgets_sent(size) ==
  \/ ~anti_amplification_limited
  \/ peer_bytes_received > MaxWord \div 3
  \/ size <= peer_bytes_received * 3

anti_amplification_allows(size) ==
  \/ ~anti_amplification_limited
  \/ peer_bytes_received > MaxWord \div 3
  \/ LET allowance == peer_bytes_received * 3
     IN  allowance >= peer_bytes_sent /\ size <= allowance - peer_bytes_sent

-----------------------------------------------------------------------------
(* refresh_key_lifecycle(): a confirmed handshake validates an address     *)
(* that never changed, and lets a pending challenge be queued.             *)

validated_by_handshake(valid, migrated, token, conf) ==
  valid \/ (~migrated /\ token = None /\ conf)

(* queue_pending_path_challenge_if_ready(). *)
to_queue(token, is_queued, conf) == IF token # None /\ ~is_queued /\ conf THEN {token} ELSE {}

refresh_key_lifecycle(conf) ==
  /\ confirmed' = conf
  /\ peer_address_validated' =
       validated_by_handshake(peer_address_validated, peer_path_migrated, pending, conf)
  /\ queue' = queue \union to_queue(pending, pending_queued, conf)
  /\ pending_queued' = (pending_queued \/ to_queue(pending, pending_queued, conf) # {})

(* next_recovery_timer(), which only refreshes, and a flush() that sends   *)
(* nothing, in which TLS may confirm the handshake (conf).                 *)
refresh(conf) ==
  /\ active
  /\ confirmed => conf
  /\ refresh_key_lifecycle(conf)
  /\ UNCHANGED <<active, peer, migration_disabled, peer_bytes_received, peer_bytes_sent,
                 peer_path_migrated, pending, tokens, challenged, got, gave>>

(* queue_application() replaces the frames that are queued. *)
queue_application ==
  /\ active
  /\ queue' = {}
  /\ UNCHANGED <<active, peer, migration_disabled, peer_address_validated, peer_bytes_received,
                 peer_bytes_sent, peer_path_migrated, pending, pending_queued, confirmed,
                 tokens, challenged, got, gave>>

-----------------------------------------------------------------------------
(* A datagram of the given size leaves for the peer, with the challenges C *)
(* of the queue: flush_space() after the refresh of flush(), in which TLS  *)
(* may have confirmed the handshake (conf), or acknowledge() for no C.     *)
record_sent(size, limited) ==
  /\ peer_bytes_sent' = IF limited THEN saturating_add(peer_bytes_sent, size) ELSE peer_bytes_sent
  /\ gave' = [gave EXCEPT ![peer] = IF limited THEN @ + size ELSE @]

flush_space(size, conf, with_challenge) ==
  LET valid == validated_by_handshake(peer_address_validated, peer_path_migrated, pending, conf)
      frames == queue \union to_queue(pending, pending_queued, conf)
      C == IF with_challenge THEN frames ELSE {}
  IN  /\ active
      /\ confirmed => conf
      /\ with_challenge => frames # {}
      /\ gave[peer] + size <= MaxSent
      /\ valid \/ anti_amplification_allows(size)
      /\ confirmed' = conf
      /\ peer_address_validated' = valid
      /\ queue' = frames \ C
      /\ pending_queued' = (pending_queued \/ to_queue(pending, pending_queued, conf) # {})
      /\ challenged' = challenged \union {<<t, peer>> : t \in C}
      /\ record_sent(size, ~valid)
      /\ UNCHANGED <<active, peer, migration_disabled, peer_bytes_received, peer_path_migrated,
                     pending, tokens, got>>

acknowledge(size) == flush_space(size, confirmed, FALSE)

-----------------------------------------------------------------------------
(* on_datagram(): a packet not seen before arrives.                        *)

(* accept_peer() does not let the peer move. *)
migration_rejected(from) ==
  /\ active /\ from # peer /\ migration_disabled
  /\ active' = FALSE
  /\ queue' = {}
  /\ UNCHANGED <<peer, migration_disabled, peer_address_validated, peer_bytes_received,
                 peer_bytes_sent, peer_path_migrated, pending, pending_queued, confirmed,
                 tokens, challenged, got, gave>>

(* The token source fails: the path stays unvalidated, the loop closes. *)
challenge_failed(from) ==
  /\ active /\ from # peer /\ ~migration_disabled
  /\ active' = FALSE
  /\ peer' = from
  /\ peer_address_validated' = FALSE
  /\ peer_bytes_received' = 0 /\ peer_bytes_sent' = 0
  /\ peer_path_migrated' = TRUE
  /\ queue' = {} /\ pending_queued' = FALSE
  /\ UNCHANGED <<migration_disabled, pending, confirmed, tokens, challenged, got, gave>>

(* The queued challenge of the address before stays in the queue. *)
queue_after_migration_keeps(conf) == queue \union {t \in {tokens} : conf}

(* reset_peer_path_validation(): a new token, of which the challenge is    *)
(* queued if application data may be sent, instead of the old one.         *)
queue_after_migration(conf) ==
  (queue \ {t \in {pending} : pending_queued}) \union {t \in {tokens} : conf}

(* process_parsed_packet() of a packet from another address. *)
receive_migrated(from, size, conf) ==
  /\ active /\ from # peer /\ ~migration_disabled
  /\ confirmed => conf
  /\ tokens < MaxTokens /\ got[from] + size <= MaxBytes
  /\ peer' = from
  /\ peer_address_validated' = FALSE
  /\ peer_bytes_received' = saturating_add(0, size) /\ peer_bytes_sent' = 0
  /\ peer_path_migrated' = TRUE
  /\ pending' = tokens /\ tokens' = tokens + 1
  /\ queue' = queue_after_migration(conf)
  /\ pending_queued' = conf
  /\ confirmed' = conf
  /\ got' = [got EXCEPT ![from] = @ + size]
  /\ UNCHANGED <<active, migration_disabled, challenged, gave>>

(* process_parsed_packet() of a packet from the peer's address. *)
receive(size, conf) ==
  LET valid == validated_by_handshake(peer_address_validated, peer_path_migrated, pending, confirmed)
  IN  /\ active
      /\ confirmed => conf
      /\ got[peer] + size <= MaxBytes
      /\ refresh_key_lifecycle(conf)
      /\ peer_bytes_received' = IF valid THEN peer_bytes_received
                                ELSE saturating_add(peer_bytes_received, size)
      /\ got' = [got EXCEPT ![peer] = @ + size]
      /\ UNCHANGED <<active, peer, migration_disabled, peer_bytes_sent, peer_path_migrated,
                     pending, tokens, challenged, gave>>

(* A PATH_RESPONSE with any token of the past counts. *)
response_matches_any(token) == pending # None

response_matches(token) == token = pending

(* The packet holds a PATH_RESPONSE: validate_migrated_peer_path(). *)
receive_response(token, size) ==
  /\ active
  /\ \E a \in Peers : <<token, a>> \in challenged
  /\ response_matches(token)
  /\ got[peer] + size <= MaxBytes
  /\ peer_address_validated' = TRUE
  /\ peer_path_migrated' = FALSE
  /\ pending' = None /\ pending_queued' = FALSE
  /\ peer_bytes_received' = 0 /\ peer_bytes_sent' = 0
  /\ queue' = queue \union to_queue(pending, pending_queued, confirmed)
  /\ got' = [got EXCEPT ![peer] = @ + size]
  /\ UNCHANGED <<active, peer, migration_disabled, confirmed, tokens, challenged, gave>>

-----------------------------------------------------------------------------
Init ==
  /\ active = TRUE
  /\ peer = FirstPeer
  /\ migration_disabled \in BOOLEAN
  /\ peer_address_validated \in BOOLEAN
  /\ peer_bytes_received = 0 /\ peer_bytes_sent = 0
  /\ peer_path_migrated = FALSE
  /\ pending = None /\ pending_queued = FALSE
  /\ queue = {}
  /\ confirmed = FALSE
  /\ tokens = 0
  /\ challenged = {}
  /\ got = [a \in Peers |-> 0]
  /\ gave = [a \in Peers |-> 0]

Next ==
  \/ \E conf \in BOOLEAN : refresh(conf)
  \/ queue_application
  \/ \E size \in SendSizes, conf, with_challenge \in BOOLEAN : flush_space(size, conf, with_challenge)
  \/ \E size \in SendSizes : acknowledge(size)
  \/ \E from \in Peers : migration_rejected(from)
  \/ \E from \in Peers : challenge_failed(from)
  \/ \E from \in Peers, size \in ReceiveSizes, conf \in BOOLEAN : receive_migrated(from, size, conf)
  \/ \E size \in ReceiveSizes, conf \in BOOLEAN : receive(size, conf)
  \/ \E token \in 0..MaxTokens - 1, size \in ReceiveSizes : receive_response(token, size)

Spec == Init /\ [][Next]_vars

-----------------------------------------------------------------------------
(* The state of the path has its type.                                     *)
TypeOK ==
  /\ active \in BOOLEAN
  /\ peer \in Peers
  /\ migration_disabled \in BOOLEAN
  /\ peer_address_validated \in BOOLEAN
  /\ peer_bytes_received \in 0..MaxWord /\ peer_bytes_sent \in 0..MaxWord
  /\ peer_path_migrated \in BOOLEAN
  /\ tokens \in Nat
  /\ pending \in 0..tokens - 1 \union {None}
  /\ pending_queued \in BOOLEAN
  /\ queue \subseteq 0..tokens - 1
  /\ confirmed \in BOOLEAN
  /\ challenged \subseteq (0..tokens - 1) \X Peers
  /\ got \in [Peers -> Nat] /\ gave \in [Peers -> Nat]

(* Over the whole life of a connection and however often the peer moves,   *)
(* the server sends to an address that is not validated at most three      *)
(* times what it received from there (docs/production/readiness-gate.md:   *)
(* "Anti-amplification limit (3x received bytes)").                        *)
AmplificationLimit ==
  (\A a \in Peers : got[a] <= MaxWord \div 3) => \A a \in Peers : gave[a] <= 3 * got[a]

(* An address becomes validated either by the handshake, if the peer never *)
(* moved, or by a response to a challenge sent to that very address.       *)
ValidatedByItsOwnChallenge ==
  [][~peer_address_validated /\ peer_address_validated' =>
       \/ ~peer_path_migrated /\ confirmed'
       \/ peer' = peer /\ pending # None /\ <<pending, peer>> \in challenged]_vars

(* A challenge leaves only while its token is pending, for the address it  *)
(* was made for: after another migration the old one is gone from the      *)
(* queue.                                                                  *)
ChallengeIsCurrent ==
  [][\A c \in challenged' \ challenged : c = <<pending, peer>>]_vars
=============================================================================
