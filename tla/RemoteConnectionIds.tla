------------------------- MODULE RemoteConnectionIds ------------------------
(***************************************************************************)
(* The connection IDs a peer has issued (include/flowq/quic/               *)
(* connection.hpp): NEW_CONNECTION_ID frames in any order, long headers,   *)
(* which name the ID anew, and stateless resets.                           *)
(*                                                                         *)
(* An ID is named by its sequence number; 0 is the ID in the long headers  *)
(* of the peer, which comes without a stateless reset token.               *)
(***************************************************************************)
EXTENDS Integers, FiniteSets

CONSTANTS
  MaxSequence,      \* bound: the largest sequence number
  Limit,            \* active_connection_id_limit
  MaxHeaders        \* bound: long headers that name the ID

ASSUME IdConstants ==
  /\ MaxSequence \in Nat /\ MaxHeaders \in Nat
  /\ Limit \in Nat \ {0}

VARIABLES
  state,
  table,            \* remote_connection_ids_: by sequence number
  initialized,      \* remote_connection_ids_initialized_
  in_use,           \* active_remote_connection_id_sequence_
  destination,      \* config_.remote_connection_id
  queue,            \* RETIRE_CONNECTION_ID frames in the Application queue
  announced,        \* IDs whose retirement was ever sent to the peer
  headers,          \* long headers received
  prior             \* the largest retire_prior_to accepted

vars == <<state, table, initialized, in_use, destination, queue, announced,
          headers, prior>>

Sequences == 0..MaxSequence

Empty == [s \in Sequences |-> "absent"]

active == state = "active"

(* ensure_remote_connection_id_state(). *)
ensured_table == IF initialized THEN table ELSE [Empty EXCEPT ![0] = "usable"]

ensured_in_use == IF initialized THEN in_use ELSE 0

usable(t) == {s \in Sequences : t[s] = "usable"}

Least(S) == CHOOSE s \in S : \A r \in S : s <= r

(* The lowest ID known, retired or not. *)
lowest_known(t) == Least({s \in Sequences : t[s] # "absent"})

lowest_active(t) == Least(usable(t))

within_limit(t) == Cardinality(usable(t)) <= Limit

retired_before(t, before) ==
  [s \in Sequences |-> IF t[s] = "usable" /\ s < before THEN "retired" ELSE t[s]]

(* Every ID that is not in use is given back. *)
settle_giving_all_back(t, used, ok) ==
  /\ table' = t
  /\ initialized' = TRUE
  /\ in_use' = used
  /\ destination' = IF used = ensured_in_use THEN destination ELSE used
  /\ state' = IF ok THEN state ELSE "closing"
  /\ queue' = IF ok THEN usable(t) \ {used} ELSE {}
  /\ UNCHANGED announced

(* The IDs and the one in use when a frame is done with, and its verdict.  *)
settle(t, used, ok) ==
  /\ table' = t
  /\ initialized' = TRUE
  /\ in_use' = used
  /\ destination' = IF used = ensured_in_use THEN destination ELSE used
  /\ state' = IF ok THEN state ELSE "closing"
  /\ queue' = IF ok THEN queue \union (usable(ensured_table) \ usable(t)) ELSE {}
  /\ UNCHANGED announced

(* retire_remote_connection_ids_before(), then the check of the limit that *)
(* only an ID not seen before has to pass.                                 *)
retire_remote_connection_ids_before(t, before, is_new) ==
  LET left == retired_before(t, before)
      retired_active == t[ensured_in_use] = "usable" /\ ensured_in_use < before
      fits == is_new => within_limit(left)
  IN  IF retired_active
      THEN IF usable(left) = {} THEN settle(left, ensured_in_use, FALSE)
           ELSE settle(left, lowest_active(left), fits)
      ELSE settle(left, ensured_in_use, fits)

(* A repeated frame makes its ID usable again, retired or not. *)
entered_again(t, s) == [t EXCEPT ![s] = "usable"]

(* find_remote_connection_id() knows a retired ID as well. *)
entered(t, s) == [t EXCEPT ![s] = IF @ = "absent" THEN "usable" ELSE @]

(* same: the frame repeats the ID and the token it gave before.            *)
apply_new_connection_id_frame(s, before, same) ==
  /\ active
  /\ IF before > s \/ (ensured_table[s] # "absent" /\ (s = 0 \/ ~same))
     THEN settle(ensured_table, ensured_in_use, FALSE) /\ UNCHANGED prior
     ELSE /\ retire_remote_connection_ids_before(
               entered(ensured_table, s), before, ensured_table[s] = "absent")
          /\ prior' = IF before > prior THEN before ELSE prior
  /\ UNCHANGED headers

(* A long header, authentic or late or not, names the peer's first ID; so  *)
(* does set_remote_connection_id().                                        *)
update_remote_connection_id_from_header ==
  /\ active /\ headers < MaxHeaders
  /\ headers' = headers + 1
  /\ destination' = 0
  /\ table' = Empty /\ initialized' = FALSE /\ in_use' = 0
  /\ UNCHANGED <<state, queue, announced, prior>>

(* A short packet that cannot be decrypted and ends with the token of s.   *)
handle_short_packet_parse_error(s) ==
  /\ active
  /\ state' = IF s # 0 /\ table[s] = "usable" THEN "draining" ELSE "closing"
  /\ queue' = {}
  /\ UNCHANGED <<table, initialized, in_use, destination, announced, headers, prior>>

(* The frames that fit into the packet leave the queue. *)
flush(sent) ==
  /\ active
  /\ announced' = announced \union sent
  /\ queue' = queue \ sent
  /\ UNCHANGED <<state, table, initialized, in_use, destination, headers, prior>>

(* The frames of the application take the place of those in the queue.     *)
queue_application ==
  /\ active /\ queue # {}
  /\ queue' = {}
  /\ UNCHANGED <<state, table, initialized, in_use, destination, announced, headers, prior>>

-----------------------------------------------------------------------------
Init ==
  /\ state = "active"
  /\ table = Empty /\ initialized = FALSE /\ in_use = 0
  /\ destination = 0
  /\ queue = {} /\ announced = {}
  /\ headers = 0 /\ prior = 0

Next ==
  \/ \E s, before \in Sequences, same \in BOOLEAN :
       apply_new_connection_id_frame(s, before, same)
  \/ update_remote_connection_id_from_header
  \/ \E s \in Sequences : handle_short_packet_parse_error(s)
  \/ \E sent \in SUBSET queue : flush(sent)
  \/ queue_application

Spec == Init /\ [][Next]_vars

-----------------------------------------------------------------------------
(* The members have their types; an initialized table knows the first ID.  *)
TypeOK ==
  /\ state \in {"active", "closing", "draining"}
  /\ table \in [Sequences -> {"absent", "usable", "retired"}]
  /\ initialized \in BOOLEAN
  /\ in_use \in Sequences /\ destination \in Sequences /\ prior \in Sequences
  /\ queue \subseteq Sequences /\ announced \subseteq Sequences
  /\ headers \in 0..MaxHeaders
  /\ initialized => table[0] # "absent"

(* Packets go to the ID that the table has in use, the first one when a    *)
(* long header has reset the table, and to none that was retired since;    *)
(* while no long header came, to none whose retirement the peer was ever   *)
(* told of or will be, whatever the order of NEW_CONNECTION_ID frames.     *)
InUseIsUsable ==
  active => /\ destination = ensured_in_use
            /\ ensured_table[destination] = "usable"
            /\ headers = 0 => destination \notin queue \union announced

(* Until a long header names the first ID again, no ID is given back to    *)
(* the peer while packets may still go to it.                              *)
GivenBackUnused ==
  active /\ headers = 0 => \A s \in queue \union announced : table[s] = "retired"

(* The peer never makes the connection hold more IDs than it allows, and a *)
(* repeated frame costs nothing.                                           *)
LimitKept == active => Cardinality(usable(table)) <= Limit

(* Between two long headers the connection never returns to an ID it has   *)
(* left, nor makes a retired one usable again.                             *)
NeverReturns ==
  [][initialized /\ initialized' /\ state' = "active" =>
       /\ in_use' >= in_use
       /\ \A s \in Sequences : table[s] = "retired" => table'[s] = "retired"]_vars

(* The same with long headers: no packet goes to an ID that was given up.  *)
NotSentToAnnounced == active => destination \notin announced

(* What the tests say of retire_prior_to: an ID below it is not in use.    *)
RetiredBelowPriorTo == active => \A s \in usable(ensured_table) : s >= prior
=============================================================================
