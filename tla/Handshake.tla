---- MODULE Handshake ----
(***************************************************************************)
(* The TLS handshake of one FlowQ connection: the OpenSSL adapter and its   *)
(* callbacks (quic/openssl_tls_handshake.hpp), key availability and packet  *)
(* spaces (quic/key_lifecycle.hpp), the protectors made from TLS's secrets  *)
(* (quic/tls_protector_factory.hpp), and the connection loop's part in it   *)
(* (quic/connection.hpp).  OpenSSL, the network and the peer are external:  *)
(* the peer is a conforming endpoint that reassembles CRYPTO data by offset *)
(* and repeats what may be lost; datagrams are lost, repeated and reordered.*)
(*                                                                          *)
(* The data of CRYPTO streams is counted in units <<level, i>>: the i-th    *)
(* piece TLS writes at that level.  OpenSSL is a script of the reads,       *)
(* writes and secrets a TLS 1.3 handshake consists of, in its order.        *)
(*                                                                          *)
(* flush_space() always may send here: the congestion window, pacing and    *)
(* the amplification limit, which hold a packet back until a later call,    *)
(* and frames too large for a packet are left to the modules about them.    *)
(***************************************************************************)
EXTENDS Integers, Sequences, FiniteSets, Functions

CONSTANTS
    Configs,            \* configurations of the adapter and of the connection
    HelloUnits,         \* pieces of the ClientHello
    FlightUnits,        \* pieces of the server's Handshake flight
    FramesPerPacket,    \* CRYPTO frames that fit in a packet
    MaxFaults           \* bound on losses, duplicates and repetitions together

\* A flight is at least one piece, and one CRYPTO frame fits in every packet: split_crypto_frames()
\* cuts them so.
ASSUME HandshakeAssumption ==
    /\ HelloUnits \in Nat \ {0} /\ FlightUnits \in Nat \ {0} /\ FramesPerPacket \in Nat \ {0}
    /\ \A cfg \in Configs : cfg.role \in {"client", "server"} /\ cfg.refresh \in BOOLEAN

VARIABLES
    config,             \* openssl_tls_config and the part of connection_loop_config used here
    c,                  \* the connection loop with its TLS adapter
    peer,               \* the peer
    network,            \* datagrams on their way, [to, packets]
    faults              \* losses, duplicates and repetitions so far

vars == <<config, c, peer, network, faults>>

SpaceSet == {"initial", "handshake", "application"}

-----------------------------------------------------------------------------
(* TLS 1.3 as OpenSSL runs it (external) *)

Units(op, level, n) == [i \in 1..n |-> [op |-> op, unit |-> <<level, i>>]]
Yield(level, direction) == [op |-> "yield", level |-> level, direction |-> direction]
Done == [op |-> "done"]

ClientScript ==
    Units("write", "initial", HelloUnits) \o Units("read", "initial", 1)
      \o <<Yield("handshake", "tx"), Yield("handshake", "rx")>>
      \o Units("read", "handshake", FlightUnits) \o <<Yield("application", "rx")>>
      \o Units("write", "handshake", 1) \o <<Yield("application", "tx"), Done>>
      \o Units("read", "application", 1)

ServerScript ==
    Units("read", "initial", HelloUnits) \o Units("write", "initial", 1)
      \o <<Yield("handshake", "tx"), Yield("handshake", "rx")>>
      \o Units("write", "handshake", FlightUnits) \o <<Yield("application", "tx")>>
      \o Units("read", "handshake", 1) \o <<Yield("application", "rx")>>
      \o Units("write", "application", 1) \o <<Done>>

Script(role) == IF role = "client" THEN ClientScript ELSE ServerScript

-----------------------------------------------------------------------------
(* The adapter: construction *)

CryptoUnits == SpaceSet \X Nat
CryptoBytes == [level : SpaceSet, offset : Nat, unit : CryptoUnits]
Secrets == SpaceSet \X {"tx", "rx"}

Adapters ==
    [state : {"idle", "handshaking", "handshake_confirmed", "failed"},
     secrets : SUBSET Secrets, keys : SUBSET SpaceSet, tx_level : SpaceSet,
     offset : [SpaceSet -> Nat], outbound : [SpaceSet -> Seq(CryptoBytes)],
     inbound : [SpaceSet -> Seq(CryptoUnits)], pc : Nat, finished : BOOLEAN]

set_failure(t) == [t EXCEPT !.state = "failed"]

NewAdapter ==
    [state |-> "idle", secrets |-> {}, keys |-> {}, tx_level |-> "initial",
     offset |-> [s \in SpaceSet |-> 0], outbound |-> [s \in SpaceSet |-> <<>>],
     inbound |-> [s \in SpaceSet |-> <<>>], pc |-> 1, finished |-> FALSE]

\* The constructor: a server needs a certificate and its key, a client a CA and a server name.
openssl_tls_handshake_adapter(cfg) ==
    IF /\ cfg.openssl  \* OpenSSL accepts what it is given
       /\ cfg.role = "server" => cfg.certificate
       /\ cfg.role = "client" => cfg.ca /\ cfg.server_name
       /\ cfg.alpn # "invalid"
    THEN NewAdapter
    ELSE set_failure(NewAdapter)

-----------------------------------------------------------------------------
(* The adapter: OpenSSL's callbacks *)

\* What TLS writes is kept by level: its order between levels makes no difference to the queues.
crypto_send_cb(t, unit) ==
    [t EXCEPT !.offset[t.tx_level] = @ + 1,
              !.outbound[t.tx_level] =
                  Append(@, [level |-> t.tx_level, offset |-> t.offset[t.tx_level], unit |-> unit])]

\* Levels are offered to TLS in this order, whatever level TLS reads at.
crypto_recv_rcd_cb(t) ==
    IF t.inbound["initial"] # <<>> THEN "initial"
    ELSE IF t.inbound["handshake"] # <<>> THEN "handshake" ELSE "application"

crypto_release_rcd_cb(t) == [t EXCEPT !.inbound[crypto_recv_rcd_cb(t)] = Tail(@)]

level_key_schedule_owned(secrets, level) == {<<level, "tx">>, <<level, "rx">>} \subseteq secrets

\* The mutant classifies outbound data by the last secret of either direction.
update_tx_level_always(t, level, direction) == [t EXCEPT !.tx_level = level]

update_tx_level(t, level, direction) ==
    [t EXCEPT !.tx_level = IF direction = "tx" THEN level ELSE @]

store_secret(t, level, secrets) ==
    [t EXCEPT !.secrets = secrets,
              !.keys = IF level_key_schedule_owned(secrets, level) THEN @ \cup {level} ELSE @ \ {level},
              !.state = IF @ = "idle" /\ level # "initial" THEN "handshaking" ELSE @]

yield_secret_cb(t, level, direction) ==
    update_tx_level(store_secret(t, level, t.secrets \cup {<<level, direction>>}), level, direction)

alert_cb(t) == set_failure(t)

\* No cipher is negotiated before the first secrets.
negotiated_cipher_known(t) == t.secrets # {}

provider_ready(t) == level_key_schedule_owned(t.secrets, "application") /\ negotiated_cipher_known(t)

application_data_ready(t) ==
    t.state = "handshake_confirmed" /\ "application" \in t.keys /\ provider_ready(t)

-----------------------------------------------------------------------------
(* The adapter: driving OpenSSL *)

Unread(t) == t.inbound[crypto_recv_rcd_cb(t)] # <<>>
NextUnit(t) == Head(t.inbound[crypto_recv_rcd_cb(t)])
Lost(t) == t.pc = 0  \* TLS waits for the rest of a message that is none

\* Data out of place makes no TLS message: OpenSSL raises an alert, or takes it for the beginning
\* of a long message and waits for the rest.
Misread(t, garbled) ==
    IF garbled = "alert" THEN alert_cb(t) ELSE crypto_release_rcd_cb([t EXCEPT !.pc = 0])

tls_step(t, op, garbled) ==
    CASE op.op = "write" -> crypto_send_cb([t EXCEPT !.pc = @ + 1], op.unit)
      [] op.op = "yield" -> yield_secret_cb([t EXCEPT !.pc = @ + 1], op.level, op.direction)
      [] op.op = "done" -> [t EXCEPT !.pc = @ + 1, !.finished = TRUE]
      [] op.op = "read" -> IF NextUnit(t) = op.unit THEN crypto_release_rcd_cb([t EXCEPT !.pc = @ + 1])
                           ELSE Misread(t, garbled)

tls_waits(t, script) ==
    \/ t.state = "failed"
    \/ (Lost(t) \/ t.pc > Len(script)) /\ ~Unread(t)
    \/ t.pc \in 1..Len(script) /\ script[t.pc].op = "read" /\ ~Unread(t)

tls_moves(t, script, garbled) ==
    IF tls_waits(t, script) THEN t
    ELSE IF Lost(t) \/ t.pc > Len(script) THEN Misread(t, garbled)
    ELSE tls_step(t, script[t.pc], garbled)

\* A move takes a step of the script, or a piece of what has arrived, or is the last.
MovesLeft(t, script) ==
    Len(script) + 1 + Len(t.inbound["initial"]) + Len(t.inbound["handshake"]) + Len(t.inbound["application"])

\* TLS runs until it waits.
SSL_run(t, script, garbled) ==
    LET moves == [x \in Adapters |-> tls_moves(x, script, garbled)]
        run[n \in 0..MovesLeft(t, script)] == IF n = 0 THEN t ELSE moves[run[n - 1]]
    IN  run[MovesLeft(t, script)]

\* SSL_do_handshake fails on an alert; one raised by SSL_read after it is only noticed next time.
driven(t) ==
    [ok |-> t.state # "failed" \/ t.finished,
     tls |-> IF t.state # "failed" /\ t.finished THEN [t EXCEPT !.state = "handshake_confirmed"] ELSE t]

drive_handshake(t, garbled) == driven(SSL_run(t, Script(config.role), garbled))

advance(t, garbled) == IF t.state = "failed" THEN [ok |-> FALSE, tls |-> t] ELSE drive_handshake(t, garbled)

\* The offset of the bytes is not looked at.
receive_crypto(t, level, unit, garbled) ==
    IF t.state = "failed" THEN [ok |-> FALSE, tls |-> t]
    ELSE drive_handshake([t EXCEPT !.inbound[level] = Append(@, unit)], garbled)

-----------------------------------------------------------------------------
(* Key lifecycle and protectors *)

Causes == {"crypto", "eager", "uninstalled", "misordered", "early", "overwritten", "discarded"}

Connections ==
    [state : {"active", "closing"}, tls : Adapters, dirty : BOOLEAN, available : SUBSET SpaceSet,
     discarded : SUBSET SpaceSet, protectors : SUBSET Secrets, queue : [SpaceSet -> Seq(CryptoBytes)],
     observed : [SpaceSet -> SUBSET Nat], next_number : [SpaceSet -> Nat],
     sent : Seq([space : SpaceSet, number : Nat, frames : Seq(CryptoBytes)]),
     fed : [SpaceSet -> Nat], causes : SUBSET Causes]

active(k) == k.state = "active"

\* Every space is cleared.  The causes are history: what made the connection close.
enter_closing(k, cause) ==
    [k EXCEPT !.state = "closing", !.causes = @ \cup cause,
              !.queue = [s \in SpaceSet |-> <<>>], !.observed = [s \in SpaceSet |-> {}]]

clear_packet_space(k, space) == [k EXCEPT !.queue[space] = <<>>, !.observed[space] = {}]

clear_discarded_packet_spaces(k) ==
    [k EXCEPT !.queue = [s \in SpaceSet |-> IF s \in k.discarded THEN <<>> ELSE @[s]],
              !.observed = [s \in SpaceSet |-> IF s \in k.discarded THEN {} ELSE @[s]]]

\* Nothing TLS reports ever discards the Handshake space.
observe_tls(k, keys) ==
    [k EXCEPT !.available = @ \cup keys,
              !.discarded = IF "handshake" \in keys THEN @ \cup {"initial"} ELSE @]

refresh_key_lifecycle(k) ==
    IF k.dirty THEN [clear_discarded_packet_spaces(observe_tls(k, k.tls.keys)) EXCEPT !.dirty = FALSE]
    ELSE k

\* A protector for every secret; deriving its keys is OpenSSL's and may fail.
create_protectors(t) ==
    IF ~negotiated_cipher_known(t) \/ ~config.derivable THEN [ok |-> FALSE]
    ELSE [ok |-> TRUE, protectors |-> {x \in t.secrets : x[1] # "initial"}]

\* The client tool's callback: nothing to install before a cipher is negotiated.
refresh_tls_protectors(t) ==
    IF ~negotiated_cipher_known(t) THEN [ok |-> TRUE, protectors |-> {}] ELSE create_protectors(t)

set_packet_protectors(k, protectors) == [k EXCEPT !.protectors = @ \cup protectors]

installed(k, update) ==
    IF ~update.ok THEN enter_closing(k, {"crypto"}) ELSE set_packet_protectors(k, update.protectors)

\* The mutant waits with the protectors until the handshake is over.
refresh_once_confirmed(k) ==
    IF ~config.refresh \/ k.tls.state # "handshake_confirmed" THEN k
    ELSE installed(k, refresh_tls_protectors(k.tls))

refresh_packet_protectors(k) ==
    IF ~config.refresh THEN k ELSE installed(k, refresh_tls_protectors(k.tls))

-----------------------------------------------------------------------------
(* Sending *)

\* What excuses a packet without a protector: an application that installs the protectors
\* itself and has not yet.
Uninstalled == IF config.refresh THEN {} ELSE {"uninstalled"}

NoItems == [s \in SpaceSet |-> <<>>]

\* split_crypto_frames() has no budget for a long-header packet nothing can protect.
Unsplittable(k, items) ==
    \E s \in {"initial", "handshake"} \ k.discarded : items[s] # <<>> /\ <<s, "tx">> \notin k.protectors

pumped(k, r) ==
    IF ~r.ok THEN enter_closing([k EXCEPT !.tls = r.tls], {})
    ELSE IF Unsplittable(k, r.tls.outbound)
    THEN enter_closing([k EXCEPT !.tls = [r.tls EXCEPT !.outbound = NoItems], !.dirty = TRUE], Uninstalled)
    ELSE [k EXCEPT !.tls = [r.tls EXCEPT !.outbound = NoItems], !.dirty = TRUE,
                   !.queue = [s \in SpaceSet |-> IF s \in k.discarded THEN @[s] ELSE @[s] \o r.tls.outbound[s]]]

\* The mutant drains what TLS has written but never lets it write.
pump_without_advance(k, garbled) == pumped(k, [ok |-> TRUE, tls |-> k.tls])

pump_tls_crypto(k, garbled) == pumped(k, advance(k.tls, garbled))

application_send_allowed(k) == application_data_ready(k.tls) /\ "application" \in k.available

\* The mutant forgets the frames that did not fit.
send_packet_of_all(k, space, frames) ==
    [k EXCEPT !.next_number[space] = @ + 1,
              !.sent = Append(@, [space |-> space, number |-> k.next_number[space], frames |-> frames]),
              !.queue[space] = <<>>]

send_packet(k, space, frames) ==
    [k EXCEPT !.next_number[space] = @ + 1,
              !.sent = Append(@, [space |-> space, number |-> k.next_number[space], frames |-> frames]),
              !.queue[space] = SubSeq(@, Len(frames) + 1, Len(@))]

Fitting(queue) == SubSeq(queue, 1, IF Len(queue) < FramesPerPacket THEN Len(queue) ELSE FramesPerPacket)

\* What excuses a refusal to send: data before the handshake is confirmed.
Eager(k) == IF k.tls.state = "handshake_confirmed" THEN {} ELSE {"eager"}

\* One packet per space and call, as much of the queue as fits.
flush_space(k, space) ==
    IF ~active(k) \/ k.queue[space] = <<>> THEN k
    ELSE IF space \in k.discarded THEN clear_packet_space(k, space)
    ELSE IF space = "application" /\ ~application_send_allowed(k) THEN enter_closing(k, Eager(k))
    ELSE IF <<space, "tx">> \notin k.protectors THEN enter_closing(k, Uninstalled)
    ELSE send_packet(k, space, Fitting(k.queue[space]))

\* The mutant sends Application packets first.
flush_spaces_backwards(k) ==
    IF ~active(k) THEN k
    ELSE flush_space(flush_space(flush_space(k, "application"), "handshake"), "initial")

flush_spaces(k) ==
    IF ~active(k) THEN k
    ELSE flush_space(flush_space(flush_space(k, "initial"), "handshake"), "application")

flush(k, garbled) ==
    flush_spaces(refresh_key_lifecycle(pump_tls_crypto(refresh_key_lifecycle(k), garbled)))

-----------------------------------------------------------------------------
(* Receiving *)

\* The history fed counts the units given to TLS: the next in order is the one after them.
Misordered(k, unit) == IF unit[2] = k.fed[unit[1]] + 1 THEN {} ELSE {"misordered"}

fed_to_tls(k, unit, r) ==
    IF ~r.ok THEN enter_closing([k EXCEPT !.tls = r.tls], Misordered(k, unit))
    ELSE [k EXCEPT !.tls = r.tls, !.dirty = TRUE, !.fed[unit[1]] = @ + 1,
                   !.causes = @ \cup Misordered(k, unit)]

receive_crypto_frames(k, unit, garbled) ==
    IF unit[2] = 0 THEN k  \* a packet of application data
    ELSE fed_to_tls(k, unit, receive_crypto(k.tls, unit[1], unit, garbled))

refreshed_if_active(k) == IF active(k) THEN refresh_key_lifecycle(k) ELSE k

process_parsed_packet(k, p, garbled) ==
    IF p.number \in k.observed[p.space] THEN k
    ELSE refreshed_if_active(receive_crypto_frames([k EXCEPT !.observed[p.space] = @ \cup {p.number}],
                                                   p.unit, garbled))

\* How much of the peer's streams comes before its packets of a space.
Before(space) ==
    [initial |-> IF space = "initial" THEN 0 ELSE IF config.role = "client" THEN 1 ELSE HelloUnits,
     handshake |-> IF space # "application" THEN 0 ELSE IF config.role = "client" THEN FlightUnits ELSE 1]

Early(k, space) ==
    IF k.fed["initial"] < Before(space).initial \/ k.fed["handshake"] < Before(space).handshake
    THEN {"early"} ELSE Uninstalled

receive_packet(k, p, garbled) ==
    IF p.space \in k.discarded THEN clear_packet_space(k, p.space)
    ELSE IF <<p.space, "rx">> \notin k.protectors THEN enter_closing(k, Early(k, p.space))
    ELSE process_parsed_packet(k, p, garbled)

\* Protectors are refreshed behind every packet with a long header that was opened.
long_packet(k, p, garbled) ==
    IF ~active(k) THEN k
    ELSE IF p.space \in k.discarded THEN clear_packet_space(k, p.space)
    ELSE LET received == receive_packet(k, p, garbled)
         IN  IF active(received) THEN refresh_packet_protectors(received) ELSE received

on_datagram(k, packets, garbled) ==
    IF packets[1].space = "application"
    THEN receive_packet(refresh_key_lifecycle(k), packets[1], garbled)
    ELSE LET packet == [i \in 1..Len(packets) |-> [x \in Connections |-> long_packet(x, packets[i], garbled)]]
             after[i \in 0..Len(packets)] ==
                 IF i = 0 THEN refresh_key_lifecycle(k) ELSE packet[i][after[i - 1]]
         IN  after[Len(packets)]

-----------------------------------------------------------------------------
(* The peer: a conforming endpoint of the other role (external) *)

Peers ==
    [pc : Nat, got : SUBSET CryptoUnits, pending : Seq(CryptoUnits), sent : SUBSET CryptoUnits,
     number : Nat, secrets : SUBSET Secrets]

PeerScript == Script(IF config.role = "client" THEN "server" ELSE "client")

peer_step(p, op) ==
    CASE op.op = "write" -> [p EXCEPT !.pc = @ + 1, !.pending = Append(@, op.unit)]
      [] op.op = "yield" -> [p EXCEPT !.pc = @ + 1, !.secrets = @ \cup {<<op.level, op.direction>>}]
      [] OTHER -> [p EXCEPT !.pc = @ + 1]

peer_waits(p) ==
    p.pc > Len(PeerScript) \/ (PeerScript[p.pc].op = "read" /\ PeerScript[p.pc].unit \notin p.got)

peer_moves(p) == IF peer_waits(p) THEN p ELSE peer_step(p, PeerScript[p.pc])

\* It runs until it waits, which it does at the end of its script.
peer_run(p) ==
    LET moves == [x \in Peers |-> peer_moves(x)]
        run[n \in 0..Len(PeerScript)] == IF n = 0 THEN p ELSE moves[run[n - 1]]
    IN  run[Len(PeerScript)]

NewPeer == [pc |-> 1, got |-> {}, pending |-> <<>>, sent |-> {}, number |-> 0,
            secrets |-> {<<"initial", "tx">>, <<"initial", "rx">>}]

peer_done == peer.pc > Len(PeerScript) \/ PeerScript[peer.pc].unit = <<"application", 1>>

\* One packet per unit; only packets with long headers share a datagram.
PeerPackets(units) ==
    [i \in DOMAIN units |-> [space |-> units[i][1], number |-> peer.number + i, unit |-> units[i]]]
Coalesced(units) == Len(units) = 1 \/ \A i \in DOMAIN units : units[i][1] # "application"

ToFlowQ(packets) == [to |-> "flowq", packets |-> packets]

peer_sends(units) ==
    /\ network' = network \cup {ToFlowQ(PeerPackets(units))}
    /\ peer' = [peer EXCEPT !.number = @ + Len(units), !.sent = @ \cup Range(units),
                            !.pending = SubSeq(@, Len(units) + 1, Len(@))]

-----------------------------------------------------------------------------
(* The system *)

Init ==
    /\ config \in Configs
    /\ c = [state |-> "active", tls |-> openssl_tls_handshake_adapter(config), dirty |-> TRUE,
            available |-> {}, discarded |-> {}, protectors |-> {<<"initial", "tx">>, <<"initial", "rx">>},
            queue |-> [s \in SpaceSet |-> <<>>], observed |-> [s \in SpaceSet |-> {}],
            next_number |-> [s \in SpaceSet |-> 0], sent |-> <<>>,
            fed |-> [s \in SpaceSet |-> 0], causes |-> {}]
    /\ peer = peer_run(NewPeer)
    /\ network = {}
    /\ faults = [lost |-> 0, repeated |-> 0]

Garbled == {"alert", "wait"}

ToPeer(k) == {[to |-> "peer", packets |-> <<k.sent[i]>>] : i \in (Len(c.sent) + 1)..Len(k.sent)}

Flush ==
    /\ active(c)
    /\ c' \in {flush(c, garbled) : garbled \in Garbled}
    /\ network' = network \cup ToPeer(c')
    /\ UNCHANGED <<config, peer, faults>>

Remaining(d, kept) == IF kept THEN network ELSE network \ {d}
Repeats(kept) == IF kept THEN [faults EXCEPT !.repeated = @ + 1] ELSE faults
MayFail == faults.lost + faults.repeated < MaxFaults

\* A datagram that stays in the network arrives again.
OnDatagram(d, kept) ==
    /\ active(c)
    /\ d.to = "flowq"
    /\ kept => MayFail
    /\ c' \in {on_datagram(c, d.packets, garbled) : garbled \in Garbled}
    /\ network' = Remaining(d, kept)
    /\ faults' = Repeats(kept)
    /\ UNCHANGED <<config, peer>>

\* An application that installs protectors itself does it between two calls.
SetPacketProtectors ==
    /\ active(c) /\ ~config.refresh
    /\ refresh_tls_protectors(c.tls).ok
    /\ c' = set_packet_protectors(c, refresh_tls_protectors(c.tls).protectors)
    /\ UNCHANGED <<config, peer, network, faults>>

Data == <<"application", 0>>
DataItem == [level |-> "application", offset |-> 0, unit |-> Data]
DataSent == \E i \in DOMAIN c.sent : DataItem \in Range(c.sent[i].frames)
Dropped(space, cause) == IF c.queue[space] = <<>> THEN {} ELSE {cause}

\* The queue is replaced, with whatever was waiting in it.
queue_application ==
    /\ active(c) /\ ~DataSent /\ DataItem \notin Range(c.queue["application"])
    /\ c' = [c EXCEPT !.queue["application"] = <<DataItem>>,
                      !.causes = @ \cup Dropped("application", "overwritten")]
    /\ UNCHANGED <<config, peer, network, faults>>

\* Applications discard the Handshake space themselves, as the client tool does once confirmed.
discard_packet_space ==
    /\ active(c) /\ c.tls.state = "handshake_confirmed" /\ "handshake" \notin c.discarded
    /\ c' = clear_packet_space([c EXCEPT !.discarded = @ \cup {"handshake"},
                                         !.causes = @ \cup Dropped("handshake", "discarded")
                                                      \cup (IF c.tls.outbound["handshake"] = <<>> THEN {} ELSE {"discarded"})],
                               "handshake")
    /\ UNCHANGED <<config, peer, network, faults>>

PeerSend(n) ==
    /\ Coalesced(SubSeq(peer.pending, 1, n))
    /\ peer_sends(SubSeq(peer.pending, 1, n))
    /\ UNCHANGED <<config, c, faults>>

\* Data of the peer's application, as soon as the peer can protect it.
PeerSendsData ==
    /\ <<"application", "tx">> \in peer.secrets /\ Data \notin peer.sent
    /\ network' = network \cup {ToFlowQ(PeerPackets(<<Data>>))}
    /\ peer' = [peer EXCEPT !.number = @ + 1, !.sent = @ \cup {Data}]
    /\ UNCHANGED <<config, c, faults>>

\* The peer's loss timer: what it sent goes out again in a new packet.
PeerRepeats(unit) ==
    /\ MayFail
    /\ network' = network \cup {ToFlowQ(PeerPackets(<<unit>>))}
    /\ peer' = [peer EXCEPT !.number = @ + 1]
    /\ faults' = [faults EXCEPT !.repeated = @ + 1]
    /\ UNCHANGED <<config, c>>

Carried(p) == {<<p.space, item.offset + 1>> : item \in Range(p.frames) \ {DataItem}}

\* A packet the peer cannot open yet waits.
PeerReceive(d) ==
    /\ d.to = "peer" /\ <<d.packets[1].space, "rx">> \in peer.secrets
    /\ peer' = peer_run([peer EXCEPT !.got = @ \cup Carried(d.packets[1])])
    /\ network' = network \ {d}
    /\ UNCHANGED <<config, c, faults>>

Lose(d) ==
    /\ MayFail
    /\ network' = network \ {d}
    /\ faults' = [faults EXCEPT !.lost = @ + 1]
    /\ UNCHANGED <<config, c, peer>>

Receive == \E d \in network : OnDatagram(d, FALSE)
PeerReceives == \E d \in network : PeerReceive(d)
PeerSends == \E n \in DOMAIN peer.pending : PeerSend(n)

Next ==
    \/ Flush
    \/ Receive
    \/ \E d \in network : OnDatagram(d, TRUE)
    \/ SetPacketProtectors
    \/ queue_application
    \/ discard_packet_space
    \/ PeerSends
    \/ PeerSendsData
    \/ \E unit \in peer.sent : PeerRepeats(unit)
    \/ PeerReceives
    \/ \E d \in network : Lose(d)

FlushHelps == active(c) /\ \E garbled \in Garbled : flush(c, garbled) # c
SomethingArrives == active(c) /\ \E d \in network : d.to = "flowq"

\* The application calls flush and hands over arriving datagrams; the network delivers what it does
\* not lose; the peer makes progress.  (Weak fairness throughout; for the first two actions with the
\* condition that enables them spelled out.)
Fairness ==
    /\ []<>~FlushHelps \/ []<><<Flush>>_vars
    /\ []<>~SomethingArrives \/ []<><<Receive>>_vars
    /\ WF_vars(SetPacketProtectors) /\ WF_vars(PeerSends) /\ WF_vars(PeerReceives)

Spec == Init /\ [][Next]_vars /\ Fairness

-----------------------------------------------------------------------------
(* Properties *)

SentFrames == UNION {{<<i, f>> : f \in Range(c.sent[i].frames)} : i \in DOMAIN c.sent}

\* Every piece TLS writes leaves in packets of the level it was written for, at its place in that
\* level's stream, and never twice: crypto_send_cb() classifies it by the last send secret.
SentAtItsLevel ==
    \A x \in SentFrames :
        LET space == c.sent[x[1]].space
            unit == x[2].unit
        IN  unit # Data =>
              /\ unit = <<space, x[2].offset + 1>>
              /\ \A y \in SentFrames : y[2].unit = unit => y = x

Waiting(space) ==
    {item.offset : item \in (Range(c.queue[space]) \cup Range(c.tls.outbound[space])) \ {DataItem}}
Gone(space) == {x[2].offset : x \in {y \in SentFrames : c.sent[y[1]].space = space /\ y[2] # DataItem}}

\* As long as the connection lives, what TLS wrote was sent or waits to be sent, unless the
\* application itself discards the space or replaces its queue.
CryptoKept ==
    active(c) /\ c.causes \cap {"discarded", "overwritten"} = {} =>
        \A space \in SpaceSet : 0..(c.tls.offset[space] - 1) \subseteq Waiting(space) \cup Gone(space)

\* A client never drops CRYPTO data it has not sent: refresh_key_lifecycle() discards the Initial
\* space only when the whole ClientHello has left.
ClientCryptoKept == config.role = "client" => CryptoKept

\* A server never drops CRYPTO data it has not sent.
ServerCryptoKept == config.role = "server" => CryptoKept

\* A client's Application data never leaves before its Finished, without which the peer cannot
\* open it: the order in which flush() serves the spaces.  A client that discards the Handshake
\* space while its Finished waits there throws the Finished away and is exempt.
FinishedBeforeData ==
    config.role = "client" /\ c.causes \cap {"discarded"} = {} =>
        \A x \in SentFrames :
            x[2].unit = Data => \E z \in SentFrames : z[2].unit = <<"handshake", 1>> /\ z[1] < x[1]

Unusable == openssl_tls_handshake_adapter(config).state = "failed"

\* A connection closes during the handshake only for a reason outside it: an adapter that could not
\* be made, CRYPTO data that arrived out of order or again, a packet that overtook the data its keys
\* come from, an application that flushed data before the handshake was confirmed, has not
\* installed the protectors, discarded a space or replaced a queue with CRYPTO data in it, or
\* keys that could not be derived.  In particular a datagram with the
\* peer's whole flight is read to its end, and data may be flushed as soon as TLS is confirmed.
ClosesForCause == c.state = "closing" => Unusable \/ c.causes # {}

\* A client's handshake completes on both sides when no datagram is lost and nothing of the above
\* happens, in whatever way the peer packs its flight into datagrams and as long as the
\* congestion window and pacing have room for the client's own.
ClientCompletes ==
    (config.role = "client" /\ ~Unusable) ~>
        \/ c.tls.state = "handshake_confirmed" /\ peer_done
        \/ c.causes # {} \/ faults.lost > 0
====
