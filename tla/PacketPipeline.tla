---- MODULE PacketPipeline ----
(***************************************************************************)
(* From queued frames to datagrams and back (quic/packet_pipeline.hpp,      *)
(* quic/zero_copy_packet_builder.hpp, and the flush and datagram loops of   *)
(* quic/connection.hpp).  One side packs its frame queues into packets; the *)
(* network delivers them in any order, more than once, coalesced and cut to *)
(* the receiver's buffer; the other side parses what arrives.               *)
(*                                                                         *)
(* Packet protection is external: a sealed byte is a number above 255 that  *)
(* names the packet it was sealed for and its position, and opening checks  *)
(* key level, packet number, associated data and that every byte is there.  *)
(***************************************************************************)
EXTENDS Frames, PacketHeader, Bitwise

CONSTANTS
    Scenarios,          \* what a sender may start from: see Init
    MaxDatagramSize,    \* config_.pipeline.max_datagram_size
    NumberLimit,        \* the first packet number too large for a header, 2^32 in the code
    MinInitialSize,     \* minimum_client_initial_datagram_size, 1200 in the code
    Version,
    LocalCid,           \* of the sending side
    RemoteCid,          \* of the sending side, so the receiving side's own
    EndOfFlight,        \* byte that stands for the end of a TLS flight
    ReceiveSizes,       \* receive buffers, which cut a longer datagram (udp_session_config)
    TrailingZeros       \* numbers of zero bytes behind the last packet of a datagram

ASSUME NumberAssumption == NumberLimit \in Nat \ {0}

Spaces == {"initial", "handshake", "application"}

VARIABLES
    config,      \* the scenario: role, zero_copy, max_packet_payload_size, tx protectors,
                 \* handshake over or not
    tls,         \* crypto_bytes the TLS adapter of the sending side has to drain
    queue,       \* packet_spaces_[space].queue of the sending side
    offered,     \* history: every frame ever put in the queues
    next_number, \* packet_spaces_[space].next_packet_number of the sending side
    buffer,      \* buffer_ of the thread's zero-copy builder, which all connections share
    sending,     \* state_ of the sending side: "active" or "closing"; "undefined" once
                 \* it wrote outside the buffer
    sent,        \* history: the packets assembled, in order
    protectors,  \* spaces for which the receiving side has a protector
    discarded,   \* spaces whose keys the receiving side has discarded
    observed,    \* packet numbers of each space the receiving side has seen
    received,    \* the received_packet_events, in order
    receiving,   \* state_ of the receiving side
    causes       \* history: what was wrong with the datagrams so far

sender == <<config, tls, queue, offered, next_number, buffer, sending, sent>>
receiver == <<protectors, discarded, observed, received, receiving, causes>>
vars == <<sender, receiver>>

Overhead == 16            \* protection_overhead(): the AEAD tag
SampleSize == 16
fixed_packet_number_length == 4

-----------------------------------------------------------------------------
(* Packet protection, as the pipeline uses it *)

Cell(k, i) == 256 + (4096 * k) + i
protect(k, plain) == [i \in 1..(Len(plain) + Overhead) |-> Cell(k, i)]

unprotect(packets, space, number, aad, payload) ==
    LET opens(k) == /\ packets[k].space = space /\ packets[k].number = number /\ packets[k].aad = aad
                    /\ payload = protect(k, packets[k].plain)
        ks == {k \in DOMAIN packets : opens(k)}
    IN  IF ks = {} THEN [ok |-> FALSE] ELSE [ok |-> TRUE, plain |-> packets[CHOOSE k \in ks : TRUE].plain]

\* Five bytes that depend on the sampled ciphertext.
header_protection_mask(sample) == [i \in 1..5 |-> (sample[1] * (2 * i + 1)) % 256]

\* The low bits of the first byte and the packet number, with the mask applied.
Masked(b, number_at, length, bits, mask) ==
    [i \in DOMAIN b |->
        IF i = 1 THEN b[1] ^^ (mask[1] % bits)
        ELSE IF i \in (number_at + 1)..(number_at + length) THEN b[i] ^^ mask[i - number_at + 1]
        ELSE b[i]]

apply_long_header_protection(b, payload_size) ==
    LET number_at == Len(b) - payload_size
        mask == header_protection_mask(Sub(b, number_at + fixed_packet_number_length, SampleSize))
    IN  Masked(b, number_at, fixed_packet_number_length, 16, mask)

Unmasked(b, number_at, bits) ==
    LET mask == header_protection_mask(Sub(b, number_at + fixed_packet_number_length, SampleSize))
        first == b[1] ^^ (mask[1] % bits)
    IN  IF Len(b) - number_at < NumberLength(first) + SampleSize THEN <<>>
        ELSE Masked(b, number_at, NumberLength(first), bits, mask)

\* <<>> when the payload is too short for the sample.
remove_long_header_protection(b, payload_size) ==
    IF payload_size < fixed_packet_number_length + SampleSize THEN <<>>
    ELSE Unmasked(b, Len(b) - payload_size, 16)

apply_short_header_protection(b, dcid_length) ==
    LET number_at == 1 + dcid_length
        mask == header_protection_mask(Sub(b, number_at + fixed_packet_number_length, SampleSize))
    IN  Masked(b, number_at, fixed_packet_number_length, 32, mask)

remove_short_header_protection(b, dcid_length) ==
    IF Len(b) < 1 + dcid_length + fixed_packet_number_length + SampleSize THEN <<>>
    ELSE Unmasked(b, 1 + dcid_length, 32)

-----------------------------------------------------------------------------
(* Sending: splitting CRYPTO data, choosing frames, building packets *)

encode_frames(frames) == FlattenSeq([i \in DOMAIN frames |-> encode_frame(frames[i])])

crypto_frame_payload_budget(space) ==
    LET budget == Min({config.max_packet_payload_size, MaxDatagramSize})
        header == 1 + 4 + 1 + Len(RemoteCid) + 1 + Len(LocalCid)
                    + Bit(space = "initial") + encoded_size(MaxDatagramSize)
    IN  IF space = "application" THEN budget
        ELSE IF space \notin config.tx THEN 0
        ELSE Max({0, budget - (header + fixed_packet_number_length + Overhead)})

crypto_frame_chunk_size(space, offset, remaining) ==
    IF ~Representable(offset) THEN 0
    ELSE Max({0, crypto_frame_payload_budget(space) - (1 + encoded_size(offset) + encoded_size(remaining))})

-----------------------------------------------------------------------------
RECURSIVE split_crypto_frames(_, _, _)
split_crypto_frames(space, offset, data) ==
    LET n == Min({crypto_frame_chunk_size(space, offset, Len(data)), Len(data)})
        rest == split_crypto_frames(space, offset + n, Sub(data, n, Len(data) - n))
    IN  IF data = <<>> THEN [ok |-> TRUE, frames |-> <<>>]
        ELSE IF n = 0 THEN [ok |-> FALSE, frames |-> <<>>]
        ELSE [ok |-> rest.ok,
              frames |-> <<[type |-> "crypto", offset |-> offset, data |-> Sub(data, 0, n)]>> \o rest.frames]

\* The longest prefix of the queue that fits; a frame that cannot be encoded is an error.
select_frames_for_payload_budget(candidates) ==
    LET fits(n) == \A i \in 1..n : /\ Encodable(candidates[i])
                                  /\ Len(encode_frames(SubSeq(candidates, 1, i)))
                                       <= config.max_packet_payload_size
        n == Max({m \in 0..Len(candidates) : fits(m)})
    IN  [ok |-> n < Len(candidates) => Encodable(candidates[n + 1]), frames |-> SubSeq(candidates, 1, n)]

long_header(space, payload) ==
    IF space = "initial"
    THEN [kind |-> "initial", first |-> 195, version |-> Version, dcid |-> RemoteCid, scid |-> LocalCid,
          token |-> <<>>, payload |-> payload]
    ELSE [kind |-> "handshake", first |-> 227, version |-> Version, dcid |-> RemoteCid, scid |-> LocalCid,
          payload |-> payload]

encode_long_packet_sizing_header(space, payload_length) ==
    encode_packet_header(long_header(space, Zeros(payload_length)))

NoPacket == [ok |-> FALSE]

\* Pads, and takes padding back when the length field grew, until the size is exact.
RECURSIVE padded_to_minimum(_, _)
padded_to_minimum(plain, added) ==
    LET size == Len(encode_long_packet_sizing_header("initial",
                        fixed_packet_number_length + Len(plain) + Overhead))
        excess == size - MinInitialSize
    IN  IF excess = 0 THEN [ok |-> TRUE, plain |-> plain]
        ELSE IF excess > added THEN NoPacket
        ELSE IF excess > 0 THEN padded_to_minimum(Sub(plain, 0, Len(plain) - excess), added - excess)
        ELSE padded_to_minimum(plain \o Zeros(-excess), added - excess)

LongPacketOf(space, number, k, plain) ==
    LET length == fixed_packet_number_length + Len(plain) + Overhead
        sizing == encode_long_packet_sizing_header(space, length)
        number_bytes == big_endian(number, fixed_packet_number_length)
        encoded == encode_packet_header(long_header(space, number_bytes \o protect(k, plain)))
    IN  IF Len(encoded) > MaxDatagramSize THEN NoPacket
        ELSE [ok |-> TRUE, plain |-> plain, aad |-> Sub(sizing, 0, Len(sizing) - length) \o number_bytes,
              datagram |-> apply_long_header_protection(encoded, length)]

\* Mutant: pads once, though padding may make the length field longer.
assemble_padded_once(space, number, frames, k) ==
    LET plain == encode_frames(frames)
        size == Len(encode_long_packet_sizing_header(space, fixed_packet_number_length + Len(plain) + Overhead))
    IN  LongPacketOf(space, number, k,
                     plain \o (IF config.client /\ space = "initial" THEN Zeros(MinInitialSize - size) ELSE <<>>))

\* enforce_initial_datagram_minimum: the Initial packets of a client.
assemble_long_packet(space, number, frames, k) ==
    LET enforce == config.client /\ space = "initial"
        padded == padded_to_minimum(encode_frames(frames), 0)
    IN  IF space \notin config.tx \/ number >= NumberLimit THEN NoPacket
        ELSE IF ~enforce THEN LongPacketOf(space, number, k, encode_frames(frames))
        ELSE IF MaxDatagramSize < MinInitialSize THEN NoPacket
        ELSE IF ~padded.ok THEN NoPacket
        ELSE LongPacketOf(space, number, k, padded.plain)

short_header(number, payload) ==
    [kind |-> "short", dcid |-> RemoteCid, spin_bit |-> FALSE, key_phase |-> FALSE,
     number_length |-> fixed_packet_number_length, number |-> number, payload |-> payload]

ApplicationPacketOf(number, plain, k) ==
    LET length == Len(plain) + Overhead
        sizing == encode_packet_header(short_header(number, Zeros(length)))
        encoded == encode_packet_header(short_header(number, protect(k, plain)))
    IN  IF "application" \notin config.tx \/ Len(encoded) > MaxDatagramSize THEN NoPacket
        ELSE [ok |-> TRUE, plain |-> plain, aad |-> Sub(sizing, 0, Len(sizing) - length),
              datagram |-> apply_short_header_protection(encoded, Len(RemoteCid))]

assemble_application_packet(number, frames, k) ==
    IF number >= NumberLimit THEN NoPacket ELSE ApplicationPacketOf(number, encode_frames(frames), k)

-----------------------------------------------------------------------------
(* The zero-copy builder: one buffer per thread, as large as the first      *)
(* connection of the thread asked for, with whatever was left in it.        *)

max_header_reserve == 32  \* the frames are staged behind it

Written(b, at, bytes) ==
    [i \in DOMAIN b |-> IF i \in (at + 1)..(at + Len(bytes)) THEN bytes[i - at] ELSE b[i]]

\* No check of the packet number: its low bytes are written.
header_in_place(number) == <<67>> \o RemoteCid \o big_endian(number % NumberLimit, fixed_packet_number_length)

\* write_span and protect_in_place write without a check of the buffer's size.
overruns(bytes) ==
    /\ config.zero_copy /\ "application" \in config.tx
    /\ \/ max_header_reserve + Len(bytes) > Len(buffer)
       \/ Len(header_in_place(0)) + Len(bytes) + Overhead > Len(buffer)

\* Mutant: the frames stay behind the reserve.
not_moved_up(number, bytes) ==
    Written(Written(buffer, max_header_reserve, bytes), 0, header_in_place(number))

\* The frames are staged, the header is written at the front, the frames are moved up to it.
moved_up(number, bytes) ==
    LET header == header_in_place(number)
        staged == Written(Written(buffer, max_header_reserve, bytes), 0, header)
    IN  Written(staged, Len(header), Sub(staged, max_header_reserve, Len(bytes)))

\* The frames are sealed where they are, and the header is protected.
sealed_in_place(number, bytes, k) ==
    LET moved == moved_up(number, bytes)
        size == Len(header_in_place(number))
        packet == Sub(moved, 0, size) \o protect(k, Sub(moved, size, Len(bytes)))
    IN  Written(moved, 0, apply_short_header_protection(packet, Len(RemoteCid)))

build_in_place(number, bytes, k) ==
    LET moved == moved_up(number, bytes)
        size == Len(header_in_place(number))
        total == size + Len(bytes) + Overhead
    IN  IF "application" \notin config.tx \/ total > MaxDatagramSize THEN NoPacket
        ELSE [ok |-> TRUE, plain |-> Sub(moved, size, Len(bytes)), aad |-> Sub(moved, 0, size),
              datagram |-> Sub(sealed_in_place(number, bytes, k), 0, total)]

build_application_packet(number, frames, k) == build_in_place(number, encode_frames(frames), k)

assemble_space(space, number, frames, k) ==
    IF space # "application" THEN assemble_long_packet(space, number, frames, k)
    ELSE IF config.zero_copy THEN build_application_packet(number, frames, k)
    ELSE assemble_application_packet(number, frames, k)

-----------------------------------------------------------------------------
(* Receiving: packet boundaries, header protection, frames *)

\* 0 stands for an error.
long_packet_wire_size(b) ==
    LET dcid == read_connection_id(b, 5)
        scid == read_connection_id(b, dcid.at)
        token_length == decode_varint(b, scid.at)
        length_at == IF TypeBits(b[1]) # 0 THEN scid.at
                     ELSE IF ~token_length.ok THEN Len(b) + 1
                     ELSE token_length.at + token_length.value
        length == decode_varint(b, length_at)
    IN  IF b = <<>> THEN 0
        ELSE IF ~LongForm(b[1]) \/ ~FixedBit(b[1]) \/ ~dcid.ok THEN 0
        ELSE IF ~scid.ok \/ TypeBits(b[1]) \notin {0, 2} THEN 0
        ELSE IF length_at > Len(b) THEN 0
        ELSE IF ~length.ok THEN 0
        ELSE IF length.value > Len(b) - length.at THEN 0
        ELSE length.at + length.value

NotParsed == [ok |-> FALSE]

\* The steps of the two parsers, each with the result of the one before.
WithFrames(space, number, decoded) ==
    IF decoded.ok THEN [ok |-> TRUE, space |-> space, number |-> number, frames |-> decoded.frames]
    ELSE NotParsed

Opened(space, number, result) ==
    IF result.ok THEN WithFrames(space, number, decode_frames(result.plain)) ELSE NotParsed

OpenLong(clear, h, n, space) ==
    LET number == from_big_endian(0, Sub(h.payload, 0, n))
        aad == Sub(clear, 0, Len(clear) - Len(h.payload) + n)
    IN  IF h.kind # space THEN NotParsed
        ELSE IF Len(h.payload) < n THEN NotParsed
        ELSE Opened(space, number, unprotect(sent, space, number, aad, Sub(h.payload, n, Len(h.payload) - n)))

OpenShort(clear, h) ==
    LET aad == Sub(clear, 0, 1 + Len(h.dcid) + h.number_length)
    IN  IF h.kind # "short" THEN NotParsed
        ELSE Opened("application", h.number, unprotect(sent, "application", h.number, aad, h.payload))

UnmaskedLong(clear, space) ==
    IF clear = <<>> THEN NotParsed
    ELSE OpenLong(clear, decode_packet_header(clear), NumberLength(clear[1]), space)

parse_long_packet(b, h, space) ==
    IF h.kind \notin {"initial", "handshake"} THEN NotParsed
    ELSE UnmaskedLong(remove_long_header_protection(b, Len(h.payload)), space)

parse_short_packet(b, dcid_length) ==
    LET opened(clear) == IF clear = <<>> THEN NotParsed
                         ELSE OpenShort(clear, decode_short_header(clear, dcid_length))
    IN  opened(remove_short_header_protection(b, dcid_length))

\* Mutant: only the packets themselves are accepted.
nothing_left(b) == b = <<>>

all_zero_padding(b) == \A i \in DOMAIN b : b[i] = 0

\* The receiving side's TLS has the keys of the next space once the flight is complete.
tls_yields(space, frames) ==
    LET complete == \E i \in DOMAIN frames : /\ frames[i].type = "crypto" /\ frames[i].data # <<>>
                                            /\ Last(frames[i].data) = EndOfFlight
    IN  IF ~complete THEN {} ELSE IF space = "initial" THEN {"handshake"}
        ELSE IF space = "handshake" THEN {"application"} ELSE {}

HasType(frames, types) == \E i \in DOMAIN frames : frames[i].type \in types

validate_inbound_frame_packet_space(space, frames) ==
    space = "application"
      \/ \A i \in DOMAIN frames : frames[i].type \in {"padding", "ping", "ack", "crypto", "connection_close"}

\* A client is never sent what only servers send: the receiver of a client is a server.
validate_inbound_frame_role(frames) == config.client => ~HasType(frames, {"handshake_done", "new_token"})

ack_ranges_valid(ack) ==
    LET next(low, range) == low - (range.gap + 2) - range.length
        lows == FoldLeft(LAMBDA seen, range : Append(seen, next(Last(seen), range)),
                         <<ack.largest - ack.first>>, ack.ranges)
    IN  \A i \in DOMAIN lows : lows[i] >= 0

validate_inbound_ack_ranges(frames) ==
    \A i \in DOMAIN frames : frames[i].type = "ack" => ack_ranges_valid(frames[i])

\* r is the receiving side's state, threaded through the packets of a datagram.
enter(r, state) == [r EXCEPT !.receiving = state, !.observed = [s \in Spaces |-> {}]]
enter_closing(r) == enter(r, "closing")

\* Mutant: the answer of observe() is ignored.
process_every_packet(r, p) ==
    [r EXCEPT !.observed[p.space] = @ \union {p.number},
              !.protectors = @ \union tls_yields(p.space, p.frames),
              !.received = Append(@, [space |-> p.space, number |-> p.number, frames |-> p.frames])]

process_parsed_packet(r, p) ==
    LET seen == [r EXCEPT !.observed[p.space] = @ \union {p.number}]
        keys == tls_yields(p.space, p.frames)
        gone == IF "handshake" \in keys THEN {"initial"} ELSE {}
    IN  IF p.number \in r.observed[p.space] THEN r
        ELSE IF ~validate_inbound_frame_packet_space(p.space, p.frames) THEN enter_closing(seen)
        ELSE IF ~validate_inbound_frame_role(p.frames) THEN enter_closing(seen)
        ELSE IF ~validate_inbound_ack_ranges(p.frames) THEN enter_closing(seen)
        ELSE IF HasType(p.frames, {"connection_close", "application_close"})
             THEN enter(seen, "draining")
        ELSE [seen EXCEPT !.protectors = @ \union keys,
                          !.discarded = @ \union gone,
                          !.observed = [s \in Spaces |-> IF s \in gone THEN {} ELSE @[s]],
                          !.received = Append(@, [space |-> p.space, number |-> p.number, frames |-> p.frames])]

processed(r, p) == IF p.ok THEN process_parsed_packet(r, p) ELSE enter_closing(r)

\* One long packet of a datagram, whose header is h.
long_packet(r, packet, h) ==
    LET space == IF h.kind = "handshake" THEN "handshake" ELSE "initial"
    IN  IF h.kind = "error" THEN enter_closing(r)
        ELSE IF space \in r.discarded THEN r
        ELSE IF space \notin r.protectors THEN enter_closing(r)
        ELSE processed(r, parse_long_packet(packet, h, space))

-----------------------------------------------------------------------------
RECURSIVE long_packets(_, _)
long_packets(r, b) ==
    LET size == long_packet_wire_size(b)
        packet == Sub(b, 0, size)
    IN  IF b = <<>> \/ r.receiving # "active" THEN r
        ELSE IF size = 0 THEN IF all_zero_padding(b) THEN r ELSE enter_closing(r)
        ELSE long_packets(long_packet(r, packet, decode_packet_header(packet)), Sub(b, size, Len(b) - size))

on_datagram(r, b) ==
    IF r.receiving # "active" THEN r
    ELSE IF b = <<>> \/ LongForm(b[1]) THEN long_packets(r, b)
    ELSE IF "application" \notin r.protectors THEN enter_closing(r)
    ELSE processed(r, parse_short_packet(b, Len(RemoteCid)))

-----------------------------------------------------------------------------
(* The two sides and the network between them *)

Init ==
    /\ config \in Scenarios
    /\ tls = config.tls
    /\ queue = config.queue
    /\ offered = config.queue
    /\ next_number = [s \in Spaces |-> config.first_number]
    /\ buffer = Zeros(config.buffer_size)
    /\ sending = "active"
    /\ sent = <<>>
    /\ protectors = IF config.established THEN Spaces ELSE {"initial"}
    /\ discarded = IF config.established THEN {"initial", "handshake"} ELSE {}
    /\ observed = [s \in Spaces |-> {}]
    /\ received = <<>>
    /\ receiving = "active"
    /\ causes = {}

pump_tls_crypto ==
    LET split == FoldLeft(
                    LAMBDA q, item :
                        LET s == split_crypto_frames(item.space, item.offset, item.data)
                        IN  IF ~q.ok \/ ~s.ok THEN [q EXCEPT !.ok = FALSE]
                            ELSE [q EXCEPT !.frames[item.space] = @ \o s.frames],
                    [ok |-> TRUE, frames |-> [s \in Spaces |-> <<>>]], tls)
    IN  /\ sending = "active" /\ tls # <<>>
        /\ tls' = <<>>
        /\ queue' = [s \in Spaces |-> IF split.ok THEN queue[s] \o split.frames[s] ELSE <<>>]
        /\ offered' = [s \in Spaces |-> offered[s] \o split.frames[s]]
        /\ sending' = IF split.ok THEN "active" ELSE "closing"
        /\ UNCHANGED <<config, next_number, buffer, sent, receiver>>

\* The frames flush_space takes from the queue of a space, and the packet it makes of them.
Selected(space) == select_frames_for_payload_budget(queue[space])

NextPacket(space) ==
    LET assembled(selected) ==
            IF ~selected.ok \/ selected.frames = <<>> THEN NoPacket
            ELSE assemble_space(space, next_number[space], selected.frames, Len(sent) + 1)
                   @@ [space |-> space, number |-> next_number[space], frames |-> selected.frames]
    IN  assembled(Selected(space))

Flushable(space) == sending = "active" /\ queue[space] # <<>>

\* Only Application packets are built in place, and only of frames that can be encoded.
OutOfBounds(space) ==
    space = "application" /\ Selected(space).ok /\ overruns(encode_frames(Selected(space).frames))

\* What the call leaves in the shared buffer, whether or not a packet comes of it.
buffer_left(space) ==
    LET selected == Selected(space)
        built == /\ space = "application" /\ config.zero_copy /\ "application" \in config.tx
                 /\ selected.ok /\ selected.frames # <<>>
    IN  IF ~built THEN buffer
        ELSE sealed_in_place(next_number[space], encode_frames(selected.frames), Len(sent) + 1)

\* Mutant: erases the frame behind the last one selected, too.
flush_space_skipping(space) ==
    /\ Flushable(space) /\ ~OutOfBounds(space)
    /\ \E packet \in {NextPacket(space)} :
          /\ packet.ok
          /\ sent' = Append(sent, packet)
          /\ queue' = [queue EXCEPT ![space] = SubSeq(@, Len(packet.frames) + 2, Len(@))]
    /\ next_number' = [next_number EXCEPT ![space] = @ + 1]
    /\ buffer' = buffer_left(space)
    /\ UNCHANGED <<config, tls, offered, sending, receiver>>

flush_space(space) ==
    /\ Flushable(space) /\ ~OutOfBounds(space)
    /\ \E packet \in {NextPacket(space)} :
          /\ packet.ok
          /\ sent' = Append(sent, packet)
          /\ queue' = [queue EXCEPT ![space] = SubSeq(@, Len(packet.frames) + 1, Len(@))]
    /\ next_number' = [next_number EXCEPT ![space] = @ + 1]
    /\ buffer' = buffer_left(space)
    /\ UNCHANGED <<config, tls, offered, sending, receiver>>

flush_space_fails(space) ==
    /\ Flushable(space) /\ ~OutOfBounds(space)
    /\ ~NextPacket(space).ok
    /\ sending' = "closing"
    /\ queue' = [s \in Spaces |-> <<>>]
    /\ buffer' = buffer_left(space)
    /\ UNCHANGED <<config, tls, offered, next_number, sent, receiver>>

\* Nothing is said of the sending side after a write outside the buffer.
flush_space_overruns(space) ==
    /\ Flushable(space) /\ OutOfBounds(space)
    /\ sending' = "undefined"
    /\ UNCHANGED <<config, tls, queue, offered, next_number, buffer, sent, receiver>>

\* Another connection of the thread fills the buffer with a packet of its own.
other_connection_builds ==
    /\ buffer # <<>> /\ sending # "undefined"
    /\ buffer' = [i \in DOMAIN buffer |-> 170]
    /\ UNCHANGED <<config, tls, queue, offered, next_number, sending, sent, receiver>>

AllowedFrames(k) ==
    /\ validate_inbound_frame_packet_space(sent[k].space, sent[k].frames)
    /\ validate_inbound_frame_role(sent[k].frames)
    /\ validate_inbound_ack_ranges(sent[k].frames)

\* What the network, or the sender, did to the packets ks of one datagram.
Faults(ks, zeros, was_cut) ==
    LET space(i) == sent[ks[i]].space
        yielded(i) == UNION {tls_yields(space(j), sent[ks[j]].frames) : j \in 1..(i - 1)}
        early(i) == space(i) \notin protectors \union discarded \union yielded(i)
    IN  {f \in {"cut", "beside_short", "early", "not_allowed"} :
            CASE f = "cut" -> was_cut
              [] f = "beside_short" -> \E i \in DOMAIN ks : space(i) = "application" /\ Len(ks) + zeros > 1
              [] f = "early" -> \E i \in DOMAIN ks : early(i)
              [] f = "not_allowed" -> \E i \in DOMAIN ks : ~AllowedFrames(ks[i])}

\* One datagram arrives: one or two of the packets sent, in any order and any number of
\* times, with zero bytes behind them, in a buffer that may be too small.
Deliver ==
    \E ks \in {<<k>> : k \in DOMAIN sent} \union {<<j, k>> : j, k \in DOMAIN sent},
       zeros \in TrailingZeros, size \in ReceiveSizes :
        LET whole == FlattenSeq([i \in DOMAIN ks |-> sent[ks[i]].datagram]) \o Zeros(zeros)
            before == [protectors |-> protectors, discarded |-> discarded, observed |-> observed,
                       received |-> received, receiving |-> receiving]
        IN  /\ receiving = "active"
            /\ \E r \in {on_datagram(before, Sub(whole, 0, Min({size, Len(whole)})))} :
                  /\ protectors' = r.protectors /\ discarded' = r.discarded /\ observed' = r.observed
                  /\ received' = r.received /\ receiving' = r.receiving
            /\ causes' = Faults(ks, zeros, size < Len(whole))
            /\ UNCHANGED sender

Next ==
    \/ pump_tls_crypto
    \/ \E space \in Spaces : flush_space(space) \/ flush_space_fails(space) \/ flush_space_overruns(space)
    \/ other_connection_builds
    \/ Deliver

Spec == Init /\ [][Next]_vars

-----------------------------------------------------------------------------
(* Properties *)

NoPadding(frames) == SelectSeq(frames, LAMBDA f : f.type # "padding")

\* Every packet event reports the frames of a packet that was sent under that number, all of
\* them and in order, and no packet is reported twice, whatever the network does to the
\* datagrams: the encoders and decoders of frames and headers, packet protection and the
\* duplicate check of process_parsed_packet fit together.
FaithfulDelivery ==
    /\ \A i \in DOMAIN received : \E k \in DOMAIN sent :
          /\ sent[k].space = received[i].space /\ sent[k].number = received[i].number
          /\ NoPadding(sent[k].frames) = NoPadding(received[i].frames)
    /\ \A i, j \in DOMAIN received :
          received[i].space = received[j].space /\ received[i].number = received[j].number => i = j

\* No queued frame is skipped, repeated or reordered when flush_space cuts the queue into
\* packets: the packets sent in a space, and what is still queued, are what was queued.
NothingLostInPacking ==
    sending = "active" =>
        \A s \in Spaces :
            LET mine == SelectSeq(sent, LAMBDA p : p.space = s)
            IN  FlattenSeq([i \in DOMAIN mine |-> mine[i].frames]) \o queue[s] = offered[s]

\* The receiving side closes only when the last datagram was cut by the receive buffer, had
\* something beside a short-header packet, came before its keys or carried a frame its space
\* or role forbids; it drains only when the peer closed.  Reordering, repetition, coalesced
\* long packets and trailing zero padding are harmless in on_datagram.
ClosedForCause ==
    /\ receiving = "closing" => causes # {}
    /\ receiving = "draining" =>
          \E k \in DOMAIN sent : HasType(sent[k].frames, {"connection_close", "application_close"})

\* No datagram exceeds max_datagram_size, and one with a client's Initial packet is padded to
\* exactly the minimum, though the padding itself may lengthen the length field.
DatagramSizes ==
    \A k \in DOMAIN sent :
        /\ Len(sent[k].datagram) <= MaxDatagramSize
        /\ config.client /\ sent[k].space = "initial" => Len(sent[k].datagram) = MinInitialSize

\* Whatever is queued next and whatever earlier packets and other connections left in the
\* shared buffer, the zero-copy builder makes the packet the copying one makes or refuses it
\* as well, as long as the frames can be staged within the buffer and the packet number can
\* be encoded: no byte of another packet gets into this one.
ZeroCopyAgrees ==
    LET selected == Selected("application")
        number == next_number["application"]
    IN  /\ config.zero_copy /\ selected.ok /\ number < NumberLimit
        /\ ~overruns(encode_frames(selected.frames))
        => build_application_packet(number, selected.frames, Len(sent) + 1)
             = assemble_application_packet(number, selected.frames, Len(sent) + 1)

\* What docs/reference/zero-copy-design.md promises without a condition, identical behaviour
\* of the two paths: the copying path always sends or closes.
ZeroCopyIsDefined == sending # "undefined"

\* Room a packet of the space needs beside its frames.
PacketOverhead(space) ==
    (IF space = "application" THEN 1 + Len(RemoteCid)
     ELSE 7 + Len(RemoteCid) + Len(LocalCid) + Bit(space = "initial") + 2) + 4 + 16

SendableAlone(space, f) ==
    /\ space \in config.tx
    /\ Encodable(f)
    /\ Len(encode_frame(f)) <= config.max_packet_payload_size
    /\ Len(encode_frame(f)) + PacketOverhead(space) <= MaxDatagramSize

\* A connection does not close over what it has to send when each frame it was given could be
\* sent in a packet of its own: split_crypto_frames cuts a TLS flight of any length into pieces
\* that fit, and flush_space puts no more into a packet than a datagram holds.
SendableIsSent ==
    (/\ \A s \in Spaces : \A i \in DOMAIN config.queue[s] : SendableAlone(s, config.queue[s][i])
     /\ \A i \in DOMAIN config.tls : config.tls[i].space \in config.tx)
        => sending = "active"
====
