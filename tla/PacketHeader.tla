---- MODULE PacketHeader ----
(***************************************************************************)
(* The long- and short-header codecs (quic/packet_header.hpp).  A header is *)
(* a record whose field kind names the C++ struct; payload is the protected *)
(* payload, which the codec copies without looking at it.                   *)
(***************************************************************************)
EXTENDS Varint

LongForm(first) == first >= 128
FixedBit(first) == (first \div 64) % 2 = 1
TypeBits(first) == (first \div 16) % 4    \* 0 Initial, 1 0-RTT, 2 Handshake, 3 Retry
NumberLength(first) == (first % 4) + 1
KeyPhase(first) == (first \div 4) % 2 = 1
SpinBit(first) == (first \div 32) % 2 = 1

append_connection_id(id) == <<Len(id)>> \o id

read_connection_id(b, at) ==
    IF at >= Len(b) THEN [ok |-> FALSE]
    ELSE IF b[at + 1] > Len(b) - at - 1 THEN [ok |-> FALSE]
    ELSE [ok |-> TRUE, id |-> Sub(b, at + 1, b[at + 1]), at |-> at + 1 + b[at + 1]]

-----------------------------------------------------------------------------
(* Encoding *)

LongPrefix(h, version) ==
    <<h.first>> \o big_endian(version, 4) \o append_connection_id(h.dcid) \o append_connection_id(h.scid)

\* Four bytes for every version.
append_versions(versions) ==
    [i \in 1..(4 * Len(versions)) |-> big_endian(versions[(i + 3) \div 4], 4)[((i - 1) % 4) + 1]]

encode_version_negotiation(h) == LongPrefix(h, 0) \o append_versions(h.versions)

encode_initial(h) ==
    LongPrefix(h, h.version) \o encode_varint(Len(h.token)) \o h.token
      \o encode_varint(Len(h.payload)) \o h.payload

encode_handshake(h) == LongPrefix(h, h.version) \o encode_varint(Len(h.payload)) \o h.payload

encode_retry(h) == LongPrefix(h, h.version) \o h.tail

short_header_first_byte(h) ==
    (h.number_length - 1) + 64 + (IF h.spin_bit THEN 32 ELSE 0) + (IF h.key_phase THEN 4 ELSE 0)

encode_short(h) ==
    <<short_header_first_byte(h)>> \o h.dcid \o big_endian(h.number, h.number_length) \o h.payload

encode_packet_header(h) ==
    CASE h.kind = "version_negotiation" -> encode_version_negotiation(h)
      [] h.kind = "initial" -> encode_initial(h)
      [] h.kind = "handshake" -> encode_handshake(h)
      [] h.kind = "retry" -> encode_retry(h)
      [] h.kind = "short" -> encode_short(h)

-----------------------------------------------------------------------------
(* Decoding: a header of kind "error" stands for every refusal. *)

BadHeader == [kind |-> "error"]

decode_version_negotiation(b, at) ==
    LET dcid == read_connection_id(b, at)
        scid == read_connection_id(b, dcid.at)
        left == Len(b) - scid.at
    IN  IF ~dcid.ok THEN BadHeader
        ELSE IF ~scid.ok THEN BadHeader
        ELSE IF left = 0 \/ left % 4 # 0 THEN BadHeader
        ELSE [kind |-> "version_negotiation", first |-> b[1], dcid |-> dcid.id, scid |-> scid.id,
              versions |-> [i \in 1..(left \div 4) |->
                               from_big_endian(0, Sub(b, scid.at + 4 * (i - 1), 4))]]

decode_initial(h, b, at) ==
    LET token_length == decode_varint(b, at)
        length == decode_varint(b, token_length.at + token_length.value)
    IN  IF ~token_length.ok THEN BadHeader
        ELSE IF token_length.value > Len(b) - token_length.at THEN BadHeader
        ELSE IF ~length.ok THEN BadHeader
        ELSE IF length.value # Len(b) - length.at THEN BadHeader
        ELSE [kind |-> "initial", first |-> h.first, version |-> h.version, dcid |-> h.dcid, scid |-> h.scid,
              token |-> Sub(b, token_length.at, token_length.value),
              payload |-> Sub(b, length.at, length.value)]

decode_handshake(h, b, at) ==
    LET length == decode_varint(b, at)
    IN  IF ~length.ok THEN BadHeader
        ELSE IF length.value # Len(b) - length.at THEN BadHeader
        ELSE [kind |-> "handshake", first |-> h.first, version |-> h.version, dcid |-> h.dcid,
              scid |-> h.scid, payload |-> Sub(b, length.at, length.value)]

decode_retry(h, b, at) ==
    IF at = Len(b) THEN BadHeader
    ELSE [kind |-> "retry", first |-> h.first, version |-> h.version, dcid |-> h.dcid, scid |-> h.scid,
          tail |-> Sub(b, at, Len(b) - at)]

\* Version 0 is a Version Negotiation packet, before the fixed bit is looked at.
decode_packet_header(b) ==
    LET version == from_big_endian(0, Sub(b, 1, 4))
        dcid == read_connection_id(b, 5)
        scid == read_connection_id(b, dcid.at)
        h == [first |-> b[1], version |-> version, dcid |-> dcid.id, scid |-> scid.id]
    IN  IF b = <<>> THEN BadHeader
        ELSE IF ~LongForm(b[1]) \/ Len(b) < 5 THEN BadHeader
        ELSE IF version = 0 THEN decode_version_negotiation(b, 5)
        ELSE IF ~FixedBit(b[1]) \/ ~dcid.ok THEN BadHeader
        ELSE IF ~scid.ok THEN BadHeader
        ELSE CASE TypeBits(b[1]) = 0 -> decode_initial(h, b, scid.at)
               [] TypeBits(b[1]) = 2 -> decode_handshake(h, b, scid.at)
               [] TypeBits(b[1]) = 3 -> decode_retry(h, b, scid.at)
               [] OTHER -> BadHeader

\* A short header does not say how long its connection ID is: the caller does.
decode_short_header(b, dcid_length) ==
    LET n == NumberLength(b[1])
        number_at == 1 + dcid_length
    IN  IF b = <<>> THEN BadHeader
        ELSE IF LongForm(b[1]) \/ ~FixedBit(b[1]) \/ dcid_length > Len(b) - 1 THEN BadHeader
        ELSE IF Len(b) - number_at < n THEN BadHeader
        ELSE [kind |-> "short", first |-> b[1], dcid |-> Sub(b, 1, dcid_length),
              spin_bit |-> SpinBit(b[1]), key_phase |-> KeyPhase(b[1]), number_length |-> n,
              number |-> from_big_endian(0, Sub(b, number_at, n)),
              payload |-> Sub(b, number_at + n, Len(b) - number_at - n)]
====
