---- MODULE Frames ----
(***************************************************************************)
(* The QUIC frame codec (quic/frame.hpp).  A frame is a record whose field  *)
(* type names the C++ struct.  encode_frame is written from the encoders    *)
(* and decode_frames, separately, from the decoder.                         *)
(***************************************************************************)
EXTENDS Varint, FiniteSets, SequencesExt

TokenSize == 16       \* stateless reset token
PathDataSize == 8     \* PATH_CHALLENGE and PATH_RESPONSE data
MaxCidSize == 20

V(v) == encode_varint(v)
WithLength(data) == V(Len(data)) \o data
Bit(p) == IF p THEN 1 ELSE 0

-----------------------------------------------------------------------------
(* Encoding *)

encode_connection_close(f) == V(28) \o V(f.code) \o V(f.frame_type) \o WithLength(f.reason)

encode_application_close(f) == V(29) \o V(f.code) \o WithLength(f.reason)

encode_reset_stream(f) == V(4) \o V(f.id) \o V(f.code) \o V(f.final_size)

encode_stop_sending(f) == V(5) \o V(f.id) \o V(f.code)

encode_ack(f) ==
    V(IF f.ecn # <<>> THEN 3 ELSE 2) \o V(f.largest) \o V(f.delay) \o V(Len(f.ranges)) \o V(f.first)
      \o FlattenSeq([i \in DOMAIN f.ranges |-> V(f.ranges[i].gap) \o V(f.ranges[i].length)])
      \o FlattenSeq([i \in DOMAIN f.ecn |-> V(f.ecn[i])])

encode_crypto(f) == V(6) \o V(f.offset) \o WithLength(f.data)

encode_new_token(f) == V(7) \o WithLength(f.token)

\* Offset and length are written only when the frame says they are present.
encode_stream(f) ==
    V(8 + 4 * Bit(f.offset_present) + 2 * Bit(f.length_present) + Bit(f.fin))
      \o V(f.id)
      \o (IF f.offset_present THEN V(f.offset) ELSE <<>>)
      \o (IF f.length_present THEN V(Len(f.data)) ELSE <<>>)
      \o f.data

encode_single_limit_frame(type, v) == V(type) \o V(v)

encode_stream_limit_frame(type, f) == V(type) \o V(f.id) \o V(f.max)

encode_stream_count_frame(bidirectional_type, unidirectional_type, f) ==
    V(IF f.bidirectional THEN bidirectional_type ELSE unidirectional_type) \o V(f.max)

encode_new_connection_id(f) ==
    V(24) \o V(f.sequence) \o V(f.retire_prior_to) \o WithLength(f.cid) \o f.token

encode_path_validation_frame(type, f) == V(type) \o f.data

encode_frame(f) ==
    CASE f.type = "padding" -> Zeros(f.count)
      [] f.type = "ping" -> <<1>>
      [] f.type = "ack" -> encode_ack(f)
      [] f.type = "reset_stream" -> encode_reset_stream(f)
      [] f.type = "stop_sending" -> encode_stop_sending(f)
      [] f.type = "crypto" -> encode_crypto(f)
      [] f.type = "new_token" -> encode_new_token(f)
      [] f.type = "stream" -> encode_stream(f)
      [] f.type = "max_data" -> encode_single_limit_frame(16, f.max)
      [] f.type = "max_stream_data" -> encode_stream_limit_frame(17, f)
      [] f.type = "max_streams" -> encode_stream_count_frame(18, 19, f)
      [] f.type = "data_blocked" -> encode_single_limit_frame(20, f.max)
      [] f.type = "stream_data_blocked" -> encode_stream_limit_frame(21, f)
      [] f.type = "streams_blocked" -> encode_stream_count_frame(22, 23, f)
      [] f.type = "new_connection_id" -> encode_new_connection_id(f)
      [] f.type = "retire_connection_id" -> encode_single_limit_frame(25, f.sequence)
      [] f.type = "path_challenge" -> encode_path_validation_frame(26, f)
      [] f.type = "path_response" -> encode_path_validation_frame(27, f)
      [] f.type = "connection_close" -> encode_connection_close(f)
      [] f.type = "application_close" -> encode_application_close(f)
      [] f.type = "handshake_done" -> <<30>>

NumberFields == {"code", "frame_type", "id", "final_size", "largest", "delay", "first", "offset",
                 "max", "sequence", "retire_prior_to"}

\* What the encoders accept: their own checks, and numbers that are varints.
Encodable(f) ==
    /\ \A x \in NumberFields \cap DOMAIN f : Representable(f[x])
    /\ f.type = "ack" =>
           /\ \A i \in DOMAIN f.ranges : Representable(f.ranges[i].gap) /\ Representable(f.ranges[i].length)
           /\ \A i \in DOMAIN f.ecn : Representable(f.ecn[i])
    /\ f.type = "new_token" => f.token # <<>>
    /\ f.type = "new_connection_id" =>
           /\ Len(f.cid) \in 1..MaxCidSize
           /\ Len(f.token) = TokenSize
           /\ f.retire_prior_to <= f.sequence

-----------------------------------------------------------------------------
(* Decoding: each reader takes the bytes and the position behind the frame   *)

\* Reads n integers in a row, stopping at the first that is cut short.
read_varints(b, at, n) ==
    LET next(c, d) == [ok |-> d.ok, at |-> d.at, v |-> Append(c.v, d.value)]
    IN  FoldLeft(LAMBDA c, i : IF ~c.ok THEN c ELSE next(c, decode_varint(b, c.at)),
                 [ok |-> TRUE, at |-> at, v |-> <<>>], Zeros(n))
(* type and gives the frame and the position behind it.                      *)

Malformed == [ok |-> FALSE]
Parsed(f, at) == [ok |-> TRUE, frame |-> f, at |-> at]
Fits(b, at, n) == n <= Len(b) - at

\* Zero bytes in a row are one PADDING frame.
decode_padding(b, at) ==
    LET run == CHOOSE n \in 0..(Len(b) - at) :
                  /\ \A i \in 1..n : b[at + i] = 0
                  /\ at + n < Len(b) => b[at + n + 1] # 0
    IN  Parsed([type |-> "padding", count |-> 1 + run], at + run)

decode_ack(b, at, with_ecn) ==
    LET head == read_varints(b, at, 4)
        ranges == read_varints(b, head.at, 2 * head.v[3])
        ecn == read_varints(b, ranges.at, IF with_ecn THEN 3 ELSE 0)
    IN  IF ~head.ok THEN Malformed
        ELSE IF head.v[3] > (Len(b) - head.at) \div 2 THEN Malformed
        ELSE IF ~ranges.ok \/ ~ecn.ok THEN Malformed
        ELSE Parsed([type |-> "ack", largest |-> head.v[1], delay |-> head.v[2], first |-> head.v[4],
                     ranges |-> [i \in 1..head.v[3] |-> [gap |-> ranges.v[2 * i - 1],
                                                         length |-> ranges.v[2 * i]]],
                     ecn |-> ecn.v], ecn.at)

decode_reset_stream(b, at) ==
    LET r == read_varints(b, at, 3)
    IN  IF ~r.ok THEN Malformed
        ELSE Parsed([type |-> "reset_stream", id |-> r.v[1], code |-> r.v[2], final_size |-> r.v[3]], r.at)

decode_stop_sending(b, at) ==
    LET r == read_varints(b, at, 2)
    IN  IF ~r.ok THEN Malformed
        ELSE Parsed([type |-> "stop_sending", id |-> r.v[1], code |-> r.v[2]], r.at)

decode_crypto(b, at) ==
    LET r == read_varints(b, at, 2)
    IN  IF ~r.ok THEN Malformed
        ELSE IF ~Fits(b, r.at, r.v[2]) THEN Malformed
        ELSE Parsed([type |-> "crypto", offset |-> r.v[1], data |-> Sub(b, r.at, r.v[2])], r.at + r.v[2])

decode_new_token(b, at) ==
    LET r == read_varints(b, at, 1)
    IN  IF ~r.ok THEN Malformed
        ELSE IF r.v[1] = 0 \/ ~Fits(b, r.at, r.v[1]) THEN Malformed
        ELSE Parsed([type |-> "new_token", token |-> Sub(b, r.at, r.v[1])], r.at + r.v[1])

\* Without a length the data runs to the end of the packet.
decode_stream(b, at, flags) ==
    LET offset_present == (flags \div 4) % 2 = 1
        length_present == (flags \div 2) % 2 = 1
        id == read_varints(b, at, 1)
        offset == read_varints(b, id.at, Bit(offset_present))
        length == read_varints(b, offset.at, Bit(length_present))
        n == IF length_present THEN length.v[1] ELSE Len(b) - offset.at
    IN  IF ~id.ok THEN Malformed
        ELSE IF ~offset.ok THEN Malformed
        ELSE IF ~length.ok THEN Malformed
        ELSE IF ~Fits(b, length.at, n) THEN Malformed
        ELSE Parsed([type |-> "stream", id |-> id.v[1],
                     offset |-> IF offset_present THEN offset.v[1] ELSE 0,
                     offset_present |-> offset_present, length_present |-> length_present,
                     fin |-> flags % 2 = 1, data |-> Sub(b, length.at, n)], length.at + n)

decode_single_limit(b, at, type) ==
    LET r == read_varints(b, at, 1)
    IN  IF ~r.ok THEN Malformed ELSE Parsed([type |-> type, max |-> r.v[1]], r.at)

decode_stream_limit(b, at, type) ==
    LET r == read_varints(b, at, 2)
    IN  IF ~r.ok THEN Malformed ELSE Parsed([type |-> type, id |-> r.v[1], max |-> r.v[2]], r.at)

decode_stream_count(b, at, type, bidirectional) ==
    LET r == read_varints(b, at, 1)
    IN  IF ~r.ok THEN Malformed
        ELSE Parsed([type |-> type, bidirectional |-> bidirectional, max |-> r.v[1]], r.at)

decode_new_connection_id(b, at) ==
    LET r == read_varints(b, at, 3)
    IN  IF ~r.ok THEN Malformed
        ELSE IF r.v[2] > r.v[1] THEN Malformed
        ELSE IF r.v[3] \notin 1..MaxCidSize THEN Malformed
        ELSE IF ~Fits(b, r.at, r.v[3] + TokenSize) THEN Malformed
        ELSE Parsed([type |-> "new_connection_id", sequence |-> r.v[1], retire_prior_to |-> r.v[2],
                     cid |-> Sub(b, r.at, r.v[3]), token |-> Sub(b, r.at + r.v[3], TokenSize)],
                    r.at + r.v[3] + TokenSize)

decode_retire_connection_id(b, at) ==
    LET r == read_varints(b, at, 1)
    IN  IF ~r.ok THEN Malformed
        ELSE Parsed([type |-> "retire_connection_id", sequence |-> r.v[1]], r.at)

decode_path_validation(b, at, type) ==
    IF ~Fits(b, at, PathDataSize) THEN Malformed
    ELSE Parsed([type |-> type, data |-> Sub(b, at, PathDataSize)], at + PathDataSize)

decode_connection_close(b, at) ==
    LET r == read_varints(b, at, 3)
    IN  IF ~r.ok THEN Malformed
        ELSE IF ~Fits(b, r.at, r.v[3]) THEN Malformed
        ELSE Parsed([type |-> "connection_close", code |-> r.v[1], frame_type |-> r.v[2],
                     reason |-> Sub(b, r.at, r.v[3])], r.at + r.v[3])

decode_application_close(b, at) ==
    LET r == read_varints(b, at, 2)
    IN  IF ~r.ok THEN Malformed
        ELSE IF ~Fits(b, r.at, r.v[2]) THEN Malformed
        ELSE Parsed([type |-> "application_close", code |-> r.v[1],
                     reason |-> Sub(b, r.at, r.v[2])], r.at + r.v[2])

\* One turn of the decoder's loop, after the type has been read.
decode_frame(b, type, at) ==
    CASE type = 0 -> decode_padding(b, at)
      [] type = 1 -> Parsed([type |-> "ping"], at)
      [] type \in {2, 3} -> decode_ack(b, at, type = 3)
      [] type = 4 -> decode_reset_stream(b, at)
      [] type = 5 -> decode_stop_sending(b, at)
      [] type = 6 -> decode_crypto(b, at)
      [] type = 7 -> decode_new_token(b, at)
      [] type \in 8..15 -> decode_stream(b, at, type)
      [] type = 16 -> decode_single_limit(b, at, "max_data")
      [] type = 17 -> decode_stream_limit(b, at, "max_stream_data")
      [] type \in {18, 19} -> decode_stream_count(b, at, "max_streams", type = 18)
      [] type = 20 -> decode_single_limit(b, at, "data_blocked")
      [] type = 21 -> decode_stream_limit(b, at, "stream_data_blocked")
      [] type \in {22, 23} -> decode_stream_count(b, at, "streams_blocked", type = 22)
      [] type = 24 -> decode_new_connection_id(b, at)
      [] type = 25 -> decode_retire_connection_id(b, at)
      [] type = 26 -> decode_path_validation(b, at, "path_challenge")
      [] type = 27 -> decode_path_validation(b, at, "path_response")
      [] type = 28 -> decode_connection_close(b, at)
      [] type = 29 -> decode_application_close(b, at)
      [] type = 30 -> Parsed([type |-> "handshake_done"], at)
      [] OTHER -> Malformed

decode_typed_frame(b, type) == IF type.ok THEN decode_frame(b, type.value, type.at) ELSE Malformed

-----------------------------------------------------------------------------
\* The whole payload: the frames in order, or no frame at all.
RECURSIVE decode_from(_, _, _)
decode_after(b, frames, one) ==
    IF one.ok THEN decode_from(b, one.at, Append(frames, one.frame)) ELSE Malformed

decode_from(b, at, frames) ==
    IF at >= Len(b) THEN [ok |-> TRUE, frames |-> frames]
    ELSE decode_after(b, frames, decode_typed_frame(b, decode_varint(b, at)))

decode_frames(b) == IF b = <<>> THEN Malformed ELSE decode_from(b, 0, <<>>)
====
