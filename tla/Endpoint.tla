---- MODULE Endpoint ----
(***************************************************************************)
(* The server-side endpoint: the connection-ID routing table and its driver *)
(* (quic/endpoint_driver.hpp), and the stateless answers of                 *)
(* quic/connection_routing.hpp: stateless resets, Version Negotiation and   *)
(* address-bound Retry tokens.                                              *)
(*                                                                          *)
(* The C++ queries are const members: they are operators here, and the      *)
(* properties ask them about every input in every reachable state.  Time is *)
(* in ticks of the system clock, Second of which make the second to which a *)
(* token rounds its issue time down; the system clock may be set back.      *)
(***************************************************************************)
EXTENDS PacketHeader, FiniteSets, Functions

CONSTANTS
    Configs,        \* configurations of the driver and of the token validator
    Cids,           \* connection IDs, byte strings
    Handles,        \* connection handles
    ResetTokens,    \* 16-byte stateless reset tokens
    TriggerSizes,   \* sizes of the datagrams a reset answers
    RandomFills,    \* bytes the random provider may return
    Remotes,        \* client addresses, [host, port]
    Clocks,         \* readings of the system clock, in ticks
    Second,         \* ticks in a second
    MaxCalls        \* bound on the calls that change the routing table

U16Max == 65535
Uint32 == {v \in Nat : Above24(v) < 256}
Ticks == {t \in Int : t >= 0 => Above24(Above24(t) \div 256) < 128}  \* what 64 bits count

\* The limit is a size_t, a version a uint32_t, a port a uint16_t and a reset token an array of 16
\* bytes, none of which is the absent token; one byte gives a connection ID's size on the wire.
ASSUME EndpointAssumption ==
    /\ \A c \in Configs : /\ c.max_connections \in Nat /\ c.preferred \in Nat
                          /\ c.versions \in Seq(Uint32) /\ c.lifetime \in Int
    /\ Cids \subseteq {cid \in Seq(Byte) : Len(cid) <= 255}
    /\ Remotes \subseteq [host : Seq(Byte), port : 0..U16Max]
    /\ Clocks \subseteq Ticks /\ Second \in Nat \ {0}
    /\ ResetTokens \subseteq [1..16 -> Byte]
    /\ RandomFills \subseteq Byte
    /\ TriggerSizes \subseteq Nat

VARIABLES
    config,         \* endpoint_driver_config and retry_token_validator_config
    running,        \* running_
    entries,        \* entries_
    reset_tokens,   \* reset_tokens_
    calls,          \* history: the successful register and unregister calls
    now,            \* what the system clock reads
    issued,         \* history: the Retry tokens handed out, with their contexts
    negotiated      \* history: the last Version Negotiation packet and its cause

vars == <<config, running, entries, reset_tokens, calls, now, issued, negotiated>>

stateless_reset_token_size == 16
minimum_stateless_reset_datagram_size == 21

NoToken == <<>>
Failed == [ok |-> FALSE]

-----------------------------------------------------------------------------
(* Stateless reset *)

\* The random provider: it fails, or returns bytes, possibly fewer than asked for.
Filled(fill, n) == [ok |-> TRUE, bytes |-> [i \in 1..n |-> fill]]
random_bytes(provider, n) == IF provider.fails THEN Failed ELSE Filled(provider.fill, n - provider.missing)

build_stateless_reset_packet(token, trigger, preferred, provider) ==
    LET reset_size == IF preferred < trigger - 1 THEN preferred ELSE trigger - 1
        random_size == reset_size - stateless_reset_token_size
        random == random_bytes(provider, random_size)
    IN  IF \/ trigger <= minimum_stateless_reset_datagram_size
           \/ preferred < minimum_stateless_reset_datagram_size
           \/ reset_size < minimum_stateless_reset_datagram_size
           \/ ~random.ok
        THEN Failed
        ELSE IF Len(random.bytes) # random_size THEN Failed
        ELSE [ok |-> TRUE, payload |-> [random.bytes EXCEPT ![1] = 64 + (@ % 64)] \o token]

build_stateless_reset(cid, trigger, provider) ==
    IF ~running \/ cid \in DOMAIN entries \/ cid \notin DOMAIN reset_tokens THEN Failed
    ELSE build_stateless_reset_packet(reset_tokens[cid], trigger, config.preferred, provider)

\* The receiving connection's test, for one of the tokens its peer gave it.
matches_peer_stateless_reset(datagram, token) ==
    /\ Len(datagram) >= minimum_stateless_reset_datagram_size
    /\ Sub(datagram, Len(datagram) - Len(token), Len(token)) = token

-----------------------------------------------------------------------------
(* Version Negotiation *)

version_supported(version, supported) == version \in Range(supported)

\* The mutant echoes the connection IDs of the packet it answers in their old places.
negotiation_echoing_ids(destination, source, supported) ==
    IF supported = <<>> THEN Failed
    ELSE [ok |-> TRUE,
          payload |-> <<128, 0, 0, 0, 0>> \o append_connection_id(source)
                        \o append_connection_id(destination)
                        \o append_versions(supported)]

build_version_negotiation(destination, source, supported) ==
    IF supported = <<>> THEN Failed
    ELSE [ok |-> TRUE,
          payload |-> <<128, 0, 0, 0, 0>> \o append_connection_id(destination)
                        \o append_connection_id(source)
                        \o append_versions(supported)]

-----------------------------------------------------------------------------
(* Retry tokens *)

\* The code folds the difference of the lengths into one byte.
constant_time_equal(expected, candidate) ==
    LET padded(s, i) == IF i <= Len(s) THEN s[i] ELSE 0
    IN  /\ Len(expected) % 256 = Len(candidate) % 256
        /\ \A i \in DOMAIN expected \cup DOMAIN candidate : padded(expected, i) = padded(candidate, i)

Digests == 1048576  \* values of the integrity provider's digest

\* The integrity provider: one cell, which no two payloads of the model share.
compute_tag(payload) ==
    LET hash[i \in 0..Len(payload)] == IF i = 0 THEN 7 ELSE (hash[i - 1] * 31 + payload[i]) % Digests
    IN  <<256 + hash[Len(payload)]>>

\* retry_integrity_provider
compute_integrity_tag(payload) ==
    IF ~config.provider THEN Failed ELSE [ok |-> TRUE, tag |-> compute_tag(payload)]

verify_integrity_tag(payload, tag) ==
    IF tag = <<>> THEN FALSE
    ELSE IF ~compute_integrity_tag(payload).ok THEN FALSE
    ELSE constant_time_equal(compute_integrity_tag(payload).tag, tag)

validate_retry_token_lifetime == config.lifetime > 0

\* std::chrono::duration_cast rounds towards zero.
issue_second(t) == IF t >= 0 THEN t \div Second ELSE -((-t) \div Second)

length_prefixed(s) == big_endian(Len(s), 2) \o s

encode_retry_token_payload(remote, cid, t) ==
    IF issue_second(t) < 0 \/ Len(remote.host) > U16Max \/ Len(cid) > U16Max THEN Failed
    ELSE [ok |-> TRUE,
          payload |-> big_endian(issue_second(t), 8) \o length_prefixed(remote.host)
                        \o big_endian(remote.port, 2) \o length_prefixed(cid)]

Magic == <<70, 81, 82, 84, 1>>  \* "FQRT" and the format version

encode_retry_token(payload, tag) ==
    IF Len(payload) > U16Max \/ Len(tag) > U16Max THEN Failed
    ELSE [ok |-> TRUE, token |-> Magic \o length_prefixed(payload) \o length_prefixed(tag)]

\* A two-byte length at position at and the bytes it announces.
read_length_prefixed(b, at) ==
    IF at + 2 > Len(b) THEN Failed
    ELSE IF at + 2 + from_big_endian(0, Sub(b, at, 2)) > Len(b) THEN Failed
    ELSE [ok |-> TRUE, bytes |-> Sub(b, at + 2, from_big_endian(0, Sub(b, at, 2))),
          at |-> at + 2 + from_big_endian(0, Sub(b, at, 2))]

\* Payload and tag must fill the token to its last byte.
parts_of(payload, tag, size) ==
    IF ~tag.ok THEN Failed
    ELSE IF tag.bytes = <<>> \/ tag.at # size THEN Failed
    ELSE [ok |-> TRUE, payload |-> payload.bytes, tag |-> tag.bytes]

payload_then_tag(token, payload) ==
    IF ~payload.ok THEN Failed
    ELSE parts_of(payload, read_length_prefixed(token, payload.at), Len(token))

parse_retry_token(token) ==
    IF Len(token) < 9 THEN Failed
    ELSE IF Sub(token, 0, 5) # Magic THEN Failed
    ELSE payload_then_tag(token, read_length_prefixed(token, 5))

decoded_context(b, host, cid) ==
    IF ~cid.ok THEN Failed
    ELSE IF cid.at # Len(b) THEN Failed
    ELSE [ok |-> TRUE, issued_at |-> from_big_endian(0, Sub(b, 0, 8)), cid |-> cid.bytes,
          remote |-> [host |-> host.bytes, port |-> from_big_endian(0, Sub(b, host.at, 2))]]

host_then_cid(b, host) ==
    IF ~host.ok THEN Failed
    ELSE IF host.at + 2 > Len(b) THEN Failed
    ELSE decoded_context(b, host, read_length_prefixed(b, host.at + 2))

decode_retry_token_payload(b) ==
    IF Len(b) < 8 THEN Failed ELSE host_then_cid(b, read_length_prefixed(b, 8))

issued_token(payload) ==
    IF ~payload.ok THEN Failed
    ELSE IF ~compute_integrity_tag(payload.payload).ok THEN Failed
    ELSE encode_retry_token(payload.payload, compute_integrity_tag(payload.payload).tag)

issue_token(remote, cid) ==
    IF ~validate_retry_token_lifetime THEN Failed
    ELSE issued_token(encode_retry_token_payload(remote, cid, now))

\* The mutant lets a token live a whole second more.
context_matches_late(d, remote, cid) ==
    /\ d.ok
    /\ now >= d.issued_at * Second
    /\ now - d.issued_at * Second <= config.lifetime + Second
    /\ d.remote = remote
    /\ constant_time_equal(d.cid, cid)

\* The mutant refuses a token in the very tick its issue second began.
context_matches_early(d, remote, cid) ==
    /\ d.ok
    /\ now > d.issued_at * Second
    /\ now - d.issued_at * Second <= config.lifetime
    /\ d.remote = remote
    /\ constant_time_equal(d.cid, cid)

\* An issue time beyond the clock's 63 bits, which is refused as well, is in the future here.
context_matches(d, remote, cid) ==
    /\ d.ok
    /\ now >= d.issued_at * Second
    /\ now - d.issued_at * Second <= config.lifetime
    /\ d.remote = remote
    /\ constant_time_equal(d.cid, cid)

verified(parts, remote, cid) ==
    /\ parts.ok
    /\ verify_integrity_tag(parts.payload, parts.tag)
    /\ context_matches(decode_retry_token_payload(parts.payload), remote, cid)

validate_token(token, remote, cid) ==
    /\ token # <<>>  \* validate_token_shape
    /\ validate_retry_token_lifetime
    /\ verified(parse_retry_token(token), remote, cid)

-----------------------------------------------------------------------------
(* The endpoint *)

Empty == [c \in {} |-> 0]

Init ==
    /\ config \in Configs
    /\ running = FALSE
    /\ entries = Empty
    /\ reset_tokens = Empty
    /\ calls = <<>>
    /\ now \in Clocks
    /\ issued = {}
    /\ negotiated = Failed

\* Routes, tokens and negotiation share no state, and routes no clock: a behaviour exercises one.
RoutesOnly == issued = {} /\ ~negotiated.ok /\ now = 0
TokensOnly == calls = <<>> /\ ~negotiated.ok

start ==
    /\ RoutesOnly /\ ~running
    /\ running' = TRUE
    /\ UNCHANGED <<config, entries, reset_tokens, calls, now, issued, negotiated>>

stop ==
    /\ RoutesOnly /\ running
    /\ running' = FALSE
    /\ UNCHANGED <<config, entries, reset_tokens, calls, now, issued, negotiated>>

Put(f, key, value) == [k \in DOMAIN f \cup {key} |-> IF k = key THEN value ELSE f[k]]

\* The mutant drops the reset token with the route.
retire_with_token(cid) ==
    /\ entries' = Restrict(entries, DOMAIN entries \ {cid})
    /\ reset_tokens' = Restrict(reset_tokens, DOMAIN reset_tokens \ {cid})

retire(cid) ==
    /\ entries' = Restrict(entries, DOMAIN entries \ {cid})
    /\ UNCHANGED reset_tokens

\* The mutant keeps the first route of a connection ID.
add_if_absent(cid, handle) == entries' = IF cid \in DOMAIN entries THEN entries ELSE Put(entries, cid, handle)

add(cid, handle) == entries' = Put(entries, cid, handle)

\* A registration at the limit is refused even when it would replace a route.
register_connection(cid, handle, token) ==
    /\ RoutesOnly /\ Len(calls) < MaxCalls
    /\ running
    /\ Cardinality(DOMAIN entries) < config.max_connections
    /\ add(cid, handle)
    /\ reset_tokens' = IF token = NoToken THEN reset_tokens ELSE Put(reset_tokens, cid, token)
    /\ calls' = Append(calls, [op |-> "register", cid |-> cid, handle |-> handle, token |-> token])
    /\ UNCHANGED <<config, running, now, issued, negotiated>>

\* Allowed on a stopped driver too.
unregister_connection(cid) ==
    /\ RoutesOnly /\ Len(calls) < MaxCalls
    /\ cid \in DOMAIN entries  \* otherwise nothing changes
    /\ retire(cid)
    /\ calls' = Append(calls, [op |-> "unregister", cid |-> cid])
    /\ UNCHANGED <<config, running, now, issued, negotiated>>

\* A server answers a first Initial with a Retry that carries a token.
SendRetry(remote, cid) ==
    /\ TokensOnly /\ issued = {}
    /\ issue_token(remote, cid).ok
    /\ issued' = {[remote |-> remote, cid |-> cid, at |-> now, token |-> issue_token(remote, cid).token]}
    /\ UNCHANGED <<config, running, entries, reset_tokens, calls, now, negotiated>>

ClockMoves(t) ==
    /\ TokensOnly /\ issued # {} /\ t # now
    /\ now' = t
    /\ UNCHANGED <<config, running, entries, reset_tokens, calls, issued, negotiated>>

\* A server answers a first packet of a version it does not speak.
Negotiate(version, client, server) ==
    /\ calls = <<>> /\ issued = {} /\ ~negotiated.ok
    /\ ~version_supported(version, config.versions)
    /\ build_version_negotiation(client, server, config.versions).ok
    /\ negotiated' = [ok |-> TRUE, client |-> client, server |-> server,
                      payload |-> build_version_negotiation(client, server, config.versions).payload]
    /\ UNCHANGED <<config, running, entries, reset_tokens, calls, now, issued>>

Next ==
    \/ start
    \/ stop
    \/ \E cid \in Cids, handle \in Handles, token \in ResetTokens \cup {NoToken} :
          register_connection(cid, handle, token)
    \/ \E cid \in Cids : unregister_connection(cid)
    \/ \E remote \in Remotes, cid \in Cids : SendRetry(remote, cid)
    \/ \E t \in Clocks : ClockMoves(t)
    \/ \E version \in {1, 2}, client, server \in Cids : Negotiate(version, client, server)

Spec == Init /\ [][Next]_vars

-----------------------------------------------------------------------------
(* Properties *)

CallsOn(cid) == {i \in DOMAIN calls : calls[i].cid = cid}
LastOf(is) == CHOOSE i \in is : \A j \in is : j <= i

\* Whatever order connections come and go in, a datagram is routed to the connection that
\* registered its connection ID last and has not unregistered it, to none when there is no such
\* connection, and no more connection IDs are routed than the limit allows: lookup_connection()
\* and the limit test of register_connection_impl().
RoutesToLatest ==
    /\ \A cid \in Cids :
          LET route == CallsOn(cid) # {} /\ calls[LastOf(CallsOn(cid))].op = "register"
          IN  /\ cid \in DOMAIN entries <=> route
              /\ route => entries[cid] = calls[LastOf(CallsOn(cid))].handle
    /\ Cardinality(DOMAIN entries) <= config.max_connections

TokensOf(cid) == {i \in CallsOn(cid) : calls[i].op = "register" /\ calls[i].token # NoToken}

Full(fill) == [fails |-> FALSE, fill |-> fill, missing |-> 0]
Short(fill) == [fails |-> FALSE, fill |-> fill, missing |-> 1]
Broken == [fails |-> TRUE, fill |-> 0, missing |-> 0]

\* build_stateless_reset() answers exactly for a connection ID that was registered with a token
\* and is no longer routed, whatever was registered and retired in between.  The reset carries the
\* token registered for it last, is smaller than the datagram it answers (so two endpoints never
\* answer each other's resets for ever), looks like a short-header packet and is recognised by the
\* peer that holds the token.  A random provider that fails, or returns fewer bytes than asked,
\* never makes a reset.
ResetSpeaksForTheGone ==
    \A cid \in Cids, trigger \in TriggerSizes, fill \in RandomFills :
        LET reset == build_stateless_reset(cid, trigger, Full(fill))
            gone == TokensOf(cid) # {} /\ calls[LastOf(CallsOn(cid))].op = "unregister"
            token == calls[LastOf(TokensOf(cid))].token
        IN  /\ reset.ok <=> running /\ gone /\ trigger > 21 /\ config.preferred >= 21
            /\ reset.ok =>
                 /\ Len(reset.payload) < trigger
                 /\ ~LongForm(reset.payload[1]) /\ FixedBit(reset.payload[1])
                 /\ matches_peer_stateless_reset(reset.payload, token)
            /\ ~build_stateless_reset(cid, trigger, Broken).ok
            /\ ~build_stateless_reset(cid, trigger, Short(fill)).ok

Truncated(token) == {SubSeq(token, 1, n) : n \in 0..(Len(token) - 1)}
Altered(token) == {[token EXCEPT ![i] = (@ + 1) % 256] : i \in DOMAIN token}
Damaged(token) == Truncated(token) \cup Altered(token) \cup {Append(token, 0)}

\* The tick in which the second of a clock reading begins; the one before the epoch counts as its
\* first second, because duration_cast rounds towards zero.
Began(t) == IF t < 0 THEN 0 ELSE t - (t % Second)

\* validate_token() accepts a token only from the address and for the original destination
\* connection ID it was issued to, while the clock reads at least its issue second and at most
\* its lifetime more, and never a token that lost or changed a byte on the way.
AcceptedWasIssued ==
    \A i \in issued :
        /\ \A remote \in Remotes, cid \in Cids :
              validate_token(i.token, remote, cid) =>
                  /\ remote = i.remote /\ cid = i.cid
                  /\ now - Began(i.at) \in 0..config.lifetime
        /\ \A damaged \in Damaged(i.token) : ~validate_token(damaged, i.remote, i.cid)

\* A client that returns its token in time is let in: from the second in which the token is issued
\* until less than a second (the rounding of the issue time) before its lifetime ends.  A token
\* issued in the second before the epoch is honoured from the epoch on, no sooner.
HonouredWhileFresh ==
    \A i \in issued :
        Began(i.at) <= now /\ now + Second - 1 <= i.at + config.lifetime =>
            validate_token(i.token, i.remote, i.cid)

\* The client's decoder reads from a Version Negotiation packet exactly the versions the server
\* supports, and its own and the server's connection ID in their places.
NegotiationUnderstood ==
    negotiated.ok =>
        LET header == decode_packet_header(negotiated.payload)
        IN  /\ header.kind = "version_negotiation"
            /\ header.versions = config.versions
            /\ header.dcid = negotiated.client /\ header.scid = negotiated.server
====
