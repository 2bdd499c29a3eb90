# FlowQ: specifications and proofs

TLA+ modules for the QUIC library FlowQ (`include/flowq/`), TLC runs that check them on small
instances and TLAPS proofs that hold for every value of their constants. `PROJECT.json` lists the
components, the runs, the lines of source each definition stands for, the findings, the hazards and
the theorems.

    tlc -config StreamSend.cfg StreamSend        # one run
    tlapm StreamSendProofs.tla                   # the proofs of one module

1. [The system](#1-the-system)
2. [The modules](#2-the-modules)
3. [Runs, bounds and fairness](#3-runs-bounds-and-fairness)
4. [Proofs](#4-proofs)
5. [Findings](#5-findings)
6. [What is not modelled](#6-what-is-not-modelled)
7. [Plan](#7-plan)

## 1. The system

FlowQ is header only. A `connection_loop` is a deterministic object: the application calls it, it
changes its state and appends actions (datagrams to send, events, a close) that the caller drains.
It has no threads ("NOT thread-safe", `session.hpp:117`). What makes it hard is the order in which
things reach it: datagrams are lost, repeated and reordered, timers fire late and with deadlines
computed earlier, and the application queues, flushes and acknowledges whenever it likes.

| component | state | operations | hard behaviour | correct when |
|---|---|---|---|---|
| sending half of a stream (`stream.hpp`) | data, next unsent offset, credit, FIN flags, queue of lost ranges, acknowledged ranges | append, finish, pop_frame, on_acked, on_lost, update_max_data, stop_sending | late ACKs of ranges declared lost, retransmission in pieces, loss of the FIN | no byte or FIN is forgotten, sent twice at once or sent beyond the credit |
| receiving half of a stream (`stream.hpp`) | delivered prefix, map of buffered pieces, final size, credit | receive, reset, update_max_data | overlap, repetition, reordering, FIN and RESET_STREAM before data | it is a reassembly buffer: accepted bytes are delivered once, in order, unchanged |
| stream sets (`stream.hpp`) | streams by ID, limits, connection credit, turns | pop_frames, ensure_state_for, limits | turns under a shared credit, creation by late frames | fair turns, limits respected |
| loss recovery (`ack_loss.hpp`, `connection.hpp`) | two lists of sent packets, ranges by packet, RTT, largest acknowledged | flush, acknowledge, apply_ack_frames, on_recovery_timer, discard | ACK against timer, two copies of the state | each packet has one fate, reported once; none waits for ever |
| congestion control (`congestion*.hpp`) | window, bytes in flight, phase | on_packet_sent, _acknowledged, _lost, on_congestion_event | it is told of packets by recovery, in other units | bytes in flight were sent; the window can reopen |
| path validation (`connection.hpp`) | peer, validated, bytes in and out, pending challenge, queue | on_datagram, flush, acknowledge, queue_application | migration back and forth, late responses | three times the bytes received; validated by the address's own challenge |
| lifecycle (`connection.hpp`, `session.hpp`) | state, last activity, time of the close | on_datagram, flush, on_lifecycle_timer | stale and late timers, racing closes | one close reported, forward only, real idle timeouts, an end |
| timer schedulers (`timer_scheduler.hpp`, `lifecycle_`, `recovery_`) | the timer armed | start, cancel, complete_wait | one timer at a time, its deadline passed on as the time | nothing due is left behind |
| remote connection IDs (`connection.hpp`) | table of the peer's IDs, the one in use | NEW_CONNECTION_ID, long headers, stateless reset | reordered NEW_CONNECTION_ID frames | an ID that is retired is not used; limits respected |
| handshake and key lifecycle (`openssl_tls_handshake.hpp`, `tls_protector_factory.hpp`, `key_lifecycle.hpp`, `connection.hpp`) | keys, discarded spaces, CRYPTO queues | OpenSSL's callbacks, pump_tls_crypto, refresh_key_lifecycle, refresh_tls_protectors | keys that arrive before older data is sent, flights packed into datagrams in every way | what TLS writes leaves at its level or waits; a handshake completes |
| key update (`key_update.hpp`) | phase, generation, pending update | initiate, receive_key_phase, complete | packets of the old phase after the update | both sides read each other |
| 0-RTT (`zero_rtt.hpp`) | state, sliding window | check_and_record | jumps and edges of the window | no number is accepted twice |
| endpoint driver, routing (`endpoint_driver.hpp`, `connection_routing.hpp`) | IDs to handles, reset tokens | register, unregister, route, build_stateless_reset, Retry tokens, version negotiation | limits, reuse of an ID, expiry, a clock that is set back | a datagram reaches the connection that registered its ID last, or none |
| UDP session (`udp_session.hpp`) | a datagram index, a receiver | start, complete_send, cancel | failure midway, cancellation | one completion per operation |
| pacing (`pacing.hpp`) | next send time, interval | can_send, on_packet_sent | overflow at the default payload size | no burst beyond the cap |
| codecs, packet assembly and parsing (`varint.hpp`, `frame.hpp`, `packet_header.hpp`, `packet_pipeline.hpp`, `zero_copy_packet_builder.hpp`) | frame queues, packet numbers, observed packets | flush_space, assemble, on_datagram, parse | padding, coalesced, cut and repeated datagrams, two builders | what is parsed is what was queued |
| packet protection, HTTP/3, QPACK, values, tools | — | — | cryptography, data | not part of the state machines |

How they interact. `flush` takes frames from the queues of the three packet number spaces, asks the
congestion controller, the pacer and the anti-amplification limit, records the packet in both lists
of recovery and its stream ranges in a table. `on_datagram` decodes packets, moves the peer, marks
activity, and applies frames: ACK frames resolve packets, and through the table call `on_acked` and
`on_lost` of the streams. The schedulers ask for the next deadline, wait, and call
`on_recovery_timer` or `on_lifecycle_timer`. `session` drains the actions after each call;
`udp_session` sends and receives the datagrams with Asio.

## 2. The modules

**StreamSend** is `stream_send_state`, one action per method. `lost_` is a set of places and ranges
with a counter for its end, so that the code's erasure from the middle and reinsertion at the front
are set operations. Bytes are offsets: the content does not matter to the sender. `inflight` and
`declared_lost` are the packets that carry ranges, what `sent_stream_ranges_` of the connection
holds; `AckedLate` is an ACK for a range declared lost before. `pop_frame` has its three cases as
`PopLost`, `PopNew` and `PopFin`. After `stop_sending`, `on_lost` queues nothing again and `on_acked`
still counts what is in flight.

**StreamReceive** is `stream_receive_state` with real bytes over a two-letter alphabet, because
overlaps are compared by content. `pending_` is a set of pieces. A step receives any frame, any
RESET_STREAM, or a new credit. **StreamReassembly** is what it promises: a partial function from
offsets to bytes that only grows, and a delivered prefix that is always the longest one.
`Reassembles` instantiates it with the union of the delivered and the buffered bytes.

**Recovery** is the packet side of `connection_loop`: `flush_space`, `acknowledge`,
`apply_ack_frames`, `on_recovery_timer`, `discard_packet_space`. The lists of packets are functions
of the packet number. Time is the age of a packet, up to the age at which every comparison is
decided; an RTT sample makes the delays any of the given ones. `refresh_key_lifecycle`, which most
handlers call first, is the separate steps `confirm_handshake` and `discard_packet_space`: a handler
that finds nothing new is one that runs before them. `acked_calls` and `lost_calls` count what the
streams are told. The ACK may name any packet.

**Congestion** extends Recovery with the controller, step by step. `Algorithm` selects NewReno,
CUBIC or BBR, which differ in what they count and in whether the subtraction is guarded; the counter
wraps at `Width`. CUBIC's growth over time is any growth up to `MaxWindow`. The peer acknowledges
only packets that were sent. Pacing, which can only delay a flush and is off by default, is left
out.

**PathValidation** is the server's view of its peer's address. `queue` holds the tokens of the
PATH_CHALLENGE frames queued; `queue_application` may replace it at any time, as the code does.
`got`, `gave` and `challenged` record what happened on the wire. Counters saturate at `MaxWord`, as
`saturating_add` does at 2^64 - 1. Tokens are not repeated, which is what
`make_path_challenge_token` relies on its random source for. The client is never limited and not
modelled.

**ConnectionLifecycle** is a `session` with the unified timer scheduler. Every packet is reduced to
activity, an error or a close. Loss recovery is a number of waiting packets and a deadline; each
timer that is due resolves at least one, which is what Recovery has the code do. `SendLag` is the
delay between making a sender (`udp_session::send_pending`, which reads the clock) and starting it.
`acknowledge` sends an ACK without counting as activity. `heard`, `received`, `left` and `idled` are
history by the real clock: the last packet either way, the last one received, when the active state
was left, and whether the idle timer was why.
A timer fires at any time from its deadline on and passes its deadline, not the time, to the
handler.

**RemoteConnectionIds** is the table of the IDs the peer issued, by sequence number, the one in use
and the RETIRE_CONNECTION_ID frames waiting in the Application queue. A step is one
NEW_CONNECTION_ID frame with any sequence number and retire_prior_to, new or repeated, with the same
content or another; a long header, which starts the table anew; a short packet that cannot be read,
whose end may be the token of a usable ID; a flush of any part of the queue; or a queue replaced by
the application.

**Varint**, **Frames** and **PacketHeader** are the codecs, as operators on sequences of bytes.
Encoders and decoders are written separately, each from its own C++ function, so that an agreement
between them is a result. A decoder returns a record with `ok`, and what it has read. Loops over
bytes are recursive functions and set filters, so that the proofs can use them. Numbers above TLC's
32 bits do not occur in the runs; `MaxVarint` is a constant.

**PacketPipeline** joins them: one side cuts its frame queues into packets (`flush_space`,
`select_frames_for_payload_budget`, `split_crypto_frames`, the copying and the zero-copy builder,
padding of a client's Initial), the network delivers datagrams of one or two of the packets sent, in
any order and any number of times, with zero bytes behind them and cut to the receive buffer, and
the other side runs `on_datagram` on the bytes: headers, header protection, packet numbers,
duplicates, frames allowed by space and role, keys that arrive with the CRYPTO data. A sealed byte
is a number above 255 that names its packet and position; opening it checks the level, the number,
the associated data and that nothing is missing. `buffer` is the buffer of the thread's zero-copy
builder: it has the size the first connection of the thread asked for, keeps what the last packet
left in it, and other connections write to it (`other_connection_builds`). The builder stages frames
and sealed bytes there without looking at the size; a flush that would write past the end
(`overruns`) makes `sending` "undefined", and nothing is said of the sender after it. Both copying
builders refuse packet numbers from `NumberLimit` on (2^32 in the code), the zero-copy one writes
their low bytes. **MCPacketPipeline** holds the scenarios: two CRYPTO flights, one frame of each
kind, frames that cannot be encoded or may not be sent, missing keys, packet numbers that run out,
buffers smaller and larger than the connection's datagrams, and a payload limit as large as a
datagram.

**Handshake** is the TLS adapter with its OpenSSL callbacks, the key lifecycle, the protectors and
the part of the connection loop that drives them. OpenSSL is a script of the reads, writes and
secrets of a TLS 1.3 handshake, which `SSL_run` follows until TLS waits for data that has not
arrived; CRYPTO data is counted in pieces of a level, and what TLS writes is kept by level, which is
all that `pump_tls_crypto` tells apart: it closes the connection over data for a long-header packet
that nothing can protect. `flush_space` may always send here; the congestion window, pacing and the
amplification limit, which hold a packet back for a later call, and the payload limit are not part
of the module. The peer is a conforming endpoint that packs its pieces into datagrams in every way and repeats them. `causes`
records what happened to the connection from outside; the properties use it to say when a close is
justified. Actions: `Flush`, `OnDatagram`, `SetPacketProtectors` (an application without a refresh
callback), `queue_application`, `discard_packet_space` and the peer's own. **MCHandshake** has a
usable client and server, with and without a callback for protectors, and one configuration for each
way in which the adapter is refused.

**Endpoint** is the routing table with its driver and the stateless answers. The C++ queries are
const, so they are operators, and the properties ask them about every input in every state. `calls`
is the history of registrations; Retry tokens are real byte strings, whose tag is one cell, a digest
that every byte of the payload enters (the integrity provider is external); the clock may be set
back, and a reading in the second before the epoch is stamped with the epoch, because
`duration_cast` rounds towards zero (`Began`). **MCEndpoint**
has its instance: connection IDs of which one is a prefix of the other, and limits of none, one and
two connections.

## 3. Runs, bounds and fairness

| run | states | shows |
|---|---|---|
| `stream_send` | 46,087 | no byte or FIN forgotten, one copy outstanding, credit, one final size, nothing acknowledged sent again, STOP_SENDING is final |
| `stream_receive` | 1,753 | closed for good, and the refinement of StreamReassembly |
| `congestion` | 67,362 | Recovery and NewReno together: the two lists agree, one fate per packet, every ack-eliciting packet is resolved, the counter and the window |
| `path_validation` | 37,643 | amplification limit, validation by its own challenge |
| `connection_lifecycle` | 79,014 | one close, real idle timeouts, no early end of the closing period beyond the lag of senders, an end |
| `remote_connection_ids` | 25,832 | the ID in use is usable in the current table, none is given back in use, retirement lasts until a long header |
| `packet_pipeline` | 1,254 | what is parsed was sent, nothing lost in packing, closes for a cause, sizes, both builders agree whatever is left in the buffer |
| `handshake` | 40,988 | CRYPTO data at its level and not dropped by a client, Finished before data, closes for a cause, completion |
| `endpoint` | 27,584 | routes, stateless resets, Retry tokens both ways, version negotiation |
| `stream_receive_final_size`, `congestion_stall`, `handshake_server` | violations | see Findings |

Eight more configurations each show a violation described under Findings and are kept to be run by
hand: `StreamSendStop.cfg` on StreamSend, `CongestionAckOnly.cfg` on Congestion,
`ConnectionLifecycleLag.cfg` and `ConnectionLifecycleLate.cfg` on ConnectionLifecycle,
`RemoteConnectionIdsLate.cfg` and `RemoteConnectionIdsHeader.cfg` on RemoteConnectionIds,
`PacketPipelineFlight.cfg` and `PacketPipelineZeroCopy.cfg` on MCPacketPipeline.

Bounds. Three bytes and frames of at most two (StreamSend) give a loss sent again in two pieces,
each of which is lost or acknowledged on its own, and a FIN with and without data; three losses give
a retransmission of a retransmission. Offsets up to 4 (StreamReceive) give two separate pieces that
one frame joins, with a gap below. Four packets (`congestion`) are the fewest for which the packet
threshold of 3 loses one and leaves others outstanding; one space is enough for the races because
spaces share only the RTT, and the proofs cover any number. Packets are half a datagram, so that the
release of a full datagram is more than was counted, and the window of four closes and grows. The
loss delay and the PTO are one unit of age each: the PTO is looked at only when no packet waits for
its loss time, so no step compares the two. Delays that change with an RTT sample are covered by the
proofs of the safety properties; `Resolved` is checked for delays that stay the same. Two addresses
and three tokens (PathValidation) let the peer move away, back and away again with a response of
each period in flight; `MaxWord` 8 puts saturation and the overflow of the threefold within reach.
The lifecycle's idle timeout is longer than its close timeout, so that a stale idle timer is armed
while a close timer is due; a `SendLag` of one lets a packet arrive between the making and the start
of a sender. The clock stops at `MaxTime`, which stands for every later time; packets
stop at `Quiet`, so that silence follows. Five IDs with a limit of two (RemoteConnectionIds) let the
ID in use be retired twice with others arriving late in between, and two long headers start the
table anew before and after that. The minimum of an Initial datagram is 120 bytes instead of 1200
(PacketPipeline): the padding then crosses the size at which the length field grows by a byte, and a
flight of 70 needs two packets. `NumberLimit` is 2^24, because TLC's integers have 32 bits; a
connection that starts one below it stands for one that has sent all the others. Receive buffers of 90 and 1000 cut the padded datagrams or none. Two
pieces of a ClientHello and of a server's flight with one frame per packet (Handshake) make a
datagram hold the whole flight or part of it, and one fault is a loss, a duplicate or a repetition
in each place. Four calls (Endpoint) register an ID, retire it, register it for another connection
and retire that; clock readings lie around the lifetime, the rounding of a second, and before the
epoch.

Deadlock is checked except in `path_validation`, `connection_lifecycle`, `remote_connection_ids`,
`packet_pipeline`, `handshake` and `endpoint`, where a closed connection has nothing left to do, or
the bounded number of packets or calls is used up.

Fairness. `congestion`: time passes and a timer that is due is serviced; `next_recovery_timer` is
there to be polled after every change and `recovery_scheduler.hpp` calls the handler at the
deadline. `connection_lifecycle`: time passes, Asio completes an expired wait, and the application
starts the scheduler again when an operation has completed, which the library leaves to it.
`handshake`: the application keeps calling `flush` and hands over what arrives (the loop of the
client tool), installs protectors if it does so itself, the network delivers what it does not lose,
and the peer goes on. For `Flush` and `Receive` the weak fairness is written out with the condition
that enables them. Completion is claimed only when nothing is lost: the client does not repeat
CRYPTO data. Nothing is assumed about packets, ACKs or the peer in the other runs.

## 4. Proofs

All proofs are checked to the last leaf, from the constants' assumptions only.

- **StreamSendProofs**: `SendInvariant` is inductive. Losing no byte is not, by itself: it needs
  that ranges only shrink (`Nested`: a range that shares bytes with one that was acknowledged or
  lost earlier lies inside it, so an ACK covers all of it or nothing), that no two copies are
  outstanding, and that `fin_sent_` says where the FIN is (`FinTracked`). From it: types, no byte
  and no FIN forgotten, credit, one final size, no retransmission of acknowledged ranges. That
  STOP_SENDING is final (`StopSendingIsFinal`) needs that `fin_sent_` is set while a frame
  with FIN is in flight, also after STOP_SENDING (`FinOut`).
- **StreamReceiveProofs**: `ReceiveInvariant` (types, `Separated`, credit) is inductive; a merge of
  any number of neighbours leaves the buffer canonical, and `drain_contiguous` then needs to look at
  one entry only. `ReceiveImplementsReassembly` proves the refinement: initial states map to initial
  states, every step to a step of StreamReassembly or a stutter.
- **CongestionProofs**, of Recovery: the two lists agree and every carried range has had exactly the
  calls its packet's fate says; that no packet from `next_pn` on is recorded makes it inductive.
  Resolution by ACK and by timer is one lemma. Of Congestion: a step with the controller is a step
  of Recovery (`ImplementsRecovery`; the invariant of Recovery is needed to see that an ACK names
  packets within the table), so the theorems about Recovery hold in the `congestion` run's
  specification. For NewReno, the counter stays within
  what was counted as sent, because its subtraction is guarded, and the window stays at or above the
  minimum and shrinks only with a loss; the division in its growth needs the window not to be zero,
  which is why the two are one invariant.
- **PathValidationProofs**: the counters of the current path are part of the totals of its address,
  and what was counted before the last migration kept the limit by itself (`Accounting`), as long as
  no counter is near its largest value; every token in the queue is the pending one, which was sent
  to no other address (`Challenges`). The limit and both properties of the challenge follow.
- **ConnectionLifecycleProofs**: the recorded time of the last activity is at most `SendLag` behind
  the real one; with the deadline computed anew in `on_lifecycle_timer` a stale timer is harmless.
  One close and forward-only follow from the types. `LifecycleNotClosedEarly`: the deadline is
  compared with the time of the close, not with what was armed, so a timer that was armed for
  something else does not end the closing period. The time of the close is the caller's:
  `CloseFollows` bounds it by the real times, at most `SendLag` before the active state was left, or,
  after an idle timeout, no earlier than the deadline of the last packet.
- **RemoteConnectionIdsProofs**: a table that is not initialized is empty (`EmptyBefore`), so what
  `ensure_remote_connection_id_state` builds satisfies what holds of an initialized one. A frame
  that does not close the connection then keeps the ID in use usable: the replacement is the least
  element of a set that is not empty and whose members are all at or above `retire_prior_to`. Until
  the first long header nothing given back is usable, so packets go to none of it.
  `LimitIsKept`: only a frame with a new ID has to pass the check of the limit, and no other frame
  makes an ID usable.
- **EndpointProofs**: for any sequence of calls, the route and the reset token of a connection ID
  are those of the last call that wrote them (`RouteKept`, `TokenKept`); a call is the last on its
  own ID and changes nothing for the others. From it: routes (`RoutesAreLatest`), and stateless
  resets exactly for the IDs that are gone, each shorter than what it answers and recognised by the
  peer that holds the token, for every size and token (`ResetsSpeakForTheGone`). That the token is
  found at the end of the packet is a fact about sequences (`SuffixFound`).
- **RetryTokenProofs**, also of Endpoint: the invariant of the Retry tokens is that every token
  handed out is the encoding of its context (`Genuine`, `TokensGenuine`). A chain of lemmas about the codecs then shows that what the decoder reads is
  what the encoder wrote, for addresses and connection IDs of any length (`At(b, k, s)`: the bytes
  `s` stand in `b` behind position `k`), that a different context is a different payload, and that
  no token that lost, gained or changed a byte verifies: `OnlyIssuedAccepted`,
  `FreshTokensHonoured`. The tag is the digest of the model, of which the proof uses that a changed
  byte changes it. `NegotiationIsUnderstood` reads a Version Negotiation packet with any list of
  versions back.

`RetryTokenProofs` needs facts about loops: the digest and the codecs. The library's induction
theorems take an operator and cannot be used; `LeastNatural`, `Induction` and `RunExists` replace
them. They follow from `WFMin` and `NatLessThanWellFounded`, which speak of sets
only: a set of naturals that is not empty has a least element, so a set that holds at 0 and is kept
by each step holds throughout, and the run of a step function exists. A recursive function of the
model is then such a run.

Some properties are proved and have no run: the types, `AckOnlyNeverLost`, `LimitKept`, the
forward-only lifecycle, the canonical buffer and the credit of StreamReceive.

Only model-checked: liveness (`Resolved`, `EventuallyClosed`, `ClientCompletes`: fairness and
ENABLED are out of the prover's reach); the properties of Handshake, whose invariant has to follow
every byte from TLS through queues and packets to the peer and back; and those of PacketPipeline,
which cuts and parses with recursive operators and masks first bytes and packet numbers with bitwise
ones: the prover takes neither. Of CUBIC there is only the configuration that refutes `InFlightWasSent`; BBR,
which releases and cuts as CUBIC does, is in the module and in no configuration.

## 5. Findings

- `stream_receive_final_size`: a FIN below data already received is accepted, and the stream can
  then never be closed.
- `congestion_stall`: one ACK frame releases one datagram, whatever it acknowledges, and losses by
  packet threshold release none: the window can stay closed for good.
- `handshake_server`: a server discards its Initial space in the call that reads the ClientHello,
  because the handshake keys exist then, and the ServerHello that TLS has just written is dropped
  before it was sent.

Shown by the configurations that are kept beside the runs:

- `StreamSendStop.cfg` (`LateFinCloses`): a FIN declared lost before STOP_SENDING and acknowledged
  after it is not recorded (`stream.hpp:502`), and the sending half is never closed.
- `CongestionAckOnly.cfg` (`InFlightWasSent`): with CUBIC, the default, the ACK of an ACK-only
  packet takes bytes off a counter they were never added to (`connection.hpp:1381`,
  `congestion_algorithms.hpp:105`), and the counter wraps around.
- `ConnectionLifecycleLag.cfg` (`InboundRestartsIdle`): a flush with a time read before a packet
  arrived puts the last activity back (`connection.hpp:566`), and the connection times out early.
- `ConnectionLifecycleLate.cfg` (`FullClosingPeriod`): an idle timer that fires late starts the
  closing period at its deadline, so by the clock the period is shorter than configured.
- `RemoteConnectionIdsHeader.cfg` (`NotSentToAnnounced`): a long header puts the table back to the
  first ID (`connection.hpp:930`), which may have been given up already.
- `RemoteConnectionIdsLate.cfg` (`RetiredBelowPriorTo`): retire_prior_to is not remembered
  (`connection.hpp:902`), so an older NEW_CONNECTION_ID that arrives late adds a usable ID below it,
  which is never given back.
- `PacketPipelineFlight.cfg` (`SendableIsSent`): with a payload limit as large as the datagram, a
  client's CRYPTO flight is cut into pieces that leave no room for the header, and the connection
  closes over its own flight (`connection.hpp:1333`).
- `PacketPipelineZeroCopy.cfg` (`ZeroCopyIsDefined`): frames that fit the payload limit but not the
  staging area behind the 32 bytes reserved for the header are copied past the end of the buffer
  (`zero_copy_packet_builder.hpp:283`), where the copying path sends the packet or closes;
  `docs/reference/zero-copy-design.md:37` says "identical behavior and correctness guarantees".

## 6. What is not modelled

- **Cryptography and key derivation**: out of a model checker's reach; PacketPipeline, Handshake and
  Endpoint say what their users rely on. OpenSSL and Asio are external.
- **Stream sets** (`stream_send_set`, `stream_receive_set`): turns between streams, stream limits
  and the credit of the connection. StreamSend and StreamReceive are one stream of them.
- **Key update** and **0-RTT**: the connection loop owns a key update and never drives it; 0-RTT is
  out of the production scope. Each is a state machine that no other part uses.
- **UDP session and senders**: Asio operations around a session; their stale send time is the
  `SendLag` of ConnectionLifecycle.
- **Pacing**: off by default, delays a flush and changes nothing else.
- **ACK ranges** built by `received_packet_tracker`, the RTT arithmetic (only the order of delays
  and ages is used), CUBIC's curve and BBR's bandwidth model (any growth up to a bound).
- **HelloRetryRequest and session tickets** in the handshake.
- **Transport parameters**, the TLS provider description, HTTP/3 and QPACK, values, events,
  diagnostics: codecs and data of their own, without control that the properties depend on.

## 7. Plan

1. **StreamTransfer**: StreamSend, Recovery's packet table, a network that loses and reorders, and
   StreamReceive, composed by INSTANCE; queues that `queue_application` replaces. Abstract
   specification: a byte pipe. Liveness: everything written is delivered when losses are finite.
2. **StreamSets**: turns, stream limits, connection credit on both sides.
3. **KeyUpdate**: two ends with reordering between them, once the connection loop drives it.
4. **ZeroRttReplay**: the sliding window against the set of all numbers accepted.
5. **AckRanges** against a reference definition; **Pacing**; **UdpSession**; QPACK's dynamic table.
