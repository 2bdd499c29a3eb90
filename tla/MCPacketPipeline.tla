---- MODULE MCPacketPipeline ----
(***************************************************************************)
(* Scenarios for PacketPipeline: a handshake of CRYPTO flights, one frame   *)
(* of every kind, frames that cannot or may not be sent, and missing keys.  *)
(***************************************************************************)
EXTENDS PacketPipeline

Bytes(n, last) == [i \in 1..n |-> IF i = n THEN last ELSE i]
Crypto(n) == [type |-> "crypto", offset |-> 0, data |-> Bytes(n, EndOfFlight)]
Ping == [type |-> "ping"]
Stream(n) == [type |-> "stream", id |-> 4, offset |-> 0, offset_present |-> FALSE,
              length_present |-> TRUE, fin |-> FALSE, data |-> Bytes(n, 3)]
Limit(type, n) == [type |-> type, max |-> n]

\* Numbers of one, two, four and eight bytes.
Small == 63
Medium == 64
Large == 16384
Huge == 1073741824

EveryFrame == <<
    [type |-> "ack", largest |-> 70, delay |-> Medium, first |-> 2, ecn |-> <<>>,
     ranges |-> <<[gap |-> 0, length |-> 3], [gap |-> 60, length |-> 0]>>],
    [type |-> "ack", largest |-> 5, delay |-> 0, first |-> 5, ecn |-> <<1, 0, Medium>>, ranges |-> <<>>],
    [type |-> "reset_stream", id |-> 4, code |-> Large, final_size |-> Huge],
    [type |-> "stop_sending", id |-> Small, code |-> 9],
    [type |-> "new_token", token |-> <<5, 6>>],
    [Stream(3) EXCEPT !.offset_present = TRUE, !.offset = Large],
    Limit("max_data", Huge),
    [type |-> "padding", count |-> 2],
    [type |-> "max_stream_data", id |-> 8, max |-> Medium],
    [type |-> "max_streams", bidirectional |-> TRUE, max |-> 4],
    [type |-> "max_streams", bidirectional |-> FALSE, max |-> 5],
    Limit("data_blocked", Large),
    [type |-> "stream_data_blocked", id |-> 8, max |-> 1],
    [type |-> "streams_blocked", bidirectional |-> TRUE, max |-> 6],
    [type |-> "streams_blocked", bidirectional |-> FALSE, max |-> 7],
    [type |-> "new_connection_id", sequence |-> 2, retire_prior_to |-> 1, cid |-> <<1, 2, 3>>,
     token |-> Bytes(16, 9)],
    [type |-> "retire_connection_id", sequence |-> 0],
    [type |-> "path_challenge", data |-> Bytes(8, 1)],
    [type |-> "path_response", data |-> Bytes(8, 2)],
    [type |-> "handshake_done"],
    [type |-> "crypto", offset |-> Medium, data |-> <<1>>],
    [Stream(2) EXCEPT !.length_present = FALSE, !.fin = TRUE]>>

Queue(initial, handshake, application) ==
    [s \in Spaces |-> CASE s = "initial" -> initial [] s = "handshake" -> handshake
                        [] s = "application" -> application]

\* A connection with frames and flights to send, and the ones that build their Application
\* packets in place, in a buffer of their own datagram size unless another one came first.
Copying(client, established, tx, queues, flights) ==
    [client |-> client, zero_copy |-> FALSE, established |-> established, tx |-> tx,
     queue |-> queues, tls |-> flights, max_packet_payload_size |-> 60, buffer_size |-> 0,
     first_number |-> 0]

InPlace(client, established, tx, queues, flights) ==
    [Copying(client, established, tx, queues, flights) EXCEPT !.zero_copy = TRUE,
                                                              !.buffer_size = MaxDatagramSize]

Flight(space, n) == [space |-> space, offset |-> 0, data |-> Bytes(n, EndOfFlight)]
Nothing == Queue(<<>>, <<>>, <<>>)
Application(frames) == Queue(<<>>, <<>>, frames)

MCScenarios == {
    Copying(TRUE, FALSE, Spaces, Application(<<Stream(3)>>),
            <<Flight("initial", 70), Flight("handshake", 20)>>),
    InPlace(FALSE, TRUE, Spaces, Application(EveryFrame), <<>>),
    InPlace(TRUE, TRUE, Spaces, Application(<<Ping, Stream(58), [type |-> "handshake_done"]>>), <<>>),
    Copying(FALSE, TRUE, Spaces, Application(<<Ping, Limit("max_data", Huge + 9)>>), <<>>),
    Copying(FALSE, FALSE, Spaces,
            Queue(<<Crypto(4)>>,
                  <<[type |-> "connection_close", code |-> 1, frame_type |-> 6, reason |-> <<7>>]>>, <<>>), <<>>),
    Copying(FALSE, TRUE, Spaces, Application(<<[type |-> "application_close", code |-> 1, reason |-> <<7>>]>>),
            <<>>),
    InPlace(FALSE, FALSE, {"initial"}, Queue(<<Ping>>, <<>>, <<Ping>>), <<Flight("handshake", 5)>>),
    Copying(TRUE, FALSE, Spaces, Queue(<<Stream(4), Ping>>, <<Crypto(4)>>, <<>>), <<>>),
    Copying(FALSE, FALSE, Spaces,
            Queue(<<[type |-> "ack", largest |-> 3, delay |-> 0, first |-> 1, ecn |-> <<>>,
                     ranges |-> <<[gap |-> 1, length |-> 0]>>]>>, <<>>, <<>>), <<>>)}

\* The packet numbers of a connection that sent all the others run out.
MCLastNumbers == {[Copying(FALSE, TRUE, Spaces, Application(<<Stream(50), Stream(50)>>), <<>>)
                       EXCEPT !.first_number = NumberLimit - 1],
                  [Copying(FALSE, FALSE, Spaces, Queue(<<Crypto(50), Crypto(50)>>, <<>>, <<>>), <<>>)
                       EXCEPT !.first_number = NumberLimit - 1]}

\* The buffer of a connection with smaller datagrams, one with larger datagrams, and the
\* payload limit of the client tool, which is the size of a datagram.
MCSharedBuffers == {
    [InPlace(FALSE, TRUE, Spaces, Application(<<Stream(20), Stream(50)>>), <<>>) EXCEPT !.buffer_size = 80],
    [InPlace(FALSE, TRUE, Spaces, Application(<<Stream(50), Stream(20), Ping>>), <<>>) EXCEPT !.buffer_size = 200],
    [InPlace(FALSE, TRUE, Spaces, Application(<<Stream(90), Stream(90)>>), <<>>)
        EXCEPT !.max_packet_payload_size = MaxDatagramSize],
    [InPlace(FALSE, TRUE, Spaces, Application(<<Stream(90), Stream(20)>>), <<>>)
        EXCEPT !.max_packet_payload_size = MaxDatagramSize, !.buffer_size = 200]}

MCAll == MCScenarios \union MCLastNumbers \union MCSharedBuffers

\* A flight whose last piece is small, with the budget of a whole datagram.
MCFlight == {[Copying(FALSE, FALSE, Spaces, Nothing, <<Flight("handshake", 100)>>)
                 EXCEPT !.max_packet_payload_size = MaxDatagramSize]}

MCRemoteCid == <<8, 9>>
MCLocalCid == <<7>>
====
