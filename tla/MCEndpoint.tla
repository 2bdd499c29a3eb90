---- MODULE MCEndpoint ----
(* A small instance of Endpoint for TLC. *)
EXTENDS Endpoint

MCConfig(max, preferred, provider, lifetime, versions) ==
    [max_connections |-> max, preferred |-> preferred, provider |-> provider,
     lifetime |-> lifetime, versions |-> versions]

\* The first is ordinary; the others are at the limit of one connection, and refuse resets or tokens.
MCConfigs == {MCConfig(2, 41, TRUE, 6, <<1>>), MCConfig(1, 21, TRUE, 3, <<3, 16777216>>),
              MCConfig(1, 20, FALSE, 6, <<>>), MCConfig(0, 41, TRUE, 0, <<1>>)}
MCCids == {<<7>>, <<7, 0>>}
MCResetTokens == {[i \in 1..16 |-> 1], [i \in 1..16 |-> i]}
MCRemotes == {[host |-> <<97>>, port |-> 1], [host |-> <<97, 0>>, port |-> 1],
              [host |-> <<97>>, port |-> 256]}
MCClocks == {-5, -1, 0, 3, 4, 6, 7, 9, 10, 12}
====
