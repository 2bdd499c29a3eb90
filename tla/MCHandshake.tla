---- MODULE MCHandshake ----
(* A small instance of Handshake for TLC. *)
EXTENDS Handshake

Usable(role, refresh) ==
    [role |-> role, refresh |-> refresh, openssl |-> TRUE, certificate |-> TRUE, ca |-> TRUE,
     server_name |-> TRUE, alpn |-> "valid", derivable |-> TRUE]

\* Usable endpoints, and one for each way to be refused.
MCConfigs ==
    {Usable("client", TRUE), Usable("client", FALSE), Usable("server", TRUE), Usable("server", FALSE),
     [Usable("client", TRUE) EXCEPT !.openssl = FALSE], [Usable("server", TRUE) EXCEPT !.certificate = FALSE],
     [Usable("client", TRUE) EXCEPT !.ca = FALSE], [Usable("client", TRUE) EXCEPT !.server_name = FALSE],
     [Usable("client", TRUE) EXCEPT !.alpn = "invalid"], [Usable("client", TRUE) EXCEPT !.derivable = FALSE]}

MCServer == {Usable("server", TRUE)}
====
