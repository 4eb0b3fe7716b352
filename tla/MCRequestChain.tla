--------------------------- MODULE MCRequestChain ---------------------------
(* Small instances of RequestChain. *)
EXTENDS RequestChain, TLC

CONSTANTS api, login, tls, plain

HomeOrigin == [host |-> api, port |-> tls]
=============================================================================
