-------------------------------- MODULE MCTls --------------------------------
(* A connection of tls.connect and tls.createServer. *)
EXTENDS Tls, TLC
=============================================================================
