-------------------------------- MODULE MCHttp --------------------------------
(* Http with short bodies. *)
EXTENDS Http
=============================================================================
