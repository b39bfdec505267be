------------------------------ MODULE MCStreams ------------------------------
(* Streams with a few chunks and calls. *)
EXTENDS Streams
=============================================================================
