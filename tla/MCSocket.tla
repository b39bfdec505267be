------------------------------ MODULE MCSocket ------------------------------
(* Socket with one descriptor and small buffers. *)
EXTENDS Socket

MCRead == {{"r"}}
MCDelays == {-1}
=============================================================================
