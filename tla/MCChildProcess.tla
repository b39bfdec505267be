--------------------------- MODULE MCChildProcess ---------------------------
(* ChildProcess with small pipes and outputs. *)
EXTENDS ChildProcess

MCRead == {{"r"}}
MCDelays == {-1, 1}
MCLongOut == [x \in Outputs |-> IF x = "out" THEN 1 ELSE 0]
=============================================================================
