---------------------------- MODULE MCEventLoop ----------------------------
(* Constants for model-checking EventLoop. *)
EXTENDS EventLoop

MCReadWrite == {{"r"}, {"r", "w"}}
MCRead == {{"r"}}
MCWrite == {{"w"}}
\* -1 stands for every delay that counts as 0.
MCDelays == {-1, 1}
============================================================================
