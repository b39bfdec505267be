----------------------------- MODULE MCSpawnSync -----------------------------
(* SpawnSync with small pipes, inputs and outputs. *)
EXTENDS SpawnSync

MCSmallInputs == {NoInput, 0, 2}
MCLongOut == [x \in Outputs |-> IF x = "out" THEN 4 ELSE 2]
MCLongErr == [x \in Outputs |-> 3]
MCFaults == {"pipe", "fork", "memory"}
=============================================================================
