---- MODULE MCFileSystem ----
(* A directory with a file in it, two other files, and two free inodes. *)
EXTENDS HttpSync, TLC
D == <<"d">>
DX == <<"d", "x">>
X == <<"x">>
N == <<"n">>
MCPaths == {D, DX, N}
MCTree == <<>> :> Dir @@ D :> Dir @@ DX :> File(1) @@ X :> File(2)
MCData == [i \in 0..4 |-> CASE i = 1 -> <<1, 2>> [] i = 2 -> <<3>> [] OTHER -> <<>>]
MCLinkTargets == {X}
MCBytes == <<5, 6>>
MCCopies == {<<D, N>>, <<DX, X>>, <<DX, D>>}
MCOptions == {<<FALSE, TRUE>>, <<TRUE, TRUE>>, <<FALSE, FALSE>>}
====
