------------------------------ MODULE MCLayout ------------------------------
(* Instances of Layout for TLC. *)
EXTENDS Layout

\* No peer, one, and two that differ in the order of their bytes.
MCAnswers == {<<>>, <<<<1, 2, 3, 0>>>>, <<<<2, 1, 0, 3>>, <<3, 3, 2, 1>>>>}
MCRests == {<<1>>, <<1, 2, 3, 3, 0>>}

\* The second of the files lies in a directory.
MCPaths == <<<<"f1">>, <<"dir", "f2">>, <<"f3">>>>
MCTrackers == <<"a1", "a2">>
=============================================================================
