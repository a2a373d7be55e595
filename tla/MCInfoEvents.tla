---------------------------- MODULE MCInfoEvents ----------------------------
(* Instances of InfoEvents for TLC. *)
EXTENDS InfoEvents

\* With and without an end; a PATCH may move the end before the start.
MCWindows == {<<1, 2>>, <<1, NoEnd>>}
MCPatchWindows == {<<2, 1>>}

=============================================================================
