--------------------------- MODULE MCMaintenance ---------------------------
(* Instances of Maintenance for TLC. *)
EXTENDS Maintenance

CONSTANTS k1, k2

\* One window for new events, and what a PATCH may move it to: one that ends
\* before it starts.
MCWindows == {<<1, 3>>}
MCPatchWindows == {<<3, 2>>}
MCNoWindows == {}

=============================================================================
