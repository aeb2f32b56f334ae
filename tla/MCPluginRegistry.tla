-------------------------- MODULE MCPluginRegistry --------------------------
(* Instances of PluginRegistry for TLC. *)
EXTENDS PluginRegistry

CONSTANTS bundled, override, other, q1, q2

MCFile == {1, 2}
MCPlugin == {bundled, override, other}
\* override has the ID of the bundled plugin.
MCId == {11, 12}
MCIdOf == (bundled :> 11) @@ (override :> 11) @@ (other :> 12)
MCBundled == {bundled}
MCTwoRequests == {q1, q2}
=============================================================================
