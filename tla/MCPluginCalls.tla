--------------------------- MODULE MCPluginCalls ---------------------------
(* An instance of PluginCalls for TLC. *)
EXTENDS PluginCalls

CONSTANTS bundled, added, r1, r2

MCCaller == {r1, r2}
MCType == {bundled, added}
MCBundled == {bundled}
=============================================================================
