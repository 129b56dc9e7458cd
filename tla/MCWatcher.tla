----------------------------- MODULE MCWatcher -----------------------------
(* Two files, one of them watched under two spellings. *)
EXTENDS Watcher

CONSTANTS a, b, dotA

MCPaths == {a, b, dotA}
MCCleanPath == [p \in MCPaths |-> IF p = dotA THEN a ELSE p]
MCTwoPaths == {a, b}
MCIdentity == [p \in MCTwoPaths |-> p]
=============================================================================
