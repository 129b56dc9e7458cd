------------------------------- MODULE Config -------------------------------
(***************************************************************************)
(* pkg/config: the defaults, the configuration file and the command line   *)
(* are layered with Merge, where a field that is not the zero value of its *)
(* Go type replaces the one below it.                                      *)
(***************************************************************************)
CONSTANTS
  Value,     \* values of fields
  Zero       \* Zero[f]: the zero value of field f

Fields == {"delimiter", "makefiles", "strict", "transport", "listen", "log_path", "debug",
           "low", "medium", "high"}

ASSUME ConfigAssumption == Zero \in [Fields -> Value]

Settings == [Fields -> Value]

(* Mutant: what is already set stays. *)
MergeKeeps(base, override) == [f \in Fields |-> IF base[f] = Zero[f] THEN override[f] ELSE base[f]]

Merge(base, override) == [f \in Fields |-> IF override[f] = Zero[f] THEN base[f] ELSE override[f]]
=============================================================================
