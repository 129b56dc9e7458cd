------------------------------ MODULE Validate ------------------------------
(***************************************************************************)
(* cmd/validate: the flags and the configuration, one parse after the      *)
(* other, and an exit status that scripts and the hook rely on.            *)
(***************************************************************************)
EXTENDS Parser

CONSTANTS Rest    \* the Makefiles named after the first: sequences of files

ASSUME ValidateAssumption == Rest \subseteq Seq(Seq(Line))

VARIABLES
  pc,             \* "flags", "parse", then "usage" or "exited"
  rest,           \* Makefiles still to parse
  merged,         \* the recipes and the errors of those parsed
  exit

validateVars == <<vars, pc, rest, merged, exit>>

ValidateInit ==
  /\ Init
  /\ pc = "flags"
  /\ rest \in Rest
  /\ merged = [recipes |-> 0, errors |-> {}]
  /\ exit = 0

(* --help; or a bad flag, a configuration that does not load, no Makefile. *)
Usage ==
  /\ pc = "flags"
  /\ pc' = "usage"
  /\ exit' \in {0, 1}
  /\ UNCHANGED <<vars, rest, merged>>

Begin == pc = "flags" /\ pc' = "parse" /\ UNCHANGED <<vars, rest, merged, exit>>

Parse == pc = "parse" /\ Next /\ UNCHANGED <<pc, rest, merged, exit>>

ParseFails ==
  /\ pc = "parse" /\ status = "failed"
  /\ pc' = "exited" /\ exit' = 1
  /\ UNCHANGED <<vars, rest, merged>>

Merge == merged' = [recipes |-> merged.recipes + Len(recipes), errors |-> merged.errors \cup errors]

NextMakefile ==
  /\ pc = "parse" /\ status = "parsed" /\ rest # <<>>
  /\ Merge
  /\ file' = Head(rest) /\ rest' = Tail(rest)
  /\ line' = 0 /\ recipes' = <<>> /\ errors' = {} /\ status' = "scanning"
  /\ resetState
  /\ UNCHANGED <<strict, pc, exit>>

(* Mutant: only the last Makefile counts. *)
ReportLast ==
  /\ pc = "parse" /\ status = "parsed" /\ rest = <<>>
  /\ Merge
  /\ exit' = IF recipes # <<>> /\ errors # {} THEN 2 ELSE 0
  /\ pc' = "exited"
  /\ UNCHANGED <<vars, rest>>

(* No recipe at all is looked at before the errors are. *)
Report ==
  /\ pc = "parse" /\ status = "parsed" /\ rest = <<>>
  /\ Merge
  /\ exit' = IF merged'.recipes = 0 \/ merged'.errors = {} THEN 0 ELSE 2
  /\ pc' = "exited"
  /\ UNCHANGED <<vars, rest>>

ValidateNext == Usage \/ Begin \/ Parse \/ ParseFails \/ NextMakefile \/ Report

ValidateSpec == ValidateInit /\ [][ValidateNext]_validateVars

-----------------------------------------------------------------------------
(* What validate accepts is what the server starts with: status 0 exactly  *)
(* when every Makefile was read to its end and none has an error, however  *)
(* the recipes and the errors are spread over the files (main.go:135 of    *)
(* the server looks at the errors alone).                                  *)
VerdictIsServers ==
  pc = "exited" => (exit = 0 <=> status = "parsed" /\ merged.errors = {})
=============================================================================
