------------------------------ MODULE MCReload ------------------------------
(* Two Makefiles, two recipes, a lenient and a strict configuration. *)
EXTENDS Reload

CONSTANTS m, n, config, lint, test, low, high, lenient, strict, one, redone, bare

R(id, body, group) == [id |-> id, body |-> body, group |-> group]

(* What each text holds.  bare lacks the optional hints, so strict refuses *)
(* it; redone defines lint twice, and test beside it.                      *)
MCRecipes(text) ==
  CASE text = one    -> <<R(lint, "v1", low)>>
    [] text = redone -> <<R(lint, "v1", high), R(lint, "v2", low), R(test, "v1", low)>>
    [] text = bare   -> <<R(test, "v2", low)>>

MCParse(texts) ==
  [x \in texts \X {lenient, strict} |->
     [valid |-> ~(x[1] = bare /\ x[2] = strict), recipes |-> MCRecipes(x[1])]]

MCBodies == {"v1", "v2"}

MCSafeTexts == {one, redone, bare}
MCSafeParse == MCParse(MCSafeTexts)
MCSafeConfigs == {[list |-> <<m, n>>, opts |-> strict], [list |-> <<m>>, opts |-> lenient]}

MCOneConfigs == {[list |-> <<m>>, opts |-> lenient], [list |-> <<m>>, opts |-> strict]}
=============================================================================
