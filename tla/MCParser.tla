------------------------------ MODULE MCParser ------------------------------
(* Two complete recipes, a line lost and a line inserted, and a second file. *)
EXTENDS Validate, SequencesExt

CONSTANTS build, test, phony

MCValues == {"", "none", "text", "low", "text/plain", "true", "maybe", "n int | d", "n int"}

MCParseParam == [v \in MCValues |-> IF v = "n int | d" THEN "n" ELSE BadParam]
MCParseBool == [v \in MCValues |-> IF v = "true" THEN TRUE ELSE BadBool]

(* mime.ParseMediaType asks for no slash: one word will do. *)
MCMediaTypes == MCValues \ {"", "n int | d", "n int"}

A(k, v) == [annotation |-> [key |-> k, value |-> v], comment |-> TRUE, target |-> NoTarget, blank |-> FALSE]
Plain(c, t, b) == [annotation |-> NoAnnotation, comment |-> c, target |-> t, blank |-> b]

(* A target line that ends in an annotation is an annotation. *)
Trailing == [annotation |-> [key |-> "name", value |-> ""], comment |-> FALSE, target |-> test, blank |-> FALSE]

MCBase ==
  <<A("name", "text"), A("description", "text"), A("risk", "low"), A("param", "n int | d"),
    A("output", "text"), A("output-type", "text/plain"), Plain(FALSE, build, FALSE),
    A("name", "text"), A("description", "text"), A("risk", "low"), A("param", "none"),
    A("output", "text"), A("output-type", "text/plain"), A("read-only", "true"), A("destructive", "true"),
    A("idempotent", "true"), A("open-world", "true"), Plain(FALSE, test, FALSE)>>

MCInserted ==
  {A("param", "n int"), A("param", "n int | d"), A("risk", "text"), A("output-type", "n int"), A("other", "text"),
   A("read-only", "maybe"), Plain(TRUE, NoTarget, FALSE), Plain(FALSE, test, FALSE), Plain(FALSE, phony, FALSE),
   Plain(FALSE, NoTarget, TRUE), Plain(FALSE, NoTarget, FALSE), Trailing}

Insertions(S) == {InsertAt(s, i, l) : s \in S, i \in 1..Len(MCBase), l \in MCInserted}
Losses(S) == {RemoveAt(s, i) : s \in S, i \in 1..Len(MCBase)}

MCFiles == {MCBase} \cup Insertions({MCBase}) \cup Losses(Insertions({MCBase}))

(* After the first: nothing, a file without recipes, one whose recipe is faulty. *)
MCRest == {<<>>, <<<<>>>>, <<<<A("name", "text"), Plain(FALSE, build, FALSE)>>>>}
=============================================================================
