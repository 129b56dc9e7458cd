------------------------------- MODULE Parser -------------------------------
(***************************************************************************)
(* pkg/parser: ParseMakefile reads a Makefile line by line.  Annotations   *)
(* gather until a target takes them or another line discards them; the     *)
(* target becomes a recipe and every violation of the schema is collected. *)
(*                                                                         *)
(* A line is what the two regular expressions, the # prefix and TrimSpace  *)
(* make of it: [annotation, comment, target, blank].  The classes overlap, *)
(* and the order of the cases of the switch decides.                       *)
(***************************************************************************)
EXTENDS Integers, Sequences, FiniteSets

CONSTANTS
  Files,         \* Makefiles: sequences of lines
  Values,        \* annotation values; "" is among them
  Targets,       \* target names
  Special,       \* those that begin with a dot, such as .PHONY
  NoAnnotation, NoTarget,
  parseParam,    \* parseParam[value]: the declared Param, or BadParam
  BadParam,
  parseBool,     \* parseBool[value]: strconv.ParseBool, or BadBool
  BadBool,
  MediaTypes,    \* values mime.ParseMediaType accepts
  NilParams      \* Params is nil: no @param line was seen

Texts == {"name", "description", "output"}
Fields == Texts \cup {"risk", "output-type"}
Hints == {"read-only", "destructive", "idempotent", "open-world"}
Risks == {"low", "medium", "high"}

Keys == Fields \cup Hints \cup {"param", "other"}

Line == [annotation : [key : Keys, value : Values] \cup {NoAnnotation},
         comment : BOOLEAN, target : Targets \cup {NoTarget}, blank : BOOLEAN]

ASSUME ParserAssumption ==
  /\ Files \subseteq Seq(Line)
  /\ {"", "none"} \subseteq Values
  /\ Special \subseteq Targets
  /\ NoAnnotation \notin [key : Keys, value : Values] /\ NoTarget \notin Targets
  /\ DOMAIN parseParam = Values /\ DOMAIN parseBool = Values
  /\ \A v \in Values : parseBool[v] \in BOOLEAN \cup {BadBool}
  /\ "" \notin MediaTypes
  /\ NilParams \notin Seq({parseParam[v] : v \in Values})

VARIABLES
  file,          \* the Makefile being read
  strict,        \* opts.Strict
  line,          \* number of lines read
  pendingMeta,   \* scalar annotations of the current block, last value wins
  pendingParamStrings,
  paramsSeen, paramNoneSeen, inAnnotationBlock,
  recipes,       \* result.Recipes
  errors,        \* result.Errors, as a set of [id, what]
  status         \* "scanning", then "parsed" or "failed"

blockVars == <<pendingMeta, pendingParamStrings, paramsSeen, paramNoneSeen, inAnnotationBlock>>
resultVars == <<recipes, errors>>
vars == <<file, strict, line, blockVars, resultVars, status>>

ParamValues == {parseParam[v] : v \in Values} \ {BadParam}

Recipe == [id : Targets, fields : [Fields -> Values], params : Seq(ParamValues) \cup {NilParams},
           hints : [Hints -> BOOLEAN \cup {BadBool}]]

(* A block is open exactly when something has been gathered in it: the     *)
(* second half of the test at parser.go:160 never decides.                 *)
TypeOK ==
  /\ file \in Seq(Line)
  /\ strict \in BOOLEAN
  /\ line \in 0..Len(file)
  /\ DOMAIN pendingMeta \subseteq Keys \ {"param"}
  /\ \A k \in DOMAIN pendingMeta : pendingMeta[k] \in Values
  /\ pendingParamStrings \in Seq(Values \ {"none"})
  /\ paramsSeen = (paramNoneSeen \/ pendingParamStrings # <<>>)
  /\ inAnnotationBlock = (pendingMeta # <<>> \/ paramsSeen)
  /\ recipes \in Seq(Recipe)
  /\ \A e \in errors : e.id \in Targets
  /\ status \in {"scanning", "parsed", "failed"}

-----------------------------------------------------------------------------
(* What is made of a block. *)

Pick(f, k, default) == IF k \in DOMAIN f THEN f[k] ELSE default

(* The place of n in a set of numbers, and the number at the k-th place.   *)
Rank(S, n) == Cardinality({m \in S : m <= n})
Nth(S, k) == CHOOSE n \in S : Rank(S, n) = k

(* buildParams.  Declarations that do not parse are left out, and reported.*)
buildParams ==
  IF ~paramsSeen THEN NilParams
  ELSE IF paramNoneSeen THEN <<>>
  ELSE LET good == {i \in DOMAIN pendingParamStrings : parseParam[pendingParamStrings[i]] # BadParam}
       IN  [k \in 1..Cardinality(good) |-> parseParam[pendingParamStrings[Nth(good, k)]]]

(* Mutant: a declaration that does not parse is skipped without an error. *)
paramErrorsSkipped ==
  IF paramNoneSeen /\ pendingParamStrings # <<>> THEN {<<"mixed", "param">>} ELSE {}

paramErrors ==
  IF paramNoneSeen
  THEN IF pendingParamStrings # <<>> THEN {<<"mixed", "param">>} ELSE {}
  ELSE {<<"bad", pendingParamStrings[i]>> :
          i \in {j \in DOMAIN pendingParamStrings : parseParam[pendingParamStrings[j]] = BadParam}}

(* A hint that is absent and one that does not parse are both nil. *)
buildToolHints == [h \in Hints |-> IF h \in DOMAIN pendingMeta THEN parseBool[pendingMeta[h]] ELSE BadBool]

hintErrors ==
  {<<"bad", h>> : h \in {x \in Hints \cap DOMAIN pendingMeta : parseBool[pendingMeta[x]] = BadBool}}

validateStrictAnnotations ==
  IF strict THEN {<<"strict", h>> : h \in Hints \ DOMAIN pendingMeta} ELSE {}

(* The ID is never empty: the expression for a target wants a name. *)
Validate(r) ==
  {<<"missing", f>> : f \in {x \in Fields \ {"risk"} : r.fields[x] = ""}}
    \cup (IF r.params = NilParams THEN {<<"missing", "param">>} ELSE {})
    \cup (IF r.fields["output-type"] \in MediaTypes \cup {""} THEN {} ELSE {<<"bad", "output-type">>})
    \cup (IF r.fields["risk"] \in Risks THEN {} ELSE {<<"bad", "risk">>})

-----------------------------------------------------------------------------
Init ==
  /\ file \in Files
  /\ strict \in BOOLEAN
  /\ line = 0
  /\ pendingMeta = <<>>
  /\ pendingParamStrings = <<>>
  /\ paramsSeen = FALSE
  /\ paramNoneSeen = FALSE
  /\ inAnnotationBlock = FALSE
  /\ recipes = <<>>
  /\ errors = {}
  /\ status = "scanning"

(* Mutant: the block is emptied and stays open. *)
resetStateOpen ==
  /\ pendingMeta' = <<>>
  /\ pendingParamStrings' = <<>>
  /\ paramsSeen' = FALSE
  /\ paramNoneSeen' = FALSE
  /\ UNCHANGED inAnnotationBlock

resetState ==
  /\ pendingMeta' = <<>>
  /\ pendingParamStrings' = <<>>
  /\ paramsSeen' = FALSE
  /\ paramNoneSeen' = FALSE
  /\ inAnnotationBlock' = FALSE

(* The next line; the cases of the switch in their order. *)
Scan(l) ==
  /\ status = "scanning"
  /\ line < Len(file)
  /\ l = file[line + 1]
  /\ line' = line + 1
  /\ UNCHANGED <<file, strict, status>>

IsAnnotation(l) == l.annotation # NoAnnotation
IsComment(l) == ~IsAnnotation(l) /\ l.comment
IsTarget(l) == ~IsAnnotation(l) /\ ~l.comment /\ l.target # NoTarget
IsBlank(l) == ~IsAnnotation(l) /\ ~l.comment /\ l.target = NoTarget /\ l.blank
IsOther(l) == ~IsAnnotation(l) /\ ~l.comment /\ l.target = NoTarget /\ ~l.blank

ScanParam(l) ==
  /\ Scan(l)
  /\ IsAnnotation(l)
  /\ l.annotation.key = "param"
  /\ paramsSeen' = TRUE
  /\ IF l.annotation.value = "none"
     THEN paramNoneSeen' = TRUE /\ UNCHANGED pendingParamStrings
     ELSE pendingParamStrings' = Append(pendingParamStrings, l.annotation.value) /\ UNCHANGED paramNoneSeen
  /\ inAnnotationBlock' = TRUE
  /\ UNCHANGED <<pendingMeta, resultVars>>

ScanScalar(l) ==
  /\ Scan(l)
  /\ IsAnnotation(l)
  /\ l.annotation.key # "param"
  /\ pendingMeta' = [k \in DOMAIN pendingMeta \cup {l.annotation.key} |->
                       IF k = l.annotation.key THEN l.annotation.value ELSE pendingMeta[k]]
  /\ inAnnotationBlock' = TRUE
  /\ UNCHANGED <<pendingParamStrings, paramsSeen, paramNoneSeen, resultVars>>

ScanComment(l) == Scan(l) /\ IsComment(l) /\ UNCHANGED <<blockVars, resultVars>>

(* Mutant: a special target leaves the block to the target after it. *)
ScanPlainTargetKeeps(l) ==
  /\ Scan(l)
  /\ IsTarget(l)
  /\ ~inAnnotationBlock \/ l.target \in Special
  /\ UNCHANGED <<blockVars, resultVars>>

(* A target that is not a recipe: no annotations, or a special target. *)
ScanPlainTarget(l) ==
  /\ Scan(l)
  /\ IsTarget(l)
  /\ ~inAnnotationBlock \/ (pendingMeta = <<>> /\ ~paramsSeen) \/ l.target \in Special
  /\ resetState
  /\ UNCHANGED resultVars

ScanRecipe(l) ==
  /\ Scan(l)
  /\ IsTarget(l)
  /\ inAnnotationBlock /\ (pendingMeta # <<>> \/ paramsSeen)
  /\ l.target \notin Special
  /\ LET r == [id |-> l.target,
               fields |-> [f \in Fields |-> Pick(pendingMeta, f, "")],
               params |-> buildParams,
               hints |-> buildToolHints]
     IN  /\ recipes' = Append(recipes, r)
         /\ errors' = errors \cup
              {[id |-> l.target, what |-> w] :
                 w \in paramErrors \cup hintErrors \cup validateStrictAnnotations \cup Validate(r)}
  /\ resetState

ScanBlank(l) ==
  /\ Scan(l)
  /\ IsBlank(l)
  /\ IF inAnnotationBlock THEN resetState ELSE UNCHANGED blockVars
  /\ UNCHANGED resultVars

ScanOther(l) == Scan(l) /\ IsOther(l) /\ resetState /\ UNCHANGED resultVars

(* The scanner reaches the end of the file, or a line longer than its      *)
(* buffer or a read error stops it: then there is no result.               *)
ScanEnds ==
  /\ status = "scanning"
  /\ \/ line = Len(file) /\ status' = "parsed" /\ UNCHANGED resultVars
     \/ status' = "failed" /\ recipes' = <<>> /\ errors' = {}
  /\ UNCHANGED <<file, strict, line, blockVars>>

ScanLine(l) ==
  \/ ScanParam(l) \/ ScanScalar(l) \/ ScanComment(l) \/ ScanPlainTarget(l)
  \/ ScanRecipe(l) \/ ScanBlank(l) \/ ScanOther(l)

Next == ScanEnds \/ (line < Len(file) /\ ScanLine(file[line + 1]))

Spec == Init /\ [][Next]_vars

-----------------------------------------------------------------------------
(* What the documentation promises, without the scan: the block of line n  *)
(* is the contiguous run of annotations and plain comments just above it.  *)
Block(n) ==
  {j \in 1..n - 1 : /\ IsAnnotation(file[j])
                    /\ \A k \in j..n - 1 : IsAnnotation(file[k]) \/ IsComment(file[k])}

Lines(n, key) == {j \in Block(n) : file[j].annotation.key = key}

Value(j) == file[j].annotation.value

LastOf(S) == CHOOSE j \in S : \A k \in S : k <= j

BlockValue(n, key) == IF Lines(n, key) = {} THEN "" ELSE Value(LastOf(Lines(n, key)))

NamedParams(n) == {j \in Lines(n, "param") : Value(j) # "none"}

IsRecipeLine(n) == IsTarget(file[n]) /\ file[n].target \notin Special /\ Block(n) # {}

(* The lines before and at the k-th recipe line. *)
RecipeLines == {n \in 1..line : IsRecipeLine(n)}

(* No annotation leaks: the recipes are, in order, the targets with a      *)
(* block of their own, and the fields and hints of each are the last       *)
(* values in that block, never in one a blank line, a special target or a  *)
(* directive separates from it.  A plain comment inside a block does not   *)
(* separate.                                                               *)
OwnBlock ==
  status # "failed" =>
    /\ Len(recipes) = Cardinality(RecipeLines)
    /\ \A n \in RecipeLines :
         LET r == recipes[Rank(RecipeLines, n)] IN
           /\ r.id = file[n].target
           /\ \A f \in Fields : r.fields[f] = BlockValue(n, f)
           /\ \A h \in Hints :
                r.hints[h] = IF Lines(n, h) = {} THEN BadBool ELSE parseBool[BlockValue(n, h)]

(* A result without errors has dropped nothing: each recipe declares every *)
(* parameter its block names, in order, or says it has none, has every     *)
(* field, and every hint that was given, under strict all of them.         *)
NothingDropped ==
  status = "parsed" /\ errors = {} =>
    \A n \in RecipeLines :
      LET r == recipes[Rank(RecipeLines, n)]
          named == NamedParams(n)
      IN  /\ Lines(n, "param") # {}
          /\ r.params = [k \in 1..Cardinality(named) |-> parseParam[Value(Nth(named, k))]]
          /\ named # {} => named = Lines(n, "param")
          /\ \A f \in Texts : r.fields[f] # ""
          /\ r.fields["risk"] \in Risks /\ r.fields["output-type"] \in MediaTypes
          /\ \A h \in Hints : strict \/ Lines(n, h) # {} => r.hints[h] \in BOOLEAN
=============================================================================
