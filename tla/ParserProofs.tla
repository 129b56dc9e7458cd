---------------------------- MODULE ParserProofs ---------------------------
(***************************************************************************)
(* Proofs about Parser, for every Makefile, every set of values and every  *)
(* meaning parseParam, parseBool and MediaTypes give them.                 *)
(*                                                                         *)
(* The invariant says that the pending state is the block above the next   *)
(* line.  The declarative side (Block, Lines, BlockValue) is restated with *)
(* the file as a parameter, because a scan leaves the file alone.          *)
(***************************************************************************)
EXTENDS Validate, FiniteSetTheorems, TLAPS

BlockOf(f, n) ==
  {j \in 1..n - 1 : /\ IsAnnotation(f[j])
                    /\ \A k \in j..n - 1 : IsAnnotation(f[k]) \/ IsComment(f[k])}

LinesOf(f, n, key) == {j \in BlockOf(f, n) : f[j].annotation.key = key}

NamedOf(f, n) == {j \in LinesOf(f, n, "param") : f[j].annotation.value # "none"}

LastValueOf(f, n, key) == f[LastOf(LinesOf(f, n, key))].annotation.value

RecipeLinesOf(f, m) ==
  {n \in 1..m : IsTarget(f[n]) /\ f[n].target \notin Special /\ BlockOf(f, n) # {}}

(* Recipe r is what line n of f, with its block, describes. *)
Describes(f, n, r) ==
  /\ r.id = f[n].target
  /\ \A x \in Fields :
       r.fields[x] = IF LinesOf(f, n, x) = {} THEN "" ELSE LastValueOf(f, n, x)
  /\ \A h \in Hints :
       r.hints[h] = IF LinesOf(f, n, h) = {} THEN BadBool ELSE parseBool[LastValueOf(f, n, h)]

(* Recipe r has left out nothing of that block, and lacks nothing. *)
Complete(f, n, st, r) ==
  /\ LinesOf(f, n, "param") # {}
  /\ r.params = [k \in 1..Cardinality(NamedOf(f, n)) |->
                   parseParam[f[Nth(NamedOf(f, n), k)].annotation.value]]
  /\ NamedOf(f, n) # {} => NamedOf(f, n) = LinesOf(f, n, "param")
  /\ \A x \in Texts : r.fields[x] # ""
  /\ r.fields["risk"] \in Risks /\ r.fields["output-type"] \in MediaTypes
  /\ \A h \in Hints : st \/ LinesOf(f, n, h) # {} => r.hints[h] \in BOOLEAN

(* rs is a sequence, of whatever its elements are. *)
IsSequence(rs) == rs \in Seq({rs[i] : i \in DOMAIN rs})

(* The recipes rs are those of the first m lines of f, in order. *)
DescribesAll(f, m, rs) ==
  /\ IsSequence(rs)
  /\ Len(rs) = Cardinality(RecipeLinesOf(f, m))
  /\ \A n \in RecipeLinesOf(f, m) : Describes(f, n, rs[Rank(RecipeLinesOf(f, m), n)])

Position ==
  /\ file \in Seq(Line)
  /\ line \in 0..Len(file)

Pending ==
  /\ DOMAIN pendingMeta = {k \in Keys \ {"param"} : LinesOf(file, line + 1, k) # {}}
  /\ \A k \in DOMAIN pendingMeta : pendingMeta[k] = LastValueOf(file, line + 1, k)
  /\ paramsSeen <=> LinesOf(file, line + 1, "param") # {}
  /\ inAnnotationBlock <=> BlockOf(file, line + 1) # {}

PendingParams ==
  /\ Len(pendingParamStrings) = Cardinality(NamedOf(file, line + 1))
  /\ \A j \in NamedOf(file, line + 1) :
       pendingParamStrings[Rank(NamedOf(file, line + 1), j)] = file[j].annotation.value
  /\ paramNoneSeen <=>
       \E j \in LinesOf(file, line + 1, "param") : file[j].annotation.value = "none"

CompleteAll ==
  status # "failed" /\ errors = {} =>
    \A n \in RecipeLinesOf(file, line) :
      Complete(file, n, strict, recipes[Rank(RecipeLinesOf(file, line), n)])

Inv ==
  /\ Position
  /\ Pending
  /\ status # "failed" => DescribesAll(file, line, recipes)

-----------------------------------------------------------------------------
(* How the block of a line grows and ends. *)
LEMMA BlockGrows ==
  ASSUME NEW f, NEW n \in Nat \ {0}
  PROVE  BlockOf(f, n + 1) = IF IsAnnotation(f[n]) THEN BlockOf(f, n) \cup {n}
                             ELSE IF IsComment(f[n]) THEN BlockOf(f, n) ELSE {}
<1>1. n + 1 - 1 = n /\ 1..n = (1..n - 1) \cup {n}
  OBVIOUS
<1>2. \A j \in 1..n - 1 : j..n = (j..n - 1) \cup {n} /\ n \in j..n
  OBVIOUS
<1>3. n..n = {n}
  OBVIOUS
<1>4. BlockOf(f, n + 1) =
        {j \in 1..n : IsAnnotation(f[j]) /\ \A k \in j..n : IsAnnotation(f[k]) \/ IsComment(f[k])}
  BY <1>1 DEF BlockOf
<1>5. CASE IsAnnotation(f[n])
  BY <1>1, <1>2, <1>3, <1>4, <1>5 DEF BlockOf
<1>6. CASE ~IsAnnotation(f[n]) /\ IsComment(f[n])
  BY <1>1, <1>2, <1>3, <1>4, <1>6 DEF BlockOf
<1>7. CASE ~IsAnnotation(f[n]) /\ ~IsComment(f[n])
  BY <1>1, <1>2, <1>3, <1>4, <1>7
<1> QED
  BY <1>5, <1>6, <1>7

(* The line that ends a block starts an empty one. *)
LEMMA BlockEnds ==
  ASSUME NEW f, NEW n \in Nat \ {0}, ~IsAnnotation(f[n]), ~IsComment(f[n])
  PROVE  /\ BlockOf(f, n + 1) = {}
         /\ \A key : LinesOf(f, n + 1, key) = {}
BY BlockGrows DEF LinesOf

(* An annotation is the last line of its key, and touches no other key.    *)
LEMMA Annotated ==
  ASSUME NEW f, NEW n \in Nat \ {0}, IsAnnotation(f[n])
  PROVE  /\ BlockOf(f, n + 1) # {}
         /\ LinesOf(f, n + 1, f[n].annotation.key) = LinesOf(f, n, f[n].annotation.key) \cup {n}
         /\ LastValueOf(f, n + 1, f[n].annotation.key) = f[n].annotation.value
         /\ \A key : key # f[n].annotation.key =>
              /\ LinesOf(f, n + 1, key) = LinesOf(f, n, key)
              /\ LastValueOf(f, n + 1, key) = LastValueOf(f, n, key)
<1>1. BlockOf(f, n + 1) = BlockOf(f, n) \cup {n}
  BY BlockGrows
<1>2. \A key : key # f[n].annotation.key => LinesOf(f, n + 1, key) = LinesOf(f, n, key)
  BY <1>1 DEF LinesOf
<1>3. LinesOf(f, n + 1, f[n].annotation.key) = LinesOf(f, n, f[n].annotation.key) \cup {n}
  BY <1>1 DEF LinesOf
<1>4. \A j \in LinesOf(f, n + 1, f[n].annotation.key) : j \in 1..n
  BY <1>1 DEF LinesOf, BlockOf
<1>5. LastOf(LinesOf(f, n + 1, f[n].annotation.key)) = n
  BY <1>3, <1>4 DEF LastOf
<1> QED
  BY <1>1, <1>2, <1>3, <1>5 DEF LastValueOf

(* A comment leaves the block as it is. *)
LEMMA Commented ==
  ASSUME NEW f, NEW n \in Nat \ {0}, ~IsAnnotation(f[n]), IsComment(f[n])
  PROVE  /\ BlockOf(f, n + 1) = BlockOf(f, n)
         /\ \A key : /\ LinesOf(f, n + 1, key) = LinesOf(f, n, key)
                     /\ LastValueOf(f, n + 1, key) = LastValueOf(f, n, key)
BY BlockGrows DEF LinesOf, LastValueOf

-----------------------------------------------------------------------------
(* Recipe lines and their ranks. *)
LEMMA RecipeLinesFinite ==
  ASSUME NEW f, NEW m \in Nat
  PROVE  /\ IsFiniteSet(RecipeLinesOf(f, m))
         /\ Cardinality(RecipeLinesOf(f, m)) \in Nat
         /\ RecipeLinesOf(f, m) \subseteq 1..m
<1>1. RecipeLinesOf(f, m) \subseteq 1..m
  BY DEF RecipeLinesOf
<1>2. IsFiniteSet(1..m)
  BY FS_Interval
<1>3. IsFiniteSet(RecipeLinesOf(f, m))
  BY <1>1, <1>2, FS_Subset
<1> QED
  BY <1>1, <1>3, FS_CardinalityType

(* A line that is no recipe adds none. *)
LEMMA NoRecipeLine ==
  ASSUME NEW f, NEW m \in Nat,
         ~IsTarget(f[m + 1]) \/ f[m + 1].target \in Special \/ BlockOf(f, m + 1) = {}
  PROVE  RecipeLinesOf(f, m + 1) = RecipeLinesOf(f, m)
<1>1. 1..m + 1 = (1..m) \cup {m + 1}
  OBVIOUS
<1> QED
  BY <1>1 DEF RecipeLinesOf

(* The place of a number in a set of indices. *)
LEMMA RankFacts ==
  ASSUME NEW m \in Nat, NEW S \in SUBSET (1..m)
  PROVE  /\ IsFiniteSet(S) /\ Cardinality(S) \in Nat
         /\ \A n \in S : Rank(S, n) \in 1..Cardinality(S)
         /\ \A a, b \in S : a < b => Rank(S, a) < Rank(S, b)
<1>1. IsFiniteSet(S) /\ Cardinality(S) \in Nat
  <2>1. IsFiniteSet(1..m)
    BY FS_Interval
  <2>2. IsFiniteSet(S)
    BY <2>1, FS_Subset
  <2> QED
    BY <2>2, FS_CardinalityType
<1>2. ASSUME NEW n \in S
      PROVE  /\ IsFiniteSet({x \in S : x <= n})
             /\ Cardinality({x \in S : x <= n}) \in 1..Cardinality(S)
  <2> DEFINE U == {x \in S : x <= n}
  <2>1. U \in SUBSET S /\ n \in U
    OBVIOUS
  <2> HIDE DEF U
  <2>2. IsFiniteSet(U) /\ Cardinality(U) <= Cardinality(S)
    BY <1>1, <2>1, FS_Subset
  <2>3. Cardinality(U) \in Nat /\ Cardinality(U) # 0
    BY <2>1, <2>2, FS_CardinalityType, FS_EmptySet
  <2> QED
    BY <1>1, <2>2, <2>3 DEF U
<1>3. ASSUME NEW a \in S, NEW b \in S, a < b
      PROVE  Rank(S, a) < Rank(S, b)
  <2> DEFINE U == {x \in S : x <= a}
             V == {x \in S : x <= b}
  <2>1. U \in SUBSET V /\ U # V
    <3>1. \A x \in S : x \in Nat
      OBVIOUS
    <3>2. b \in V /\ b \notin U
      BY <1>3, <3>1
    <3>3. \A x \in S : x <= a => x <= b
      BY <1>3, <3>1
    <3>4. U \in SUBSET V
      BY <3>3
    <3> HIDE DEF U, V
    <3> QED
      BY <3>2, <3>4
  <2>2. IsFiniteSet(V) /\ Cardinality(V) \in Nat /\ Cardinality(U) \in Nat
    BY <1>2
  <2> HIDE DEF U, V
  <2>3. Cardinality(U) <= Cardinality(V) /\ Cardinality(U) # Cardinality(V)
    BY <2>1, <2>2, FS_Subset
  <2> QED
    BY <2>2, <2>3 DEF Rank, U, V
<1> QED
  BY <1>1, <1>2, <1>3 DEF Rank

(* Every place is somebody's. *)
LEMMA NthFacts ==
  ASSUME NEW m \in Nat, NEW S \in SUBSET (1..m), NEW k \in 1..Cardinality(S)
  PROVE  Nth(S, k) \in S /\ Rank(S, Nth(S, k)) = k
<1> DEFINE f == [n \in S |-> Rank(S, n)]
           R == 1..Cardinality(S)
<1>1. /\ IsFiniteSet(S) /\ Cardinality(S) \in Nat
      /\ \A n \in S : Rank(S, n) \in R
      /\ \A a, b \in S : a < b => Rank(S, a) < Rank(S, b)
  BY RankFacts
<1>2. IsFiniteSet(R) /\ Cardinality(R) = Cardinality(S)
  BY <1>1, FS_Interval
<1>3. f \in [S -> R]
  BY <1>1
<1>4. \A a, b \in S : f[a] = f[b] => a = b
  <2> SUFFICES ASSUME NEW a \in S, NEW b \in S, Rank(S, a) = Rank(S, b), a # b PROVE FALSE
    OBVIOUS
  <2>1. a < b \/ b < a
    OBVIOUS
  <2>2. Rank(S, a) \in Nat
    BY <1>1
  <2> QED
    BY <1>1, <2>1, <2>2
<1> HIDE DEF f, R
<1>5. f \in Injection(S, R)
  BY <1>3, <1>4 DEF Injection, IsInjective
<1>6. f \in Surjection(S, R)
  BY <1>2, <1>5, FS_Injection
<1>7. \E n \in S : f[n] = k
  BY <1>6 DEF Surjection, R
<1>8. \E n \in S : Rank(S, n) = k
  BY <1>7 DEF f
<1> QED
  BY <1>8 DEF Nth

(* A number above all others takes the last place and moves nobody. *)
LEMMA RankGrows ==
  ASSUME NEW m \in Nat, NEW S \in SUBSET (1..m)
  PROVE  /\ Cardinality(S) \in Nat
         /\ Cardinality(S \cup {m + 1}) = Cardinality(S) + 1
         /\ Rank(S \cup {m + 1}, m + 1) = Cardinality(S) + 1
         /\ \A n \in S : /\ Rank(S \cup {m + 1}, n) = Rank(S, n)
                         /\ Rank(S, n) \in 1..Cardinality(S)
<1> DEFINE T == S \cup {m + 1}
<1>1. /\ IsFiniteSet(S) /\ Cardinality(S) \in Nat
      /\ \A n \in S : Rank(S, n) \in 1..Cardinality(S)
  BY RankFacts
<1>2. m + 1 \notin S
  OBVIOUS
<1>3. Cardinality(T) = Cardinality(S) + 1
  BY <1>1, <1>2, FS_AddElement
<1>4. {x \in T : x <= m + 1} = T
  <2>1. \A x \in T : x <= m + 1
    OBVIOUS
  <2> HIDE DEF T
  <2> QED
    BY <2>1
<1>5. \A n \in S : {x \in T : x <= n} = {x \in S : x <= n}
  OBVIOUS
<1> QED
  BY <1>1, <1>3, <1>4, <1>5 DEF Rank

(* A line that is one is the last, and leaves the others where they were.  *)
LEMMA OneRecipeLine ==
  ASSUME NEW f, NEW m \in Nat,
         IsTarget(f[m + 1]), f[m + 1].target \notin Special, BlockOf(f, m + 1) # {}
  PROVE  /\ RecipeLinesOf(f, m + 1) = RecipeLinesOf(f, m) \cup {m + 1}
         /\ Cardinality(RecipeLinesOf(f, m + 1)) = Cardinality(RecipeLinesOf(f, m)) + 1
         /\ Rank(RecipeLinesOf(f, m + 1), m + 1) = Cardinality(RecipeLinesOf(f, m)) + 1
         /\ \A n \in RecipeLinesOf(f, m) :
              /\ Rank(RecipeLinesOf(f, m + 1), n) = Rank(RecipeLinesOf(f, m), n)
              /\ Rank(RecipeLinesOf(f, m), n) \in 1..Cardinality(RecipeLinesOf(f, m))
<1>1. 1..m + 1 = (1..m) \cup {m + 1}
  OBVIOUS
<1>2. RecipeLinesOf(f, m + 1) = RecipeLinesOf(f, m) \cup {m + 1}
  BY <1>1 DEF RecipeLinesOf
<1>3. RecipeLinesOf(f, m) \in SUBSET (1..m)
  BY DEF RecipeLinesOf
<1> QED
  BY <1>2, <1>3, RankGrows

(* Append, for a sequence of unknown elements. *)
LEMMA AppendFacts ==
  ASSUME NEW rs, NEW r, IsSequence(rs)
  PROVE  /\ IsSequence(Append(rs, r))
         /\ Len(rs) \in Nat
         /\ Len(Append(rs, r)) = Len(rs) + 1
         /\ Append(rs, r)[Len(rs) + 1] = r
         /\ \A i \in 1..Len(rs) : Append(rs, r)[i] = rs[i]
<1> DEFINE S == {rs[i] : i \in DOMAIN rs} \cup {r}
<1>1. rs \in Seq(S)
  BY DEF IsSequence
<1>2. r \in S
  OBVIOUS
<1> HIDE DEF S
<1>3. /\ Append(rs, r) \in Seq(S)
      /\ Len(rs) \in Nat
      /\ Len(Append(rs, r)) = Len(rs) + 1
      /\ Append(rs, r)[Len(rs) + 1] = r
      /\ \A i \in 1..Len(rs) : Append(rs, r)[i] = rs[i]
  BY <1>1, <1>2
<1>4. IsSequence(Append(rs, r))
  <2>1. DOMAIN Append(rs, r) = 1..Len(rs) + 1
    BY <1>1, <1>2, <1>3
  <2> QED
    BY <1>3, <2>1 DEF IsSequence
<1> QED
  BY <1>3, <1>4

-----------------------------------------------------------------------------
(* The assumptions on the constants, in the form the steps use them. *)
LEMMA Constants ==
  /\ Files \subseteq Seq(Line)
  /\ "param" \in Keys /\ "param" \notin Fields \cup Hints
  /\ Fields \cup Hints \subseteq Keys
BY ParserAssumption DEF Keys, Fields, Texts, Hints

(* The line a step reads. *)
LEMMA NextLine ==
  ASSUME Position, NEW l, Scan(l)
  PROVE  /\ Position'
         /\ line \in Nat /\ line + 1 \in Nat \ {0}
         /\ line' = line + 1 /\ file' = file /\ status' = status
         /\ l = file[line + 1] /\ l \in Line
         /\ IsAnnotation(l) => l.annotation.key \in Keys
<1>1. line \in Nat /\ Len(file) \in Nat /\ line < Len(file) /\ l = file[line + 1]
  BY DEF Position, Scan
<1>2. l \in Line
  BY <1>1 DEF Position
<1>3. IsAnnotation(l) => l.annotation.key \in Keys
  BY <1>2 DEF Line, IsAnnotation
<1>4. line' = line + 1 /\ file' = file /\ status' = status
  BY DEF Scan
<1>5. Position'
  BY <1>1, <1>4 DEF Position
<1> QED
  BY <1>1, <1>2, <1>3, <1>4, <1>5

-----------------------------------------------------------------------------
(* Types. *)
Gathered ==
  /\ DOMAIN pendingMeta \subseteq Keys \ {"param"}
  /\ \A k \in DOMAIN pendingMeta : pendingMeta[k] \in Values
  /\ pendingParamStrings \in Seq(Values \ {"none"})
  /\ paramsSeen <=> paramNoneSeen \/ pendingParamStrings # <<>>
  /\ inAnnotationBlock <=> pendingMeta # <<>> \/ paramsSeen
  /\ paramNoneSeen \in BOOLEAN /\ paramsSeen \in BOOLEAN /\ inAnnotationBlock \in BOOLEAN

Reading ==
  /\ Position
  /\ strict \in BOOLEAN
  /\ status \in {"scanning", "parsed", "failed"}

Results == recipes \in Seq(Recipe) /\ \A e \in errors : e.id \in Targets

Types == Reading /\ Gathered /\ Results

LEMMA TypesAreTypes == Types => TypeOK
BY DEF Types, Reading, Position, Gathered, Results, TypeOK

(* The parameters of a recipe have their type, whatever was declared. *)
LEMMA ParamsType ==
  ASSUME Gathered
  PROVE  buildParams \in Seq(ParamValues) \cup {NilParams}
<1> DEFINE L == Len(pendingParamStrings)
           good == {i \in DOMAIN pendingParamStrings : parseParam[pendingParamStrings[i]] # BadParam}
           ps == [k \in 1..Cardinality(good) |-> parseParam[pendingParamStrings[Nth(good, k)]]]
<1>1. /\ L \in Nat /\ DOMAIN pendingParamStrings = 1..L
      /\ \A i \in 1..L : pendingParamStrings[i] \in Values
  BY DEF Gathered
<1>2. good \in SUBSET (1..L)
  BY <1>1
<1>3. \A i \in good : parseParam[pendingParamStrings[i]] \in ParamValues
  BY <1>1 DEF ParamValues
<1> HIDE DEF good
<1>4. \A k \in 1..Cardinality(good) : Nth(good, k) \in good
  BY <1>1, <1>2, NthFacts
<1>5. Cardinality(good) \in Nat
  BY <1>1, <1>2, RankFacts
<1>6. ps \in Seq(ParamValues)
  BY <1>3, <1>4, <1>5
<1> HIDE DEF ps
<1>7. buildParams = NilParams \/ buildParams = <<>> \/ buildParams = ps
  BY DEF buildParams, ps, good
<1>8. <<>> \in Seq(ParamValues)
  OBVIOUS
<1> HIDE DEF L
<1> QED
  BY <1>6, <1>7, <1>8

(* What ScanRecipe makes of the pending state. *)
Made(t) ==
  [id |-> t,
   fields |-> [f \in Fields |-> Pick(pendingMeta, f, "")],
   params |-> buildParams,
   hints |-> buildToolHints]

(* What a recipe is made of has its type. *)
LEMMA RecipeType ==
  ASSUME Gathered, NEW t \in Targets
  PROVE  Made(t) \in Recipe
<1>1. "" \in Values /\ \A v \in Values : parseBool[v] \in BOOLEAN \cup {BadBool}
  BY ParserAssumption
<1>2. [f \in Fields |-> Pick(pendingMeta, f, "")] \in [Fields -> Values]
  BY <1>1 DEF Gathered, Pick
<1>3. buildToolHints \in [Hints -> BOOLEAN \cup {BadBool}]
  BY <1>1 DEF Gathered, buildToolHints
<1>4. buildParams \in Seq(ParamValues) \cup {NilParams}
  BY ParamsType
<1> QED
  BY <1>2, <1>3, <1>4 DEF Recipe, Made

LEMMA ResetGathered ==
  ASSUME resetState
  PROVE  Gathered'
<1>1. pendingMeta' = <<>> /\ pendingParamStrings' = <<>>
      /\ paramsSeen' = FALSE /\ paramNoneSeen' = FALSE /\ inAnnotationBlock' = FALSE
  BY DEF resetState
<1>2. DOMAIN pendingMeta' = {} /\ pendingParamStrings' \in Seq(Values \ {"none"})
  BY <1>1
<1> QED
  BY <1>1, <1>2 DEF Gathered

(* A new scan starts with nothing gathered and no result. *)
Fresh ==
  /\ file \in Seq(Line) /\ strict \in BOOLEAN
  /\ line = 0
  /\ pendingMeta = <<>> /\ pendingParamStrings = <<>>
  /\ paramsSeen = FALSE /\ paramNoneSeen = FALSE /\ inAnnotationBlock = FALSE
  /\ recipes = <<>> /\ errors = {}
  /\ status = "scanning"

LEMMA InitFresh == Init => Fresh
BY Constants DEF Init, Fresh

LEMMA FreshTypes == Fresh => Types
<1> SUFFICES ASSUME Fresh PROVE Types
  OBVIOUS
<1>1. DOMAIN pendingMeta = {} /\ pendingParamStrings \in Seq(Values \ {"none"})
  BY DEF Fresh
<1>2. Gathered
  BY <1>1 DEF Fresh, Gathered
<1>3. Reading /\ Results
  BY DEF Fresh, Reading, Position, Results
<1> QED
  BY <1>2, <1>3 DEF Types

LEMMA LineTypes ==
  ASSUME Types, NEW l, ScanLine(l)
  PROVE  Types'
<1> USE DEF resultVars
<1>0. Reading /\ Position /\ Gathered /\ Results
  BY DEF Types, Reading
<1>1. ASSUME Scan(l)
      PROVE  /\ Reading' /\ l \in Line
             /\ IsAnnotation(l) => l.annotation \in [key : Keys, value : Values]
             /\ l.target # NoTarget => l.target \in Targets
  <2>1. Position' /\ l \in Line
    BY <1>0, <1>1, NextLine
  <2>2. UNCHANGED <<strict, status>>
    BY <1>1 DEF Scan
  <2> QED
    BY <1>0, <2>1, <2>2 DEF Reading, Line, IsAnnotation
<1>2. CASE ScanParam(l)
  <2>1. /\ Reading' /\ UNCHANGED <<pendingMeta, recipes, errors>>
        /\ paramsSeen' = TRUE /\ inAnnotationBlock' = TRUE
        /\ l.annotation.value \in Values
    BY <1>1, <1>2 DEF ScanParam
  <2>2. CASE l.annotation.value = "none"
    <3>1. paramNoneSeen' = TRUE /\ UNCHANGED pendingParamStrings
      BY <1>2, <2>2 DEF ScanParam
    <3> QED
      BY <1>0, <2>1, <3>1 DEF Types, Gathered, Results
  <2>3. CASE l.annotation.value # "none"
    <3>1. pendingParamStrings' = Append(pendingParamStrings, l.annotation.value) /\ UNCHANGED paramNoneSeen
      BY <1>2, <2>3 DEF ScanParam
    <3>2. pendingParamStrings \in Seq(Values \ {"none"}) /\ l.annotation.value \in Values \ {"none"}
      BY <1>0, <2>1, <2>3 DEF Gathered
    <3>3. pendingParamStrings' \in Seq(Values \ {"none"}) /\ pendingParamStrings' # <<>>
      BY <3>1, <3>2
    <3>4. Gathered'
      BY <1>0, <2>1, <3>1, <3>3 DEF Gathered
    <3> QED
      BY <1>0, <2>1, <3>4 DEF Types, Results
  <2> QED
    BY <2>2, <2>3
<1>3. CASE ScanScalar(l)
  <2> DEFINE key == l.annotation.key
             value == l.annotation.value
  <2>1. /\ Reading' /\ UNCHANGED <<pendingParamStrings, paramsSeen, paramNoneSeen, recipes, errors>>
        /\ inAnnotationBlock' = TRUE
        /\ key \in Keys \ {"param"} /\ value \in Values
        /\ pendingMeta' = [k \in DOMAIN pendingMeta \cup {key} |->
                             IF k = key THEN value ELSE pendingMeta[k]]
    BY <1>1, <1>3 DEF ScanScalar
  <2> HIDE DEF key, value
  <2>2. DOMAIN pendingMeta' = DOMAIN pendingMeta \cup {key}
    BY <2>1
  <2>3. pendingMeta' # <<>>
    <3>1. DOMAIN <<>> = {}
      OBVIOUS
    <3> QED
      BY <2>2, <3>1
  <2>4. Gathered'
    BY <1>0, <2>1, <2>2, <2>3 DEF Gathered
  <2> QED
    BY <1>0, <2>1, <2>4 DEF Types, Results
<1>4. CASE ScanComment(l)
  BY <1>0, <1>1, <1>4 DEF ScanComment, Types, Gathered, Results, blockVars
<1>5. CASE ScanPlainTarget(l)
  BY <1>0, <1>1, <1>5, ResetGathered DEF ScanPlainTarget, Types, Results
<1>6. CASE ScanRecipe(l)
  <2>1. l.target \in Targets /\ Reading' /\ Gathered'
    BY <1>1, <1>6, ResetGathered DEF ScanRecipe, IsTarget
  <2> DEFINE r == Made(l.target)
  <2>2. r \in Recipe
    BY <1>0, <2>1, RecipeType
  <2>3. /\ recipes' = Append(recipes, r)
        /\ errors' = errors \cup
             {[id |-> l.target, what |-> w] :
                w \in paramErrors \cup hintErrors \cup validateStrictAnnotations \cup Validate(r)}
    BY <1>6 DEF ScanRecipe, Made
  <2> HIDE DEF r
  <2>4. recipes' \in Seq(Recipe)
    BY <1>0, <2>2, <2>3 DEF Results
  <2>5. \A e \in errors' : e.id \in Targets
    BY <1>0, <2>1, <2>3 DEF Results
  <2> QED
    BY <2>1, <2>4, <2>5 DEF Types, Results
<1>7. CASE ScanBlank(l)
  <2>1. Gathered'
    BY <1>0, <1>7, ResetGathered DEF ScanBlank, blockVars, Gathered
  <2> QED
    BY <1>0, <1>1, <1>7, <2>1 DEF ScanBlank, Types, Results
<1>8. CASE ScanOther(l)
  BY <1>0, <1>1, <1>8, ResetGathered DEF ScanOther, Types, Results
<1> QED
  BY <1>2, <1>3, <1>4, <1>5, <1>6, <1>7, <1>8 DEF ScanLine

LEMMA TypesStep == Types /\ [Next]_vars => Types'
<1> SUFFICES ASSUME Types, [Next]_vars PROVE Types'
  OBVIOUS
<1> USE DEF resultVars, blockVars
<1>1. CASE ScanEnds
  <2>1. /\ UNCHANGED <<file, strict, line, blockVars>> /\ status' \in {"parsed", "failed"}
        /\ UNCHANGED <<recipes, errors>> \/ (recipes' = <<>> /\ errors' = {})
    BY <1>1 DEF ScanEnds
  <2>2. Reading'
    BY <2>1 DEF Types, Reading, Position
  <2>3. Gathered'
    BY <2>1 DEF Types, Gathered
  <2>4. Results'
    <3>1. CASE recipes' = <<>> /\ errors' = {}
      BY <3>1 DEF Results
    <3>2. CASE UNCHANGED <<recipes, errors>>
      BY <3>2 DEF Types, Results
    <3> QED
      BY <2>1, <3>1, <3>2
  <2> QED
    BY <2>2, <2>3, <2>4 DEF Types
<1>2. CASE line < Len(file) /\ ScanLine(file[line + 1])
  BY <1>2, LineTypes
<1>3. CASE UNCHANGED vars
  BY <1>3 DEF vars, Types, Reading, Position, Gathered, Results
<1> QED
  BY <1>1, <1>2, <1>3 DEF Next

(* The pending state after an annotation *)
LEMMA PendingParam ==
  ASSUME Position, Pending, NEW l, ScanParam(l)
  PROVE  Pending'
<1>1. /\ line' = line + 1 /\ file' = file /\ l = file[line + 1] /\ line + 1 \in Nat \ {0}
      /\ IsAnnotation(l) /\ l.annotation.key = "param"
  BY NextLine DEF ScanParam
<1>2. /\ BlockOf(file, line + 1 + 1) # {}
      /\ LinesOf(file, line + 1 + 1, "param") # {}
      /\ \A key : key # "param" =>
           /\ LinesOf(file, line + 1 + 1, key) = LinesOf(file, line + 1, key)
           /\ LastValueOf(file, line + 1 + 1, key) = LastValueOf(file, line + 1, key)
  BY <1>1, Annotated
<1>3. paramsSeen' /\ inAnnotationBlock' /\ pendingMeta' = pendingMeta
  BY DEF ScanParam
<1>4. DOMAIN pendingMeta' = {k \in Keys \ {"param"} : LinesOf(file, line + 1 + 1, k) # {}}
  BY <1>2, <1>3 DEF Pending
<1>5. \A k \in DOMAIN pendingMeta : k # "param"
  BY DEF Pending
<1>6. \A k \in DOMAIN pendingMeta' : pendingMeta'[k] = LastValueOf(file, line + 1 + 1, k)
  BY <1>2, <1>3, <1>5 DEF Pending
<1> QED
  BY <1>1, <1>2, <1>3, <1>4, <1>6 DEF Pending

(* ... of a parameter or of anything else, ... *)
LEMMA PendingScalar ==
  ASSUME Position, Pending, NEW l, ScanScalar(l)
  PROVE  Pending'
<1> DEFINE key == l.annotation.key
<1>1. /\ line' = line + 1 /\ file' = file /\ l = file[line + 1] /\ line + 1 \in Nat \ {0}
      /\ IsAnnotation(l) /\ key \in Keys /\ key # "param"
  BY NextLine DEF ScanScalar
<1>2. /\ BlockOf(file, line + 1 + 1) # {}
      /\ LinesOf(file, line + 1 + 1, key) # {}
      /\ LastValueOf(file, line + 1 + 1, key) = l.annotation.value
      /\ \A k : k # key =>
           /\ LinesOf(file, line + 1 + 1, k) = LinesOf(file, line + 1, k)
           /\ LastValueOf(file, line + 1 + 1, k) = LastValueOf(file, line + 1, k)
  BY <1>1, Annotated
<1>3. /\ inAnnotationBlock' /\ paramsSeen' = paramsSeen
      /\ pendingMeta' = [k \in DOMAIN pendingMeta \cup {key} |->
                           IF k = key THEN l.annotation.value ELSE pendingMeta[k]]
  BY DEF ScanScalar
<1> HIDE DEF key
<1>4. DOMAIN pendingMeta' = {k \in Keys \ {"param"} : LinesOf(file, line + 1 + 1, k) # {}}
  BY <1>1, <1>2, <1>3 DEF Pending
<1>5. \A k \in DOMAIN pendingMeta' : pendingMeta'[k] = LastValueOf(file, line + 1 + 1, k)
  BY <1>2, <1>3 DEF Pending
<1>6. paramsSeen' <=> LinesOf(file, line + 1 + 1, "param") # {}
  BY <1>1, <1>2, <1>3 DEF Pending
<1> QED
  BY <1>1, <1>2, <1>3, <1>4, <1>5, <1>6 DEF Pending

(* ... a comment, ... *)
LEMMA PendingComment ==
  ASSUME Position, Pending, NEW l, ScanComment(l)
  PROVE  Pending'
<1>1. /\ line' = line + 1 /\ file' = file /\ l = file[line + 1] /\ line + 1 \in Nat \ {0}
      /\ ~IsAnnotation(l) /\ IsComment(l)
      /\ UNCHANGED blockVars
  BY NextLine DEF ScanComment, IsComment
<1>2. /\ BlockOf(file, line + 1 + 1) = BlockOf(file, line + 1)
      /\ \A key : /\ LinesOf(file, line + 1 + 1, key) = LinesOf(file, line + 1, key)
                  /\ LastValueOf(file, line + 1 + 1, key) = LastValueOf(file, line + 1, key)
  BY <1>1, Commented
<1> QED
  BY <1>1, <1>2 DEF Pending, blockVars

(* ... or a line that ends the block.                                      *)
LEMMA PendingReset ==
  ASSUME Position, Pending, NEW l, Scan(l), resetState, ~IsAnnotation(l), ~IsComment(l)
  PROVE  Pending'
<1>1. line' = line + 1 /\ file' = file /\ l = file[line + 1] /\ line + 1 \in Nat \ {0}
  BY NextLine
<1>2. BlockOf(file, line + 1 + 1) = {} /\ \A key : LinesOf(file, line + 1 + 1, key) = {}
  BY <1>1, BlockEnds
<1>3. pendingMeta' = <<>> /\ ~paramsSeen' /\ ~inAnnotationBlock'
  BY DEF resetState
<1>4. DOMAIN pendingMeta' = {}
  BY <1>3
<1> QED
  BY <1>1, <1>2, <1>3, <1>4 DEF Pending

-----------------------------------------------------------------------------
(* The recipes after a line that is not one, and after one that is. *)
LEMMA RecipesKept ==
  ASSUME NEW f, NEW m \in Nat, NEW rs, DescribesAll(f, m, rs),
         ~IsTarget(f[m + 1]) \/ f[m + 1].target \in Special \/ BlockOf(f, m + 1) = {}
  PROVE  DescribesAll(f, m + 1, rs)
BY NoRecipeLine DEF DescribesAll

(* The recipe appended is the last one's. *)
LEMMA RecipeAdded ==
  ASSUME NEW f, NEW m \in Nat, NEW rs, DescribesAll(f, m, rs), NEW r,
         IsTarget(f[m + 1]), f[m + 1].target \notin Special, BlockOf(f, m + 1) # {},
         Describes(f, m + 1, r)
  PROVE  DescribesAll(f, m + 1, Append(rs, r))
<1> DEFINE S == RecipeLinesOf(f, m)
           T == RecipeLinesOf(f, m + 1)
<1>1. /\ T = S \cup {m + 1}
      /\ Cardinality(T) = Cardinality(S) + 1
      /\ Rank(T, m + 1) = Cardinality(S) + 1
      /\ \A n \in S : Rank(T, n) = Rank(S, n) /\ Rank(S, n) \in 1..Cardinality(S)
  BY OneRecipeLine
<1>2. /\ IsSequence(rs) /\ Len(rs) = Cardinality(S)
      /\ \A n \in S : Describes(f, n, rs[Rank(S, n)])
  BY DEF DescribesAll
<1> HIDE DEF S, T
<1>3. /\ IsSequence(Append(rs, r))
      /\ Len(Append(rs, r)) = Len(rs) + 1
      /\ Append(rs, r)[Len(rs) + 1] = r
      /\ \A i \in 1..Len(rs) : Append(rs, r)[i] = rs[i]
  BY <1>2, AppendFacts
<1>4. ASSUME NEW n \in T PROVE Describes(f, n, Append(rs, r)[Rank(T, n)])
  <2>1. CASE n = m + 1
    BY <1>1, <1>2, <1>3, <2>1
  <2>2. CASE n \in S
    BY <1>1, <1>2, <1>3, <2>2
  <2> QED
    BY <1>1, <1>4, <2>1, <2>2
<1> QED
  BY <1>1, <1>2, <1>3, <1>4 DEF DescribesAll, S, T

(* What ScanRecipe makes of the pending state is what the block describes. *)
LEMMA RecipeDescribed ==
  ASSUME Position, Pending, NEW l, ScanRecipe(l)
  PROVE  /\ recipes' = Append(recipes, Made(l.target))
         /\ Describes(file, line + 1, Made(l.target))
<1> DEFINE r == Made(l.target)
<1>1. recipes' = Append(recipes, r) /\ l = file[line + 1]
  BY DEF ScanRecipe, Scan, Made
<1>2. r.id = file[line + 1].target
  BY <1>1 DEF Made
<1>3. ASSUME NEW x \in Fields
      PROVE  r.fields[x] = IF LinesOf(file, line + 1, x) = {} THEN ""
                           ELSE LastValueOf(file, line + 1, x)
  <2>1. x \in DOMAIN pendingMeta <=> LinesOf(file, line + 1, x) # {}
    BY <1>3, Constants DEF Pending
  <2>2. r.fields[x] = Pick(pendingMeta, x, "")
    BY <1>3 DEF Made
  <2> HIDE DEF r
  <2> QED
    BY <2>1, <2>2 DEF Pick, Pending
<1>4. ASSUME NEW h \in Hints
      PROVE  r.hints[h] = IF LinesOf(file, line + 1, h) = {} THEN BadBool
                          ELSE parseBool[LastValueOf(file, line + 1, h)]
  <2>1. h \in DOMAIN pendingMeta <=> LinesOf(file, line + 1, h) # {}
    BY <1>4, Constants DEF Pending
  <2>2. r.hints[h] = IF h \in DOMAIN pendingMeta THEN parseBool[pendingMeta[h]] ELSE BadBool
    BY <1>4 DEF buildToolHints, Made
  <2> HIDE DEF r
  <2> QED
    BY <2>1, <2>2 DEF Pending
<1> QED
  BY <1>1, <1>2, <1>3, <1>4 DEF Describes

(* A target without annotations has an empty block. *)
LEMMA PlainHasNoBlock ==
  ASSUME Position, Pending, NEW l, ScanPlainTarget(l)
  PROVE  l.target \in Special \/ BlockOf(file, line + 1) = {}
<1>1. CASE ~inAnnotationBlock
  BY <1>1 DEF Pending
<1>2. CASE pendingMeta = <<>> /\ ~paramsSeen
  <2>1. DOMAIN pendingMeta = {}
    BY <1>2
  <2>2. \A k \in Keys : LinesOf(file, line + 1, k) = {}
    BY <1>2, <2>1 DEF Pending
  <2>3. ASSUME NEW j \in BlockOf(file, line + 1) PROVE FALSE
    <3>1. j \in 1..Len(file) /\ IsAnnotation(file[j])
      BY DEF BlockOf, Position, ScanPlainTarget, Scan
    <3>2. file[j] \in Line
      BY <3>1 DEF Position
    <3>3. file[j].annotation.key \in Keys
      BY <3>1, <3>2 DEF Line, IsAnnotation
    <3> QED
      BY <2>2, <2>3, <3>3 DEF LinesOf
  <2> QED
    BY <2>3
<1> QED
  BY <1>1, <1>2 DEF ScanPlainTarget

-----------------------------------------------------------------------------
(* The parameters pending are those the block above the next line names.   *)
LEMMA NoPendingParams ==
  ASSUME resetState, LinesOf(file', line' + 1, "param") = {}
  PROVE  PendingParams'
<1>1. NamedOf(file', line' + 1) = {}
  BY DEF NamedOf
<1>2. Cardinality({}) = 0
  BY FS_EmptySet
<1>3. pendingParamStrings' = <<>> /\ ~paramNoneSeen' /\ Len(pendingParamStrings') = 0
  BY DEF resetState
<1> QED
  BY <1>1, <1>2, <1>3 DEF PendingParams

LEMMA SamePendingParams ==
  ASSUME PendingParams, UNCHANGED <<pendingParamStrings, paramNoneSeen, file>>,
         LinesOf(file, line' + 1, "param") = LinesOf(file, line + 1, "param")
  PROVE  PendingParams'
<1>1. NamedOf(file, line' + 1) = NamedOf(file, line + 1)
  BY DEF NamedOf
<1> QED
  BY <1>1 DEF PendingParams

LEMMA PendingParamsStep ==
  ASSUME Types, Pending, PendingParams, NEW l, ScanLine(l)
  PROVE  PendingParams'
<1>0. Position
  BY DEF Types, Reading
<1>1. ASSUME Scan(l)
      PROVE  /\ line \in Nat /\ line + 1 \in Nat \ {0}
             /\ line' = line + 1 /\ file' = file /\ l = file[line + 1]
  BY <1>0, <1>1, NextLine
<1>2. CASE ScanParam(l)
  <2> DEFINE N == NamedOf(file, line + 1)
             P == LinesOf(file, line + 1, "param")
             ps == pendingParamStrings
             v == l.annotation.value
  <2>1. /\ line \in Nat /\ line + 1 \in Nat \ {0}
        /\ line' = line + 1 /\ file' = file /\ l = file[line + 1]
        /\ IsAnnotation(l) /\ l.annotation.key = "param"
    BY <1>1, <1>2 DEF ScanParam
  <2>2. LinesOf(file, line + 1 + 1, "param") = P \cup {line + 1}
    BY <2>1, Annotated
  <2>3. N \in SUBSET (1..line)
    BY <2>1 DEF NamedOf, LinesOf, BlockOf
  <2>4. /\ Len(ps) = Cardinality(N)
        /\ \A j \in N : ps[Rank(N, j)] = file[j].annotation.value
        /\ paramNoneSeen <=> \E j \in P : file[j].annotation.value = "none"
    BY DEF PendingParams
  <2>5. CASE v = "none"
    <3>1. NamedOf(file, line + 1 + 1) = N
      BY <2>1, <2>2, <2>5 DEF NamedOf
    <3>2. paramNoneSeen' = TRUE /\ pendingParamStrings' = ps
      BY <1>2, <2>5 DEF ScanParam
    <3> HIDE DEF N, P
    <3> QED
      BY <2>1, <2>2, <2>4, <2>5, <3>1, <3>2 DEF PendingParams
  <2>6. CASE v # "none"
    <3>1. NamedOf(file, line + 1 + 1) = N \cup {line + 1}
      BY <2>1, <2>2, <2>6 DEF NamedOf
    <3>2. pendingParamStrings' = Append(ps, v) /\ paramNoneSeen' = paramNoneSeen
      BY <1>2, <2>6 DEF ScanParam
    <3> HIDE DEF N, P
    <3>3. /\ Cardinality(N) \in Nat
          /\ Cardinality(N \cup {line + 1}) = Cardinality(N) + 1
          /\ Rank(N \cup {line + 1}, line + 1) = Cardinality(N) + 1
          /\ \A n \in N : /\ Rank(N \cup {line + 1}, n) = Rank(N, n)
                          /\ Rank(N, n) \in 1..Cardinality(N)
      BY <2>1, <2>3, RankGrows
    <3>4. /\ Len(Append(ps, v)) = Len(ps) + 1
          /\ Append(ps, v)[Len(ps) + 1] = v
          /\ \A i \in 1..Len(ps) : Append(ps, v)[i] = ps[i]
      <4>1. IsSequence(ps)
        BY DEF Types, Gathered, IsSequence
      <4> HIDE DEF ps, v
      <4> QED
        BY <4>1, AppendFacts
    <3> DEFINE M == N \cup {line + 1}
    <3>5. Len(pendingParamStrings') = Cardinality(M)
      BY <2>4, <3>2, <3>3, <3>4
    <3>6. ASSUME NEW j \in M PROVE pendingParamStrings'[Rank(M, j)] = file[j].annotation.value
      <4>1. CASE j = line + 1
        BY <2>1, <2>4, <3>2, <3>3, <3>4, <4>1
      <4>2. CASE j \in N
        BY <2>4, <3>2, <3>3, <3>4, <4>2
      <4> QED
        BY <4>1, <4>2
    <3>7. paramNoneSeen' <=> \E j \in P \cup {line + 1} : file[j].annotation.value = "none"
      BY <2>1, <2>4, <2>6, <3>2
    <3> HIDE DEF M
    <3> QED
      BY <2>1, <2>2, <3>1, <3>5, <3>6, <3>7 DEF PendingParams, M
  <2> QED
    BY <2>5, <2>6
<1>3. CASE ScanScalar(l)
  <2>1. /\ UNCHANGED <<pendingParamStrings, paramNoneSeen, file>> /\ IsAnnotation(l)
        /\ l.annotation.key # "param"
    BY <1>1, <1>3 DEF ScanScalar
  <2>2. LinesOf(file, line' + 1, "param") = LinesOf(file, line + 1, "param")
    BY <1>1, <1>3, <2>1, Annotated DEF ScanScalar
  <2> QED
    BY <2>1, <2>2, SamePendingParams
<1>4. CASE ScanComment(l)
  <2>1. UNCHANGED <<pendingParamStrings, paramNoneSeen, file>> /\ ~IsAnnotation(l) /\ IsComment(l)
    BY <1>1, <1>4 DEF ScanComment, IsComment, blockVars
  <2>2. LinesOf(file, line' + 1, "param") = LinesOf(file, line + 1, "param")
    BY <1>1, <1>4, <2>1, Commented DEF ScanComment
  <2> QED
    BY <2>1, <2>2, SamePendingParams
<1>5. ASSUME Scan(l), ~IsAnnotation(l), ~IsComment(l)
      PROVE  LinesOf(file', line' + 1, "param") = {} /\ file' = file
  BY <1>1, <1>5, BlockEnds
<1>6. CASE ScanPlainTarget(l) \/ ScanRecipe(l) \/ ScanOther(l)
  <2>1. Scan(l) /\ ~IsAnnotation(l) /\ ~IsComment(l) /\ resetState
    BY <1>6 DEF ScanPlainTarget, ScanRecipe, ScanOther, IsTarget, IsOther, IsComment
  <2> QED
    BY <1>5, <2>1, NoPendingParams
<1>7. CASE ScanBlank(l)
  <2>1. Scan(l) /\ ~IsAnnotation(l) /\ ~IsComment(l)
    BY <1>7 DEF ScanBlank, IsBlank, IsComment
  <2>2. LinesOf(file', line' + 1, "param") = {} /\ file' = file
    BY <1>5, <2>1
  <2>3. CASE inAnnotationBlock
    BY <1>7, <2>2, <2>3, NoPendingParams DEF ScanBlank
  <2>4. CASE ~inAnnotationBlock
    <3>1. UNCHANGED <<pendingParamStrings, paramNoneSeen>>
      BY <1>7, <2>4 DEF ScanBlank, blockVars
    <3>2. LinesOf(file, line + 1, "param") = {}
      BY <2>4 DEF Pending, LinesOf
    <3> QED
      BY <2>2, <3>1, <3>2, SamePendingParams
  <2> QED
    BY <2>3, <2>4
<1> QED
  BY <1>2, <1>3, <1>4, <1>6, <1>7 DEF ScanLine

-----------------------------------------------------------------------------
(* A recipe without errors is complete. *)
LEMMA RecipeComplete ==
  ASSUME Types, Pending, PendingParams, NEW l, ScanRecipe(l), errors' = {}
  PROVE  errors = {} /\ Complete(file, line + 1, strict, Made(l.target))
<1> DEFINE r == Made(l.target)
           N == NamedOf(file, line + 1)
           P == LinesOf(file, line + 1, "param")
           ps == pendingParamStrings
<1>1. /\ errors = {} /\ paramErrors = {} /\ hintErrors = {}
      /\ validateStrictAnnotations = {} /\ Validate(r) = {}
  <2>1. errors' = errors \cup {[id |-> l.target, what |-> w] :
           w \in paramErrors \cup hintErrors \cup validateStrictAnnotations \cup Validate(r)}
    BY DEF ScanRecipe, Made
  <2> HIDE DEF r
  <2> QED
    BY <2>1
<1>2. line \in Nat /\ Gathered
  BY DEF Types, Reading, Position
<1>3. /\ r.params # NilParams
      /\ \A x \in Fields \ {"risk"} : r.fields[x] # ""
      /\ r.fields["output-type"] \in MediaTypes \cup {""} /\ r.fields["risk"] \in Risks
  <2> HIDE DEF r
  <2>1. ASSUME NEW x \in Fields \ {"risk"}, r.fields[x] = "" PROVE FALSE
    <3>1. <<"missing", x>> \in Validate(r)
      BY <2>1 DEF Validate
    <3> QED
      BY <1>1, <3>1
  <2>2. r.params # NilParams
    BY <1>1 DEF Validate
  <2>3. r.fields["output-type"] \in MediaTypes \cup {""}
    BY <1>1 DEF Validate
  <2>4. r.fields["risk"] \in Risks
    BY <1>1 DEF Validate
  <2> QED
    BY <2>1, <2>2, <2>3, <2>4
<1>4. r.params = buildParams /\ r.hints = buildToolHints
  BY DEF Made
<1>5. paramsSeen /\ P # {}
  <2>1. paramsSeen
    BY <1>3, <1>4 DEF buildParams
  <2> QED
    BY <2>1 DEF Pending
<1>6. /\ Len(ps) = Cardinality(N)
      /\ \A j \in N : ps[Rank(N, j)] = file[j].annotation.value
      /\ paramNoneSeen <=> \E j \in P : file[j].annotation.value = "none"
  BY DEF PendingParams
<1>7. ~(paramNoneSeen /\ ps # <<>>)
  BY <1>1 DEF paramErrors
<1>8. N \in SUBSET (1..line) /\ N = {j \in P : file[j].annotation.value # "none"}
  BY <1>2 DEF NamedOf, LinesOf, BlockOf
<1>9. Len(ps) \in Nat /\ DOMAIN ps = 1..Len(ps)
  BY <1>2 DEF Gathered
<1>10. r.params = [k \in 1..Cardinality(N) |-> parseParam[file[Nth(N, k)].annotation.value]]
  <2>1. \A k \in 1..Cardinality(N) : ps[k] = file[Nth(N, k)].annotation.value
    <3>1. \A k \in 1..Cardinality(N) : Nth(N, k) \in N /\ Rank(N, Nth(N, k)) = k
      <4> HIDE DEF N
      <4> QED
        BY <1>2, <1>8, NthFacts
    <3> HIDE DEF N
    <3> QED
      BY <1>6, <3>1
  <2>2. CASE paramNoneSeen
    <3>1. ps = <<>> /\ Len(ps) = 0
      BY <1>7, <2>2
    <3>2. r.params = <<>>
      BY <1>4, <1>5, <2>2 DEF buildParams
    <3>3. Cardinality(N) = 0
      BY <1>6, <3>1
    <3> HIDE DEF N, r
    <3>4. [k \in 1..Cardinality(N) |-> parseParam[file[Nth(N, k)].annotation.value]] = <<>>
      BY <3>3
    <3> QED
      BY <3>2, <3>4
  <2>3. CASE ~paramNoneSeen
    <3> DEFINE good == {i \in DOMAIN ps : parseParam[ps[i]] # BadParam}
               I == 1..Len(ps)
    <3>1. r.params = [k \in 1..Cardinality(good) |-> parseParam[ps[Nth(good, k)]]]
      BY <1>4, <1>5, <2>3 DEF buildParams
    <3>2. good = I
      <4>1. ASSUME NEW i \in DOMAIN ps, parseParam[ps[i]] = BadParam PROVE FALSE
        <5>1. <<"bad", ps[i]>> \in paramErrors
          BY <2>3, <4>1 DEF paramErrors
        <5> QED
          BY <1>1, <5>1
      <4>2. \A i \in DOMAIN ps : parseParam[ps[i]] # BadParam
        BY <4>1
      <4> HIDE DEF ps
      <4> QED
        BY <1>9, <4>2
    <3>3. Cardinality(I) = Len(ps)
      <4>1. \A k \in Nat : Cardinality(1..k) = k
        BY FS_Interval
      <4> QED
        BY <1>9, <4>1
    <3>4. \A k \in I : Rank(I, k) = k
      <4>1. ASSUME NEW k \in I PROVE {x \in I : x <= k} = 1..k /\ k \in Nat
        BY <1>9
      <4>2. \A k \in Nat : Cardinality(1..k) = k
        BY FS_Interval
      <4> QED
        BY <4>1, <4>2 DEF Rank
    <3>5. \A k \in I : Nth(I, k) \in I /\ Rank(I, Nth(I, k)) = k
      BY <1>9, <3>3, NthFacts
    <3> HIDE DEF good, I, ps, N, r
    <3>6. \A k \in I : Nth(I, k) = k
      BY <3>4, <3>5
    <3>7. 1..Cardinality(good) = I /\ 1..Cardinality(N) = I
      BY <1>6, <3>2, <3>3 DEF I
    <3>8. r.params = [k \in I |-> parseParam[ps[k]]]
      BY <3>1, <3>2, <3>6, <3>7
    <3> QED
      BY <2>1, <3>7, <3>8
  <2> QED
    BY <2>2, <2>3
<1>11. N # {} => N = P
  <2> SUFFICES ASSUME NEW n \in N PROVE N = P
    OBVIOUS
  <2>1. Rank(N, n) \in 1..Cardinality(N)
    <3> HIDE DEF N
    <3> QED
      BY <1>2, <1>8, RankFacts
  <2>2. ps # <<>>
    <3>1. Len(ps) # 0
      BY <1>6, <1>9, <2>1
    <3> QED
      BY <3>1
  <2>3. \A j \in P : file[j].annotation.value # "none"
    BY <1>6, <1>7, <2>2
  <2> QED
    BY <1>8, <2>3
<1>12. ASSUME NEW h \in Hints, strict \/ LinesOf(file, line + 1, h) # {}
       PROVE  r.hints[h] \in BOOLEAN
  <2>1. h \in DOMAIN pendingMeta
    <3>1. CASE strict
      <4>1. ASSUME h \notin DOMAIN pendingMeta PROVE FALSE
        <5>1. <<"strict", h>> \in validateStrictAnnotations
          BY <3>1, <4>1 DEF validateStrictAnnotations
        <5> QED
          BY <1>1, <5>1
      <4> QED
        BY <4>1
    <3>2. CASE LinesOf(file, line + 1, h) # {}
      BY <3>2, Constants DEF Pending
    <3> QED
      BY <1>12, <3>1, <3>2
  <2>2. parseBool[pendingMeta[h]] # BadBool
    <3>1. ASSUME parseBool[pendingMeta[h]] = BadBool PROVE FALSE
      <4>1. <<"bad", h>> \in hintErrors
        BY <2>1, <3>1 DEF hintErrors
      <4> QED
        BY <1>1, <4>1
    <3> QED
      BY <3>1
  <2>3. pendingMeta[h] \in Values
    BY <1>2, <2>1 DEF Gathered
  <2>4. parseBool[pendingMeta[h]] \in BOOLEAN \cup {BadBool}
    BY <2>3, ParserAssumption
  <2>5. r.hints[h] = parseBool[pendingMeta[h]]
    BY <1>4, <2>1 DEF buildToolHints
  <2> QED
    BY <2>2, <2>4, <2>5
<1> HIDE DEF r
<1>13. /\ \A x \in Texts : r.fields[x] # ""
       /\ r.fields["output-type"] \in MediaTypes
  BY <1>3 DEF Fields, Texts
<1> QED
  BY <1>1, <1>3, <1>5, <1>10, <1>11, <1>12, <1>13 DEF Complete, r

(* No recipe of a result without errors is incomplete. *)
LEMMA CompleteStep ==
  ASSUME Types, Inv, PendingParams, CompleteAll, NEW l, ScanLine(l)
  PROVE  CompleteAll'
<1>0. Position /\ Pending /\ (status # "failed" => DescribesAll(file, line, recipes))
  BY DEF Inv
<1>1. /\ Scan(l) /\ line \in Nat /\ line' = line + 1 /\ file' = file /\ status' = status
      /\ strict' = strict /\ l = file[line + 1] /\ status = "scanning"
  <2>1. Scan(l)
    BY DEF ScanLine, ScanParam, ScanScalar, ScanComment, ScanPlainTarget, ScanRecipe, ScanBlank,
           ScanOther
  <2> QED
    BY <1>0, <2>1, NextLine DEF Scan
<1>2. CASE ScanRecipe(l)
  <2> SUFFICES ASSUME errors' = {}
               PROVE  \A n \in RecipeLinesOf(file, line + 1) :
                        Complete(file, n, strict, recipes'[Rank(RecipeLinesOf(file, line + 1), n)])
    BY <1>1 DEF CompleteAll
  <2> DEFINE S == RecipeLinesOf(file, line)
             T == RecipeLinesOf(file, line + 1)
             r == Made(l.target)
  <2>1. errors = {} /\ Complete(file, line + 1, strict, r)
    BY <1>0, <1>2, RecipeComplete
  <2>2. recipes' = Append(recipes, r)
    BY <1>0, <1>2, RecipeDescribed
  <2>3. IsTarget(l) /\ l.target \notin Special /\ BlockOf(file, line + 1) # {}
    BY <1>0, <1>2 DEF ScanRecipe, Pending
  <2>4. /\ T = S \cup {line + 1}
        /\ Rank(T, line + 1) = Cardinality(S) + 1
        /\ \A n \in S : Rank(T, n) = Rank(S, n) /\ Rank(S, n) \in 1..Cardinality(S)
    BY <1>1, <2>3, OneRecipeLine
  <2>5. IsSequence(recipes) /\ Len(recipes) = Cardinality(S)
    BY <1>0, <1>1 DEF DescribesAll
  <2>6. \A n \in S : Complete(file, n, strict, recipes[Rank(S, n)])
    BY <1>1, <2>1 DEF CompleteAll
  <2> HIDE DEF S, T, r
  <2>7. /\ Append(recipes, r)[Len(recipes) + 1] = r
        /\ \A i \in 1..Len(recipes) : Append(recipes, r)[i] = recipes[i]
    BY <2>5, AppendFacts
  <2>8. ASSUME NEW n \in T PROVE Complete(file, n, strict, recipes'[Rank(T, n)])
    <3>1. CASE n = line + 1
      BY <2>1, <2>2, <2>4, <2>5, <2>7, <3>1
    <3>2. CASE n \in S
      BY <2>2, <2>4, <2>5, <2>6, <2>7, <3>2
    <3> QED
      BY <2>4, <3>1, <3>2
  <2> QED
    BY <2>8 DEF T
<1>3. CASE ~ScanRecipe(l)
  <2>1. UNCHANGED <<recipes, errors>>
    BY <1>3 DEF ScanLine, ScanParam, ScanScalar, ScanComment, ScanPlainTarget, ScanBlank,
                ScanOther, resultVars
  <2>2. ~IsTarget(l) \/ l.target \in Special \/ BlockOf(file, line + 1) = {}
    <3>1. CASE ScanPlainTarget(l)
      BY <1>0, <3>1, PlainHasNoBlock
    <3>2. CASE ~ScanPlainTarget(l)
      BY <1>3, <3>2 DEF ScanLine, ScanParam, ScanScalar, ScanComment, ScanBlank, ScanOther,
                    IsTarget, IsComment, IsBlank, IsOther
    <3> QED
      BY <3>1, <3>2
  <2>3. RecipeLinesOf(file, line + 1) = RecipeLinesOf(file, line)
    BY <1>1, <2>2, NoRecipeLine
  <2> QED
    BY <1>1, <2>1, <2>3 DEF CompleteAll
<1> QED
  BY <1>2, <1>3

-----------------------------------------------------------------------------
(* Nothing is pending before the first line. *)
LEMMA FreshInv == Fresh => Inv /\ PendingParams /\ CompleteAll
<1> SUFFICES ASSUME Fresh PROVE Inv /\ PendingParams /\ CompleteAll
  OBVIOUS
<1>1. file \in Seq(Line) /\ line = 0 /\ recipes = <<>> /\ pendingMeta = <<>>
      /\ ~paramsSeen /\ ~inAnnotationBlock /\ pendingParamStrings = <<>> /\ ~paramNoneSeen
  BY DEF Fresh
<1>2. Position
  BY <1>1 DEF Position
<1>3. BlockOf(file, 0 + 1) = {} /\ \A key : LinesOf(file, 0 + 1, key) = {}
  BY DEF BlockOf, LinesOf
<1>4. DOMAIN pendingMeta = {}
  BY <1>1
<1>5. Pending
  BY <1>1, <1>3, <1>4 DEF Pending
<1>6. DescribesAll(file, 0, <<>>)
  <2>1. RecipeLinesOf(file, 0) = {}
    BY DEF RecipeLinesOf
  <2>2. Cardinality({}) = 0
    BY FS_EmptySet
  <2>3. IsSequence(<<>>) /\ Len(<<>>) = 0
    BY DEF IsSequence
  <2> QED
    BY <2>1, <2>2, <2>3 DEF DescribesAll
<1>7. PendingParams
  <2>1. NamedOf(file, line + 1) = {} /\ Cardinality({}) = 0 /\ Len(<<>>) = 0
    BY <1>1, <1>3, FS_EmptySet DEF NamedOf
  <2> QED
    BY <1>1, <1>3, <2>1 DEF PendingParams
<1>8. CompleteAll
  BY <1>1 DEF CompleteAll, RecipeLinesOf
<1> QED
  BY <1>1, <1>2, <1>5, <1>6, <1>7, <1>8 DEF Inv

(* A line that is no recipe: the pending state has been dealt with. *)
LEMMA PlainStep ==
  ASSUME Inv, NEW l, Scan(l), Pending', recipes' = recipes,
         ~IsTarget(l) \/ l.target \in Special \/ BlockOf(file, line + 1) = {}
  PROVE  Inv'
<1>1. /\ Position' /\ line \in Nat /\ line' = line + 1 /\ file' = file /\ status' = status
      /\ l = file[line + 1]
  BY NextLine DEF Inv
<1>2. status # "failed" => DescribesAll(file, line + 1, recipes)
  BY <1>1, RecipesKept DEF Inv
<1> QED
  BY <1>1, <1>2 DEF Inv

(* One case for each class of line. *)
LEMMA LineStep ==
  ASSUME Inv, NEW l, ScanLine(l)
  PROVE  Inv'
<1> USE DEF resultVars
<1>0. Position /\ Pending
  BY DEF Inv
<1>1. CASE ScanParam(l)
  BY <1>0, <1>1, PendingParam, PlainStep DEF ScanParam, IsTarget
<1>2. CASE ScanScalar(l)
  BY <1>0, <1>2, PendingScalar, PlainStep DEF ScanScalar, IsTarget
<1>3. CASE ScanComment(l)
  BY <1>0, <1>3, PendingComment, PlainStep DEF ScanComment, IsTarget, IsComment
<1>4. CASE ScanPlainTarget(l)
  <2>1. Pending'
    BY <1>0, <1>4, PendingReset DEF ScanPlainTarget, IsTarget, IsComment
  <2>2. l.target \in Special \/ BlockOf(file, line + 1) = {}
    BY <1>0, <1>4, PlainHasNoBlock
  <2> QED
    BY <1>4, <2>1, <2>2, PlainStep DEF ScanPlainTarget
<1>5. CASE ScanRecipe(l)
  <2>1. /\ Position' /\ line \in Nat /\ line' = line + 1 /\ file' = file /\ status' = status
        /\ l = file[line + 1]
    BY <1>0, <1>5, NextLine DEF ScanRecipe
  <2>2. Pending'
    BY <1>0, <1>5, PendingReset DEF ScanRecipe, IsTarget, IsComment
  <2>3. /\ recipes' = Append(recipes, Made(l.target))
        /\ Describes(file, line + 1, Made(l.target))
    BY <1>0, <1>5, RecipeDescribed
  <2>4. IsTarget(l) /\ l.target \notin Special /\ BlockOf(file, line + 1) # {}
    BY <1>0, <1>5 DEF ScanRecipe, Pending
  <2>5. status # "failed" => DescribesAll(file, line + 1, recipes')
    BY <2>1, <2>3, <2>4, RecipeAdded DEF Inv
  <2> QED
    BY <2>1, <2>2, <2>5 DEF Inv
<1>6. CASE ScanBlank(l)
  <2>1. Scan(l) /\ ~IsAnnotation(l) /\ ~IsComment(l) /\ ~IsTarget(l) /\ recipes' = recipes
    BY <1>6 DEF ScanBlank, IsBlank, IsComment, IsTarget
  <2>2. Pending'
    <3>1. CASE inAnnotationBlock
      BY <1>0, <1>6, <2>1, <3>1, PendingReset DEF ScanBlank
    <3>2. CASE ~inAnnotationBlock
      <4>1. UNCHANGED blockVars
        BY <1>6, <3>2 DEF ScanBlank
      <4>2. BlockOf(file, line + 1) = {} /\ \A key : LinesOf(file, line + 1, key) = {}
        BY <1>0, <3>2 DEF Pending, LinesOf
      <4>3. /\ line' = line + 1 /\ file' = file
            /\ BlockOf(file, line + 1 + 1) = {} /\ \A key : LinesOf(file, line + 1 + 1, key) = {}
        BY <1>0, <2>1, NextLine, BlockEnds
      <4>4. DOMAIN pendingMeta = {} /\ ~paramsSeen
        BY <1>0, <4>2 DEF Pending
      <4> QED
        BY <3>2, <4>1, <4>3, <4>4 DEF Pending, blockVars
    <3> QED
      BY <3>1, <3>2
  <2> QED
    BY <2>1, <2>2, PlainStep
<1>7. CASE ScanOther(l)
  BY <1>0, <1>7, PendingReset, PlainStep DEF ScanOther, IsOther, IsComment, IsTarget
<1> QED
  BY <1>1, <1>2, <1>3, <1>4, <1>5, <1>6, <1>7 DEF ScanLine

(* Every step keeps the invariant. *)
LEMMA InvStep == Inv /\ [Next]_vars => Inv'
<1> SUFFICES ASSUME Inv, [Next]_vars PROVE Inv'
  OBVIOUS
<1>1. CASE ScanEnds
  BY <1>1 DEF ScanEnds, Inv, Position, Pending, blockVars, resultVars
<1>2. CASE line < Len(file) /\ ScanLine(file[line + 1])
  BY <1>2, LineStep
<1>3. CASE UNCHANGED vars
  BY <1>3 DEF vars, blockVars, resultVars, Inv, Position, Pending
<1> QED
  BY <1>1, <1>2, <1>3 DEF Next

ScanInv == Types /\ Inv /\ PendingParams /\ CompleteAll

LEMMA FreshScan == Fresh => ScanInv
BY FreshTypes, FreshInv DEF ScanInv

LEMMA FreshScanNext == Fresh' => ScanInv'
BY FreshScan, PTL

LEMMA ScanStep == ScanInv /\ [Next]_vars => ScanInv'
<1> SUFFICES ASSUME ScanInv, [Next]_vars PROVE ScanInv'
  OBVIOUS
<1>0. Types /\ Inv /\ PendingParams /\ CompleteAll /\ Pending
  BY DEF ScanInv, Inv
<1>1. Types' /\ Inv'
  BY <1>0, TypesStep, InvStep
<1>2. CASE ScanEnds
  BY <1>0, <1>1, <1>2 DEF ScanEnds, ScanInv, PendingParams, CompleteAll, blockVars, resultVars
<1>3. CASE line < Len(file) /\ ScanLine(file[line + 1])
  BY <1>0, <1>1, <1>3, PendingParamsStep, CompleteStep DEF ScanInv
<1>4. CASE UNCHANGED vars
  BY <1>0, <1>1, <1>4 DEF vars, blockVars, resultVars, ScanInv, PendingParams, CompleteAll
<1> QED
  BY <1>2, <1>3, <1>4 DEF Next

(* The invariant the rest is proved from. *)
THEOREM Invariance == Spec => []ScanInv
BY InitFresh, FreshScan, ScanStep, PTL DEF Spec

(* Every variable keeps its type, and a block is open exactly when         *)
(* something has been gathered in it.                                      *)
THEOREM TypeCorrect == Spec => []TypeOK
<1>1. ScanInv => TypeOK
  BY TypesAreTypes DEF ScanInv
<1> QED
  BY <1>1, Invariance, PTL

LEMMA InvOwnBlock == ScanInv => OwnBlock
<1> SUFFICES ASSUME ScanInv, status # "failed"
             PROVE  /\ Len(recipes) = Cardinality(RecipeLines)
                    /\ \A n \in RecipeLines :
                         LET r == recipes[Rank(RecipeLines, n)] IN
                           /\ r.id = file[n].target
                           /\ \A f \in Fields : r.fields[f] = BlockValue(n, f)
                           /\ \A h \in Hints :
                                r.hints[h] = IF Lines(n, h) = {} THEN BadBool
                                             ELSE parseBool[BlockValue(n, h)]
  BY DEF OwnBlock
<1>1. \A n : Block(n) = BlockOf(file, n)
  BY DEF Block, BlockOf
<1>2. \A n, key : Lines(n, key) = LinesOf(file, n, key)
  BY <1>1 DEF Lines, LinesOf
<1>3. RecipeLines = RecipeLinesOf(file, line)
  BY <1>1 DEF RecipeLines, RecipeLinesOf, IsRecipeLine
<1>4. \A n, key : BlockValue(n, key) =
        IF LinesOf(file, n, key) = {} THEN "" ELSE LastValueOf(file, n, key)
  BY <1>2 DEF BlockValue, Value, LastValueOf
<1>5. /\ Len(recipes) = Cardinality(RecipeLines)
      /\ \A n \in RecipeLines : Describes(file, n, recipes[Rank(RecipeLines, n)])
  BY <1>3 DEF ScanInv, Inv, DescribesAll
<1> QED
  BY <1>2, <1>4, <1>5 DEF Describes

(* The declarative side, with the file as a parameter. *)
LEMMA Restated ==
  /\ \A n, key : Lines(n, key) = LinesOf(file, n, key)
  /\ RecipeLines = RecipeLinesOf(file, line)
  /\ \A n : NamedParams(n) = NamedOf(file, n)
<1>1. \A n : Block(n) = BlockOf(file, n)
  BY DEF Block, BlockOf
<1>2. \A n, key : Lines(n, key) = LinesOf(file, n, key)
  BY <1>1 DEF Lines, LinesOf
<1>3. RecipeLines = RecipeLinesOf(file, line)
  BY <1>1 DEF RecipeLines, RecipeLinesOf, IsRecipeLine
<1>4. \A n : NamedParams(n) = NamedOf(file, n)
  BY <1>2 DEF NamedParams, NamedOf, Value
<1> QED
  BY <1>2, <1>3, <1>4

LEMMA InvNothingDropped == ScanInv => NothingDropped
<1> SUFFICES ASSUME ScanInv, status = "parsed", errors = {}, NEW n \in RecipeLines
             PROVE  LET r == recipes[Rank(RecipeLines, n)]
                        named == NamedParams(n)
                    IN  /\ Lines(n, "param") # {}
                        /\ r.params = [k \in 1..Cardinality(named) |->
                                         parseParam[Value(Nth(named, k))]]
                        /\ named # {} => named = Lines(n, "param")
                        /\ \A f \in Texts : r.fields[f] # ""
                        /\ r.fields["risk"] \in Risks /\ r.fields["output-type"] \in MediaTypes
                        /\ \A h \in Hints : strict \/ Lines(n, h) # {} => r.hints[h] \in BOOLEAN
  BY DEF NothingDropped
<1>1. Complete(file, n, strict, recipes[Rank(RecipeLines, n)])
  BY Restated DEF ScanInv, CompleteAll
<1>2. /\ \A m, key : Lines(m, key) = LinesOf(file, m, key)
      /\ NamedParams(n) = NamedOf(file, n)
  BY Restated
<1> DEFINE r == recipes[Rank(RecipeLines, n)]
<1> HIDE DEF r
<1>3. [k \in 1..Cardinality(NamedOf(file, n)) |-> parseParam[file[Nth(NamedOf(file, n), k)].annotation.value]]
        = [k \in 1..Cardinality(NamedParams(n)) |-> parseParam[Value(Nth(NamedParams(n), k))]]
  BY <1>2 DEF Value
<1> QED
  BY <1>1, <1>2, <1>3 DEF Complete, r

(* No annotation leaks: for every Makefile, the recipes are the targets    *)
(* with a block of their own, in order, and each has the last values its   *)
(* own block gives its fields and hints.                                   *)
THEOREM BlocksAreOwn == Spec => []OwnBlock
BY InvOwnBlock, Invariance, PTL

(* Nothing is dropped: for every Makefile that is accepted, each recipe    *)
(* declares every parameter its block names, in order, and has every field *)
(* and every hint that was given, or that strict mode demands.             *)
THEOREM AcceptedIsComplete == Spec => []NothingDropped
BY InvNothingDropped, Invariance, PTL

-----------------------------------------------------------------------------
(* validate: one scan after the other. *)

(* Errors are a recipe's, in this scan and in those merged before it. *)
Verdict ==
  /\ errors # {} => recipes # <<>>
  /\ merged.recipes \in Nat
  /\ merged.errors # {} => merged.recipes # 0
  /\ pc = "exited" => (exit = 0 <=> status = "parsed" /\ merged.errors = {})

ValidateInv == ScanInv /\ rest \in Seq(Seq(Line)) /\ Verdict

LEMMA ValidateInitInv == ValidateInit => ValidateInv
<1> SUFFICES ASSUME ValidateInit PROVE ValidateInv
  OBVIOUS
<1>1. ScanInv
  BY InitFresh, FreshScan DEF ValidateInit
<1>2. rest \in Seq(Seq(Line))
  BY ValidateAssumption DEF ValidateInit
<1>3. Verdict
  BY DEF ValidateInit, Init, Verdict
<1> QED
  BY <1>1, <1>2, <1>3 DEF ValidateInv

(* A scan that is under way reports no error without a recipe. *)
LEMMA ErrorsHaveRecipes ==
  ASSUME ScanInv, errors # {} => recipes # <<>>, Next
  PROVE  errors' # {} => recipes' # <<>>
<1>1. recipes \in Seq(Recipe)
  BY DEF ScanInv, Types, Results
<1>2. CASE ScanEnds
  BY <1>2 DEF ScanEnds, resultVars
<1>3. ASSUME NEW l, ScanRecipe(l) PROVE recipes' # <<>>
  <2>1. recipes' = Append(recipes, Made(l.target))
    BY <1>3, RecipeDescribed DEF ScanInv, Inv
  <2>2. IsSequence(recipes)
    BY <1>1 DEF IsSequence
  <2>3. Len(Append(recipes, Made(l.target))) = Len(recipes) + 1 /\ Len(recipes) \in Nat
    BY <2>2, AppendFacts
  <2> QED
    BY <2>1, <2>3
<1>4. CASE line < Len(file) /\ ScanLine(file[line + 1])
  BY <1>3, <1>4 DEF ScanLine, ScanParam, ScanScalar, ScanComment, ScanPlainTarget, ScanBlank,
                    ScanOther, resultVars
<1> QED
  BY <1>2, <1>4 DEF Next

(* What a merge adds up to. *)
LEMMA MergeFacts ==
  ASSUME ScanInv, Verdict, Merge
  PROVE  /\ merged'.recipes \in Nat
         /\ merged'.errors # {} => merged'.recipes # 0
<1>1. recipes \in Seq(Recipe)
  BY DEF ScanInv, Types, Results
<1>2. Len(recipes) \in Nat /\ (recipes # <<>> => Len(recipes) # 0)
  BY <1>1
<1>3. /\ merged'.recipes = merged.recipes + Len(recipes)
      /\ merged'.errors = merged.errors \cup errors
  BY DEF Merge
<1> QED
  BY <1>2, <1>3 DEF Verdict

LEMMA ValidateStep == ValidateInv /\ [ValidateNext]_validateVars => ValidateInv'
<1> SUFFICES ASSUME ValidateInv, [ValidateNext]_validateVars PROVE ValidateInv'
  OBVIOUS
<1>0. ScanInv /\ rest \in Seq(Seq(Line)) /\ Verdict
  BY DEF ValidateInv
<1>1. ASSUME UNCHANGED vars PROVE ScanInv' /\ UNCHANGED <<errors, recipes, status>>
  BY <1>0, <1>1, ScanStep DEF vars, resultVars
<1>2. CASE Usage \/ Begin
  BY <1>0, <1>1, <1>2 DEF Usage, Begin, ValidateInv, Verdict
<1>3. CASE Parse
  <2>1. Next /\ UNCHANGED <<pc, rest, merged, exit>> /\ pc = "parse"
    BY <1>3 DEF Parse
  <2>2. ScanInv'
    BY <1>0, <2>1, ScanStep
  <2>3. errors' # {} => recipes' # <<>>
    BY <1>0, <2>1, ErrorsHaveRecipes DEF Verdict
  <2> QED
    BY <1>0, <2>1, <2>2, <2>3 DEF ValidateInv, Verdict
<1>4. CASE ParseFails
  BY <1>0, <1>1, <1>4 DEF ParseFails, ValidateInv, Verdict
<1>5. CASE NextMakefile
  <2>1. Fresh'
    <3>1. Head(rest) \in Seq(Line)
      BY <1>0, <1>5 DEF NextMakefile
    <3>2. strict \in BOOLEAN
      BY <1>0 DEF ScanInv, Types, Reading
    <3> QED
      BY <1>5, <3>1, <3>2 DEF NextMakefile, Fresh, resetState
  <2>2. ScanInv'
    BY <2>1, FreshScanNext
  <2>3. rest' \in Seq(Seq(Line))
    BY <1>0, <1>5 DEF NextMakefile
  <2>4. Verdict'
    BY <1>0, <1>5, MergeFacts DEF NextMakefile, Verdict
  <2> QED
    BY <2>2, <2>3, <2>4 DEF ValidateInv
<1>6. CASE Report
  <2>1. /\ merged'.recipes \in Nat
        /\ merged'.errors # {} => merged'.recipes # 0
    BY <1>0, <1>6, MergeFacts DEF Report
  <2>2. /\ exit' = IF merged'.recipes = 0 \/ merged'.errors = {} THEN 0 ELSE 2
        /\ pc' = "exited" /\ UNCHANGED <<vars, rest>> /\ status = "parsed"
    BY <1>6 DEF Report
  <2> QED
    BY <1>0, <1>1, <2>1, <2>2 DEF ValidateInv, Verdict
<1>7. CASE UNCHANGED validateVars
  BY <1>0, <1>1, <1>7 DEF validateVars, ValidateInv, Verdict
<1> QED
  BY <1>2, <1>3, <1>4, <1>5, <1>6, <1>7 DEF ValidateNext

LEMMA ValidateInvariance == ValidateSpec => []ValidateInv
BY ValidateInitInv, ValidateStep, PTL DEF ValidateSpec

(* The exit status of validate is the verdict the server would reach, for  *)
(* every list of Makefiles: 0 exactly when all were read to the end and    *)
(* none has an error.                                                      *)
THEOREM ExitsAsServerStarts == ValidateSpec => []VerdictIsServers
<1>1. ValidateInv => VerdictIsServers
  BY DEF ValidateInv, Verdict, VerdictIsServers
<1> QED
  BY <1>1, ValidateInvariance, PTL

(* What is proved of one Makefile holds of each that validate reads.       *)
THEOREM EachMakefile == ValidateSpec => [](TypeOK /\ OwnBlock /\ NothingDropped)
<1>1. ValidateInv => TypeOK /\ OwnBlock /\ NothingDropped
  BY TypesAreTypes, InvOwnBlock, InvNothingDropped DEF ValidateInv, ScanInv
<1> QED
  BY <1>1, ValidateInvariance, PTL
=============================================================================
