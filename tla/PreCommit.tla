------------------------------ MODULE PreCommit -----------------------------
(***************************************************************************)
(* The pre-commit hook (makefile:91, installed by helper.mk:82): four      *)
(* generators of wiki pages, then the linters, the tests and the scans.    *)
(*                                                                         *)
(* A generator compares its output with the file in the working tree,      *)
(* replaces it and fails when they differ; it also fails when it cannot    *)
(* read its input.  make stops at the first failure, and the developer     *)
(* stages the page and commits again.  The sidebar lists the pages that    *)
(* exist when its turn comes, the first.                                   *)
(***************************************************************************)
EXTENDS MetricsDoc, CIDoc

CONSTANTS
  Start,      \* the working tree at first
  Contents,   \* Contents[f]: what an edit may make of file f
  Written,    \* wiki pages that nobody generates
  Rewrite,    \* Rewrite[readme]: README.md with its links rewritten
  Missing,
  Broken,     \* does not parse
  MaxEdits,   \* bound: edits
  MaxFails    \* bound: hooks a generator fails with no edit in between

Files == {"metrics", "main", "workflows", "ruleset", "templates", "readme", "written",
          "sidebar", "home", "telemetry", "ci"}

ASSUME PreCommitAssumption ==
  /\ DOMAIN Start = Files /\ DOMAIN Contents = Files
  /\ {"sidebar", "home", "telemetry", "ci"} \cap Written = {}
  /\ \A m \in (Contents["metrics"] \cup {Start["metrics"]}) \ {Broken} :
       m.instruments \in Seq([field : STRING, method : STRING]) /\ m.functions \in Seq(Function)
  /\ \A m \in (Contents["main"] \cup {Start["main"]}) \ {Broken} : m \in Seq(Function)
  /\ \A w \in (Contents["workflows"] \cup {Start["workflows"]}) \ {Broken} : 
       \A f \in DOMAIN w : IsJobs(w[f].jobs)
  /\ \A w \in Contents["written"] \cup {Start["written"]} : w \subseteq Written
  /\ \A pages \in SUBSET (Written \cup {"telemetry", "ci"}) : pages # Broken
  /\ MaxEdits \in Nat /\ MaxFails \in Nat

VARIABLES
  tree,       \* the working tree: tree[f] is the content of f
  pc,         \* the step of the hook, or "idle"
  verdict,    \* of the last hook
  clean,      \* nothing was edited since that hook began
  fails,      \* hooks begun since the last edit that a generator failed
  edits

vars == <<tree, pc, verdict, clean, fails, edits>>

Init ==
  /\ tree = Start
  /\ pc = "idle" /\ verdict = "none" /\ clean = FALSE
  /\ fails = 0 /\ edits = 0

(* A developer's edit, at any moment: also of a generated page. *)
Edit ==
  /\ edits < MaxEdits
  /\ \E f \in Files : \E c \in Contents[f] \ {tree[f]} : tree' = [tree EXCEPT ![f] = c]
  /\ clean' = FALSE /\ fails' = 0
  /\ edits' = edits + 1
  /\ UNCHANGED <<pc, verdict>>

Commit ==
  /\ pc = "idle"
  /\ fails < MaxFails
  /\ pc' = "sidebar"
  /\ clean' = TRUE
  /\ UNCHANGED <<tree, verdict, fails, edits>>

-----------------------------------------------------------------------------
(* Mutant: every page is listed. *)
AllPages(t) == t.written \cup {g \in {"sidebar", "home", "telemetry", "ci"} : t[g] # Missing}

(* The pages of the wiki but for Home and _Sidebar. *)
Pages(t) == t.written \cup {g \in {"telemetry", "ci"} : t[g] # Missing}

(* What the generators make of a tree; an input they cannot read is Broken *)
(* or Missing, but for main.go, which is then passed over.                 *)
Home(t) == IF t.readme = Missing THEN Broken ELSE Rewrite[t.readme]

Telemetry(t) ==
  IF Broken \in {t.metrics, t.templates} THEN Broken
  ELSE TelemetryPage(t.metrics.instruments, t.metrics.functions, IF t.main = Broken THEN <<>> ELSE t.main)

CI(t) == IF Broken \in {t.workflows, t.ruleset, t.templates} THEN Broken ELSE CIPage(t.workflows, t.ruleset)

(* Mutant: a page that was regenerated is no failure. *)
GenerateQuietly(step, next, f, output) ==
  /\ pc = step
  /\ tree' = IF output = Broken THEN tree ELSE [tree EXCEPT ![f] = output]
  /\ IF output = Broken THEN pc' = "idle" /\ verdict' = "failed" ELSE pc' = next /\ UNCHANGED verdict
  /\ UNCHANGED <<clean, fails, edits>>

Generate(step, next, f, output) ==
  /\ pc = step
  /\ IF output # Broken /\ output = tree[f]
     THEN pc' = next /\ UNCHANGED <<tree, verdict, fails>>
     ELSE /\ pc' = "idle" /\ verdict' = "failed"
          /\ tree' = IF output = Broken THEN tree ELSE [tree EXCEPT ![f] = output]
          /\ fails' = IF clean THEN fails + 1 ELSE fails
  /\ UNCHANGED <<clean, edits>>

GenSidebar == Generate("sidebar", "home", "sidebar", Pages(tree))
GenHome == Generate("home", "metrics", "home", Home(tree))
GenMetricsDoc == Generate("metrics", "ci", "telemetry", Telemetry(tree))
GenCIDoc == Generate("ci", "checks", "ci", CI(tree))

(* Code that does not compile passes no test. *)
Checks ==
  /\ pc = "checks"
  /\ pc' = "idle"
  /\ verdict' \in IF Broken \in {tree.metrics, tree.main} THEN {"failed"} ELSE {"passed", "failed"}
  /\ UNCHANGED <<tree, clean, fails, edits>>

Hook == GenSidebar \/ GenHome \/ GenMetricsDoc \/ GenCIDoc \/ Checks

Next == Edit \/ Commit \/ Hook

Spec == Init /\ [][Next]_vars

-----------------------------------------------------------------------------
Passed == pc = "idle" /\ verdict = "passed" /\ clean

(* A hook that passes on a tree nobody edits meanwhile leaves every page   *)
(* as its generator would make it now, the sidebar too, which was looked   *)
(* at before the pages it lists.                                           *)
PassMeansCurrent ==
  Passed => /\ tree.sidebar = Pages(tree) /\ tree.home = Home(tree)
            /\ tree.telemetry = Telemetry(tree) /\ tree.ci = CI(tree)

(* The telemetry page of a tree that passed names, for each instrument,    *)
(* the labels the server records it with when it runs, no more and no      *)
(* less, main.go's included, which the generator passes over in silence    *)
(* when it does not parse.                                                 *)
LabelsDocumented ==
  Passed /\ KeepsToPatterns(tree.metrics.functions, tree.main) =>
    \A i \in DOMAIN tree.metrics.instruments :
      LET d == tree.metrics.instruments[i] IN
        \E k \in DOMAIN tree.telemetry[methodToType(d.method)] :
          tree.telemetry[methodToType(d.method)][k] =
            [field |-> d.field, labels |-> Recorded(tree.metrics.functions, tree.main, d.field)]

(* No change of the jobs goes unseen: the graph of a tree that passed is   *)
(* that of no workflow with other jobs or other needs, however the needs   *)
(* are written and whatever the jobs are called.                           *)
GraphTellsJobs ==
  LET HasJobs(w) == w # Broken /\ "ci.yml" \in DOMAIN w /\ ValidJobs(w["ci.yml"].jobs) IN
    Passed /\ HasJobs(tree.workflows) =>
      \A w \in {x \in Contents["workflows"] : HasJobs(x)} :
        renderMermaidGraph(JobsOf(w, "ci.yml")) = tree.ci.ci
          => SameJobs(w["ci.yml"].jobs, tree.workflows["ci.yml"].jobs)

(* Committing again gets through: without an edit the generators fail at   *)
(* most six hooks, one for each page and, because the sidebar comes first, *)
(* one more for each of the two pages that appear after it was looked at.  *)
(* Only while a generator cannot read its input it fails every hook.       *)
SixAttempts ==
  Broken \notin {Home(tree), Telemetry(tree), CI(tree)} => fails <= 6
=============================================================================
