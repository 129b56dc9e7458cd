-------------------------------- MODULE CIDoc -------------------------------
(***************************************************************************)
(* cmd/gen-ci-doc: the workflow files as a table, the jobs of ci.yml and   *)
(* of release.yml as graphs, and the rules of the branch ruleset.          *)
(*                                                                         *)
(* A workflow is [name, on, jobs], a job [id, name, needs]; a YAML node is *)
(* [kind, items], where the items of a mapping are [key, value] pairs.  A  *)
(* rule is [type, params].                                                 *)
(***************************************************************************)
EXTENDS Integers, Sequences, SequencesExt

CONSTANTS
  WorkflowNames,   \* names of workflow files, in alphabetical order
  mermaidID,       \* mermaidID[id]: the job ID with underscores for hyphens
  NoParams         \* a rule without parameters

workflowSortWeight(name) == CASE name = "ci.yml" -> 0 [] name = "release.yml" -> 1 [] OTHER -> 2

Scalar(v) == [kind |-> "scalar", items |-> <<v>>]

(* What may be written for the needs of a job. *)
IsNeeds(node) ==
  \/ node.kind = "mapping"
  \/ node.kind = "sequence" /\ node.items \in Seq(STRING)
  \/ node.kind = "scalar" /\ Len(node.items) = 1 /\ node = Scalar(node.items[1])

IsJobs(jobs) ==
  Len(jobs) \in Nat /\ DOMAIN jobs = 1..Len(jobs) /\ \A i \in DOMAIN jobs : IsNeeds(jobs[i].needs)

(* yamlSeqJoin: a scalar and a sequence of one read the same. *)
yamlSeqJoin(node) == IF node.kind = "mapping" THEN <<>> ELSE node.items

(* The first filter of branches is shown; any other filter is not. *)
branchQualifier(node) ==
  LET filters == SelectSeq(IF node.kind = "mapping" THEN node.items ELSE <<>>,
                           LAMBDA e : e.key \in {"branches", "branches-ignore"})
  IN  IF filters = <<>> THEN <<>> ELSE <<filters[1].key>> \o yamlSeqJoin(filters[1].value)

parseTrigger(node) ==
  [i \in DOMAIN node.items |->
     IF node.kind = "mapping" THEN <<node.items[i].key>> \o branchQualifier(node.items[i].value)
     ELSE <<node.items[i]>>]

parseNeeds(node) == IF node = Scalar("") THEN <<>> ELSE yamlSeqJoin(node)

parseJobs(jobs) ==
  [i \in DOMAIN jobs |-> [id |-> jobs[i].id, name |-> jobs[i].name, needs |-> parseNeeds(jobs[i].needs)]]

(* Mutant: the edges run between labels. *)
renderByLabel(jobs) ==
  LET label(j) == IF j.name # "" THEN j.name ELSE j.id
      jobSet == {jobs[i].id : i \in DOMAIN jobs}
      named(id) == label(jobs[CHOOSE i \in DOMAIN jobs : jobs[i].id = id])
  IN  [nodes |-> [i \in DOMAIN jobs |-> <<label(jobs[i]), label(jobs[i])>>],
       edges |-> FlattenSeq([i \in DOMAIN jobs |->
                    FlattenSeq([k \in DOMAIN jobs[i].needs |->
                       IF jobs[i].needs[k] \in jobSet THEN << <<named(jobs[i].needs[k]), label(jobs[i])>> >>
                       ELSE <<>>])])]

renderMermaidGraph(jobs) ==
  LET label(j) == IF j.name # "" THEN j.name ELSE j.id
      jobSet == {jobs[i].id : i \in DOMAIN jobs}
  IN  [nodes |-> [i \in DOMAIN jobs |-> <<mermaidID[jobs[i].id], label(jobs[i])>>],
       edges |-> FlattenSeq([i \in DOMAIN jobs |->
                    FlattenSeq([k \in DOMAIN jobs[i].needs |->
                       IF jobs[i].needs[k] \in jobSet
                       THEN << <<mermaidID[jobs[i].needs[k]], mermaidID[jobs[i].id]>> >> ELSE <<>>])])]

(* Of a rule of another type nothing is shown. *)
ruleRows(r) ==
  CASE r.type = "deletion" -> << <<"Deletion", "Blocked">> >>
    [] r.type = "non_fast_forward" -> << <<"Force push", "Blocked">> >>
    [] r.type = "required_linear_history" -> << <<"Required linear history", "Yes">> >>
    [] r.type = "pull_request" /\ r.params # NoParams ->
         << <<"Required approving reviews", r.params.reviews>>,
            <<"Dismiss stale reviews on push", r.params.dismiss>>,
            <<"Require last-push approval", r.params.lastPush>>,
            <<"Required conversation resolution", r.params.resolution>> >>
    [] OTHER -> <<>>

ruleChecks(r) == IF r.type = "required_status_checks" /\ r.params # NoParams THEN r.params.checks ELSE <<>>

parseRuleset(rules) ==
  [rules |-> FlattenSeq([i \in DOMAIN rules |-> ruleRows(rules[i])]),
   checks |-> FlattenSeq([i \in DOMAIN rules |-> ruleChecks(rules[i])])]

(* The orchestrators first, the others by name; workflows[f] is a file. *)
parseWorkflowDir(workflows) ==
  LET present(w) == SelectSeq(WorkflowNames, LAMBDA f : f \in DOMAIN workflows /\ workflowSortWeight(f) = w)
      names == present(0) \o present(1) \o present(2)
  IN  [i \in DOMAIN names |->
         <<names[i], parseTrigger(workflows[names[i]].on), workflows[names[i]].name>>]

JobsOf(workflows, f) == IF f \in DOMAIN workflows THEN parseJobs(workflows[f].jobs) ELSE <<>>

CIPage(workflows, rules) ==
  [files |-> parseWorkflowDir(workflows),
   ci |-> renderMermaidGraph(JobsOf(workflows, "ci.yml")),
   release |-> renderMermaidGraph(JobsOf(workflows, "release.yml")),
   protection |-> parseRuleset(rules)]

-----------------------------------------------------------------------------
(* What GitHub makes of the jobs: IDs are unique and needs name jobs.  The *)
(* nodes of two jobs must not be spelled alike either.                     *)
Ids(jobs) == {jobs[i].id : i \in DOMAIN jobs}

Needed(job) ==
  IF job.needs.kind = "scalar" THEN {job.needs.items[1]} \ {""}
  ELSE {job.needs.items[k] : k \in DOMAIN job.needs.items}

ValidJobs(jobs) ==
  /\ \A i, k \in DOMAIN jobs : mermaidID[jobs[i].id] = mermaidID[jobs[k].id] => i = k
  /\ \A i \in DOMAIN jobs : jobs[i].needs.kind # "mapping" /\ Needed(jobs[i]) \subseteq Ids(jobs)

(* The same nodes wait for the same nodes. *)
Waits(jobs) ==
  UNION {{<<mermaidID[d], mermaidID[jobs[i].id]>> : d \in Needed(jobs[i])} : i \in DOMAIN jobs}

SameJobs(j1, j2) == {mermaidID[d] : d \in Ids(j1)} = {mermaidID[d] : d \in Ids(j2)} /\ Waits(j1) = Waits(j2)
=============================================================================
