----------------------------- MODULE MCPreCommit ----------------------------
(* A small repository, and the edits of each of its files. *)
EXTENDS PreCommit

E(keys, calls, ident) == [keys |-> keys, calls |-> calls, ident |-> ident]
S(op, var, args) == [op |-> op, var |-> var, args |-> args]
F(name, body) == [of |-> "", name |-> name, body |-> body]
Method(of, name, body) == [of |-> of, name |-> name, body |-> body]

(* metrics.go: an inline set of labels, and one of a helper in a variable. *)
Reload == F("RecordReload", <<S("record", "Reloads", <<E({"file"}, {}, ""), E({"status"}, {}, "")>>)>>)
Attrs == F("attrs", <<S("return", "", <<E({"tool", "risk"}, {}, "")>>)>>)
Call == F("RecordCall", <<S("define", "attrs", <<E({}, {<<"", "attrs">>}, "")>>),
                          S("record", "Calls", <<E({}, {}, "attrs")>>),
                          S("record", "Duration", <<E({}, {}, "attrs")>>)>>)
List == F("RecordList", <<S("define", "attrs", <<E({"status"}, {}, "")>>),
                          S("record", "Lists", <<E({}, {}, "attrs")>>)>>)
Bytes == F("RecordBytes", <<S("define", "attrs", <<E({"status"}, {<<"", "attrs">>}, "")>>),
                            S("record", "Calls", <<E({"streaming"}, {}, ""), E({}, {}, "attrs")>>)>>)
(* A helper as an argument, a second value, a call with other keys. *)
Direct == F("RecordDirect", <<S("record", "Lists", <<E({}, {<<"", "attrs">>}, "")>>)>>)
Twice == F("RecordTwice", <<S("define", "a", <<E({"status"}, {}, "")>>), S("record", "Lists", <<E({}, {}, "a")>>),
                            S("assign", "a", <<E({"risk"}, {}, "")>>), S("record", "Lists", <<E({}, {}, "a")>>)>>)

(* A method with the name of the helper, and another that is called. *)
Named == Method("Client", "attrs", <<S("return", "", <<E({"client"}, {}, "")>>)>>)
Own == Method("Client", "own", <<S("return", "", <<E({"client"}, {}, "")>>)>>)
OwnCall == F("RecordOwn", <<S("define", "a", <<E({}, {<<"Client", "own">>, <<"", "resolveHint">>}, "")>>),
                            S("record", "Clients", <<E({}, {}, "a")>>)>>)

MCInstruments ==
  <<[field |-> "Reloads", method |-> "Int64Counter"], [field |-> "Calls", method |-> "Int64Counter"],
    [field |-> "Duration", method |-> "Float64Histogram"], [field |-> "Lists", method |-> "Int64Counter"],
    [field |-> "Clients", method |-> "Int64UpDownCounter"]>>

Metrics(functions) == [instruments |-> MCInstruments, functions |-> functions]

Client == F("run", <<S("record", "Clients", <<E({"transport"}, {}, "")>>)>>)

Job(id, name, needs) == [id |-> id, name |-> name, needs |-> needs]
Seq1(v) == [kind |-> "sequence", items |-> v]
Map(items) == [kind |-> "mapping", items |-> items]
On(key, filter, v) == Map(<<[key |-> key, value |-> Map(<<[key |-> filter, value |-> Seq1(<<v>>)]>>)]>>)

Lint == Job("lint", "", Scalar(""))
CIFile(jobs) == [name |-> "CI", on |-> On("push", "branches-ignore", "main"), jobs |-> jobs]
Workflows(jobs) == ("ci.yml" :> CIFile(jobs)) @@ ("_lint.yml" :> [name |-> "Lint", on |-> Scalar("workflow_call"), jobs |-> <<>>])

MCJobs == {<<Lint, Job("build-x", "Build", n), Job("build-y", "Build", m)>> :
             n \in {Scalar(""), Scalar("lint"), Seq1(<<"lint">>), Map(<<>>)},
             m \in {Scalar("lint"), Seq1(<<"lint", "build-x">>), Scalar("build-x"), Scalar("gone")}}

MCMermaidID == [id \in {"lint", "build-x", "build-y", "build_y", "gone"} |-> IF id = "build-y" THEN "build_y" ELSE id]

Review(n) == [type |-> "pull_request", params |-> [reviews |-> n, dismiss |-> TRUE, lastPush |-> FALSE, resolution |-> TRUE]]
MCRuleset == <<[type |-> "deletion", params |-> NoParams], Review(1),
               [type |-> "required_status_checks", params |-> [checks |-> <<"lint">>]]>>

MCStart ==
  [metrics |-> Metrics(<<Reload, Attrs, Call>>), main |-> <<Client>>, workflows |-> Workflows(<<Lint>>),
   ruleset |-> MCRuleset, templates |-> "templates", readme |-> "readme", written |-> {"Schema"},
   sidebar |-> Missing, home |-> Missing, telemetry |-> Missing, ci |-> Missing]

MCContents ==
  [metrics |-> {Broken} \cup {Metrics(<<Reload, Attrs, Call>> \o more) :
                                more \in {<<List>>, <<Bytes>>, <<List, Bytes>>, <<Direct>>, <<Twice>>,
                                         <<Named>>, <<Own, OwnCall>>}},
   main |-> {Broken, <<>>, <<Client, Reload>>, <<OwnCall, Own>>},
   workflows |-> {Broken} \cup {Workflows(j) : j \in MCJobs}
                   \cup {("release.yml" :> CIFile(<<Lint, Job("build_y", "", Scalar("lint")), Job("build-y", "", Scalar("")) >>))},
   ruleset |-> {Broken, <<Review(2), [type |-> "pull_request", params |-> NoParams]>>},
   templates |-> {Broken, "templates"}, readme |-> {Missing, "link", "readme"}, written |-> {{}, {"Schema", "Testing"}},
   sidebar |-> {Missing}, home |-> {Missing}, telemetry |-> {Missing}, ci |-> {Missing}]

MCWorkflowNames == <<"_lint.yml", "ci.yml", "release.yml">>

MCRewrite == [r \in {"readme", "link"} |-> r]
=============================================================================
