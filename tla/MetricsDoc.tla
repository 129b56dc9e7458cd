------------------------------ MODULE MetricsDoc ----------------------------
(***************************************************************************)
(* cmd/gen-metrics-doc: the labels of every instrument, read off the       *)
(* syntax tree of pkg/telemetry/metrics.go and of one more file.           *)
(*                                                                         *)
(* A file is a sequence of functions [of, name, body], of being the type a *)
(* method belongs to, or ""; a body is a sequence of statements            *)
(* [op, var, args]: "define" (:=) or "assign" (=) a variable, "record"     *)
(* (Add or Record an instrument), "return".  An argument has the keys of   *)
(* the attribute calls in it, the functions <<of, name>> it calls, and     *)
(* ident, the variable it is, or "".  Keys are sorted in the end: sets     *)
(* will do.                                                                *)
(***************************************************************************)
EXTENDS Integers, Sequences, SequencesExt

Argument == [keys : SUBSET STRING, calls : SUBSET (STRING \X STRING), ident : STRING]
Statement == [op : {"define", "assign", "record", "return"}, var : STRING, args : Seq(Argument)]
Function == [of : STRING, name : STRING, body : Seq(Statement)]

FuncsOf(f) == {f[i] : i \in DOMAIN f}
StmtsOf(fn) == {fn.body[i] : i \in DOMAIN fn.body}
ArgsOf(s) == {s.args[i] : i \in DOMAIN s.args}
At(fn, op, v) == {i \in DOMAIN fn.body : fn.body[i].op = op /\ fn.body[i].var = v}

collectAttrKeys(s) == UNION {e.keys : e \in ArgsOf(s)}
CallsIn(s) == UNION {e.calls : e \in ArgsOf(s)}

(* Every key in the body of a function, whatever becomes of it there. *)
KeysIn(fn) == UNION {collectAttrKeys(s) : s \in StmtsOf(fn)}

(* The generator knows a function by its name alone; of those with keys    *)
(* that have one name, the last in the file has it.                        *)
buildHelperAttrKeys(f) ==
  LET helpers == {i \in DOMAIN f : KeysIn(f[i]) # {}}
  IN  [n \in {f[i].name : i \in helpers} |-> KeysIn(f[Max({i \in helpers : f[i].name = n})])]

collectHelperCallKeys(s, helpers) ==
  UNION {helpers[n] : n \in {c[2] : c \in CallsIn(s)} \cap DOMAIN helpers}

(* The first pass: what a variable holds, by its last := with any key. *)
varAttrs(fn, helpers, v) ==
  LET keys(i) == collectAttrKeys(fn.body[i]) \cup collectHelperCallKeys(fn.body[i], helpers)
      defines == {i \in At(fn, "define", v) : keys(i) # {}}
  IN  IF defines = {} THEN {} ELSE keys(Max(defines))

(* Mutant: variables are not followed. *)
extractInlineLabels(fn, helpers, field) ==
  UNION {collectAttrKeys(fn.body[i]) : i \in At(fn, "record", field)}

(* The second pass: the arguments of an Add or Record of the field; a call *)
(* of a helper counts through a variable and not where it is an argument.  *)
extractLabelsFromFunc(fn, helpers, field) ==
  UNION {collectAttrKeys(fn.body[i])
           \cup UNION {varAttrs(fn, helpers, e.ident) : e \in ArgsOf(fn.body[i])} :
             i \in At(fn, "record", field)}

Labels(f, extra, field) ==
  UNION {extractLabelsFromFunc(fn, buildHelperAttrKeys(f), field) : fn \in FuncsOf(f) \cup FuncsOf(extra)}

methodToType(m) ==
  CASE m \in {"Int64Counter", "Float64Counter"} -> "Counter"
    [] m \in {"Int64UpDownCounter", "Float64UpDownCounter", "Int64Gauge", "Float64Gauge"} -> "Gauge"
    [] OTHER -> "Histogram"

(* initMetrics declares the instruments: [field, method]. *)
extractMetricDefs(instruments, type) ==
  FlattenSeq([i \in DOMAIN instruments |->
                IF methodToType(instruments[i].method) = type THEN <<instruments[i]>> ELSE <<>>])

TelemetryPage(instruments, f, extra) ==
  [type \in {"Counter", "Histogram", "Gauge"} |->
     LET defs == extractMetricDefs(instruments, type)
     IN  [i \in DOMAIN defs |-> [field |-> defs[i].field, labels |-> Labels(f, extra, defs[i].field)]]]

-----------------------------------------------------------------------------
(* What the program of the functions fns records when it runs: a variable  *)
(* has its latest value, a call the keys its callee returns.               *)
Called(fns, c) == {fn \in fns : fn.of = c[1] /\ fn.name = c[2]}

Returned(fns, c) ==
  UNION {UNION {collectAttrKeys(fn.body[i]) : i \in At(fn, "return", "")} : fn \in Called(fns, c)}

ValueOf(fns, s) == collectAttrKeys(s) \cup UNION {Returned(fns, c) : c \in CallsIn(s)}

Held(fns, fn, i, v) ==
  LET sets == {j \in At(fn, "define", v) \cup At(fn, "assign", v) : j < i}
  IN  IF sets = {} THEN {} ELSE ValueOf(fns, fn.body[Max(sets)])

RecordedBy(fns, fn, field) ==
  UNION {ValueOf(fns, fn.body[i]) \cup UNION {Held(fns, fn, i, e.ident) : e \in ArgsOf(fn.body[i])} :
           i \in At(fn, "record", field)}

Recorded(f, extra, field) ==
  LET fns == FuncsOf(f) \cup FuncsOf(extra) IN UNION {RecordedBy(fns, fn, field) : fn \in fns}

(* The functions that the generator may take a call for. *)
Helpers(f, c) == {g \in FuncsOf(f) : g.name = c[2] /\ KeysIn(g) # {}}

CallIsFollowed(f, extra, s, c) ==
  /\ {g \in Called(FuncsOf(f) \cup FuncsOf(extra), c) : KeysIn(g) # {}} = Helpers(f, c)
  /\ \A g \in Helpers(f, c) : /\ s.op = "define"
                              /\ Helpers(f, c) = {g}
                              /\ DOMAIN g.body = At(g, "return", "")

(* The patterns the generator was written for, and metrics.go keeps to: a  *)
(* variable has one value, with its :=, before it is recorded; a helper,   *)
(* which is a function with keys, returns them all, is called to define a  *)
(* variable, stands in the first file, and its name is no other's there.   *)
KeepsToPatterns(f, extra) ==
  \A fn \in FuncsOf(f) \cup FuncsOf(extra) : \A i \in DOMAIN fn.body :
    LET s == fn.body[i] IN
      /\ s.op # "assign"
      /\ s.op = "define" => At(fn, "define", s.var) = {i}
      /\ s.op = "record" => \A e \in ArgsOf(s) : \A j \in At(fn, "define", e.ident) : j < i
      /\ \A c \in CallsIn(s) : CallIsFollowed(f, extra, s, c)
=============================================================================
