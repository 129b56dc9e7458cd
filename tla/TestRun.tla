------------------------------- MODULE TestRun ------------------------------
(***************************************************************************)
(* A test binary of the repository: testtel.RunMain (internal/testtel)     *)
(* around covercheck.Report (internal/covercheck) around m.Run.            *)
(*                                                                         *)
(* RunMain sets up telemetry when a collector is configured, runs the      *)
(* tests and the coverage check, and shuts the providers down, meters      *)
(* first.  A test that calls Start has a span, ended by a cleanup; an      *)
(* ended span waits in the batch of the trace provider.  A coverage        *)
(* profile is a sequence of blocks; a block that does not parse is Junk.   *)
(***************************************************************************)
EXTENDS Integers, Sequences, FiniteSetsExt

CONSTANTS
  Tests,
  Profiles,     \* contents of -coverprofile: sequences of Block or Junk
  NoProfile,    \* no such flag, or the file cannot be read
  Junk,
  BlockRates,   \* testing.Coverage(), in percent
  Threshold     \* in percent

Block == [file : STRING, stmts : Nat, count : Nat]

ASSUME TestRunAssumption ==
  /\ Profiles \subseteq Seq(Block \cup {Junk}) /\ Junk \notin Block
  /\ NoProfile \notin Profiles
  /\ BlockRates \subseteq 0..100 /\ Threshold \in 0..100

VARIABLES
  endpoint,     \* a collector is configured
  cover,        \* the binary was built with -cover
  profile, rate,
  pc,
  traces, meters,   \* the providers of this process
  instruments,  \* the duration histogram exists
  shutdown,     \* providers the function returned by Init has yet to shut
  test,         \* test[t]: how far it has come
  span,         \* span[t]: where its span is
  durations,    \* tests whose duration was recorded
  rc, code      \* results of m.Run and of Report

inputVars == <<endpoint, cover, profile, rate>>
telVars == <<traces, meters, instruments, shutdown>>
testVars == <<test, span, durations>>
vars == <<inputVars, pc, telVars, testVars, rc, code>>

Running == \E t \in Tests : test[t] = "running"

Init ==
  /\ endpoint \in BOOLEAN /\ cover \in BOOLEAN
  /\ profile \in Profiles \cup {NoProfile} /\ rate \in BlockRates
  /\ pc = "init"
  /\ traces = "none" /\ meters = "none" /\ instruments = FALSE
  /\ shutdown = <<>>
  /\ test = [t \in Tests |-> "new"]
  /\ span = [t \in Tests |-> "none"]
  /\ durations = {}
  /\ rc = 0 /\ code = 0

-----------------------------------------------------------------------------
(* testtel.Init gets to one of its steps and fails there, or succeeds; a   *)
(* failure is a warning, and leaves the providers set so far for good.     *)
InitTelemetry ==
  /\ pc = "init"
  /\ pc' = "run"
  /\ IF ~endpoint THEN UNCHANGED telVars
     ELSE \E failed \in {"resource", "traces", "meters", "instruments", "nothing"} :
            /\ traces' = IF failed \in {"resource", "traces"} THEN "none" ELSE "open"
            /\ meters' = IF failed \in {"instruments", "nothing"} THEN "open" ELSE "none"
            /\ instruments' = (failed = "nothing")
            /\ shutdown' = IF failed = "nothing" THEN <<"traces", "meters">> ELSE <<>>
  /\ UNCHANGED <<inputVars, testVars, rc, code>>

(* A test begins with Start. *)
Start(t) ==
  /\ pc = "run"
  /\ test[t] = "new"
  /\ test' = [test EXCEPT ![t] = "running"]
  /\ span' = [span EXCEPT ![t] = IF traces = "open" THEN "open" ELSE "none"]
  /\ UNCHANGED <<inputVars, pc, telVars, durations, rc, code>>

(* Its cleanup ends the span and records the duration. *)
Cleanup(t, verdict) ==
  /\ test[t] = "running"
  /\ test' = [test EXCEPT ![t] = verdict]
  /\ span' = [span EXCEPT ![t] = IF @ = "open" THEN "batched" ELSE @]
  /\ durations' = IF instruments THEN durations \cup {t} ELSE durations
  /\ UNCHANGED <<inputVars, pc, telVars, rc, code>>

(* The batch leaves the process: it is sent, or given up. *)
Send ==
  \E fate \in {"exported", "lost"} :
    span' = [t \in Tests |-> IF span[t] = "batched" THEN fate ELSE span[t]]

Export ==
  /\ traces = "open"
  /\ \E t \in Tests : span[t] = "batched"
  /\ Send
  /\ UNCHANGED <<inputVars, pc, telVars, test, durations, rc, code>>

(* m.Run returns; which tests ran is up to its flags.  A test that panics, *)
(* or runs into the timeout, ends the process.                             *)
RunReturns ==
  /\ pc = "run" /\ ~Running
  /\ pc' = "report"
  /\ rc' = IF \E t \in Tests : test[t] = "failed" THEN 1 ELSE 0
  /\ UNCHANGED <<inputVars, telVars, testVars, code>>

Panic ==
  /\ pc = "run" /\ Running
  /\ pc' = "panicked"
  /\ UNCHANGED <<inputVars, telVars, testVars, rc, code>>

-----------------------------------------------------------------------------
(* covercheck: statements per file, and in all. *)
Lines(p) == {i \in DOMAIN p : p[i] # Junk}
LinesOf(p, f) == {i \in Lines(p) : p[i].file = f}
FilesOf(p) == {p[i].file : i \in Lines(p)}

SumOver(g, I) == MapThenSumSet(LAMBDA i : g[i], I)

StmtsOf(p) == [i \in Lines(p) |-> p[i].stmts]
CoveredOf(p) == [i \in Lines(p) |-> IF p[i].count > 0 THEN p[i].stmts ELSE 0]

Total(p, f) == SumOver(StmtsOf(p), LinesOf(p, f))
Covered(p, f) == SumOver(CoveredOf(p), LinesOf(p, f))

(* printPerFile: a file without statements has coverage 0. *)
FilePasses(p, f) ==
  IF Total(p, f) > 0 THEN 100 * Covered(p, f) >= Threshold * Total(p, f) ELSE Threshold = 0

AllStatements(p) == SumOver([f \in FilesOf(p) |-> Total(p, f)], FilesOf(p))
AllCovered(p) == SumOver([f \in FilesOf(p) |-> Covered(p, f)], FilesOf(p))

(* Mutant: a division of integers. *)
statementPassesTruncated(p) == 100 * (AllCovered(p) \div AllStatements(p)) >= Threshold

statementPasses(p) == 100 * AllCovered(p) >= Threshold * AllStatements(p)

Measured == profile # NoProfile /\ AllStatements(profile) > 0

Passes == IF Measured THEN statementPasses(profile) ELSE rate >= Threshold

(* Mutant: what counts is the coverage. *)
reportCoverage ==
  /\ pc = "report"
  /\ pc' = "shutdown"
  /\ code' = IF ~cover THEN rc ELSE IF Passes THEN 0 ELSE 1
  /\ UNCHANGED <<inputVars, telVars, testVars, rc>>

reportResult ==
  /\ pc = "report"
  /\ pc' = "shutdown"
  /\ code' = IF cover /\ rc = 0 /\ ~Passes THEN 1 ELSE rc
  /\ UNCHANGED <<inputVars, telVars, testVars, rc>>

-----------------------------------------------------------------------------
(* The shutdown function: the last provider first, each with what is left  *)
(* of five seconds, an error remembered and passed over.                   *)
Shut(provider) ==
  IF provider = "traces" THEN traces' = "shut" /\ Send /\ UNCHANGED meters
  ELSE meters' = "shut" /\ UNCHANGED <<traces, span>>

(* Mutant: the first error ends it. *)
ShutdownUntilError ==
  /\ pc = "shutdown" /\ shutdown # <<>>
  /\ Shut(shutdown[Len(shutdown)])
  /\ shutdown' \in {<<>>, SubSeq(shutdown, 1, Len(shutdown) - 1)}
  /\ UNCHANGED <<inputVars, pc, instruments, test, durations, rc, code>>

Shutdown ==
  /\ pc = "shutdown" /\ shutdown # <<>>
  /\ Shut(shutdown[Len(shutdown)])
  /\ shutdown' = SubSeq(shutdown, 1, Len(shutdown) - 1)
  /\ UNCHANGED <<inputVars, pc, instruments, test, durations, rc, code>>

Exit ==
  /\ pc = "shutdown" /\ shutdown = <<>>
  /\ pc' = "exited"
  /\ UNCHANGED <<inputVars, telVars, testVars, rc, code>>

RunMain == InitTelemetry \/ RunReturns \/ Panic \/ reportResult \/ Shutdown \/ Exit

Next ==
  \/ RunMain
  \/ \E t \in Tests : Start(t) \/ \E verdict \in {"passed", "failed"} : Cleanup(t, verdict)
  \/ Export

Spec == Init /\ [][Next]_vars

-----------------------------------------------------------------------------
(* What a profile says, counted over its blocks and not file by file. *)
Statements(p, I) == SumOver(StmtsOf(p), I)
Counted(p) == {i \in Lines(p) : p[i].count > 0}

EnoughCovered ==
  IF profile # NoProfile /\ \E i \in Lines(profile) : profile[i].stmts > 0
  THEN 100 * Statements(profile, Counted(profile))
         >= Threshold * Statements(profile, Lines(profile))
  ELSE rate >= Threshold

(* The exit status is the tests' and the coverage's: zero exactly when no  *)
(* test failed and, where coverage is measured, enough was covered,        *)
(* whatever became of the telemetry around them.                           *)
VerdictIsTests ==
  pc = "exited" =>
    (code = 0 <=> (\A t \in Tests : test[t] # "failed") /\ (cover => EnoughCovered))

(* A run that fails by its coverage alone names a file to blame, where the *)
(* coverage is that of a profile.                                          *)
BlamesAFile ==
  pc = "exited" /\ rc = 0 /\ code = 1 /\ Measured =>
    \E f \in FilesOf(profile) : ~FilePasses(profile, f)

(* After a complete set-up a binary that ends by itself leaves no provider *)
(* open, though the shutdown of the other one failed; every span of a test *)
(* that ran has left the process, and its duration was recorded.           *)
NothingUnflushed ==
  pc = "exited" /\ instruments =>
    /\ traces = "shut" /\ meters = "shut"
    /\ durations = {t \in Tests : test[t] # "new"}
    /\ \A t \in durations : span[t] \in {"exported", "lost"}
=============================================================================
