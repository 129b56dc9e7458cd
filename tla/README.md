# Verification of make-mcp

make-mcp serves the annotated targets of Makefiles as MCP tools. This directory
holds TLA+ models of its components, TLC runs over small instances, and theorems
checked by TLAPS. Everything is translated from the Go sources; the documents are
used only to state what the code is supposed to do.

## Inventory

| Component | Source | State it keeps | Operations | Module |
|---|---|---|---|---|
| File watcher | `pkg/watcher/watcher.go` | `pending` map, shared timer, `w.mu`, channels `events`, `errors`, `done` | `loop`, `enqueue`, timer expiry, `flush`, `Close` | `Watcher`, abstractly `ChangeFeed` |
| Reload loop, registry | `cmd/mcp-server/main.go` (`watchLoop`), `pkg/server/server.go`, `tools.go` | `*cfg`, the server's copy of it, `registry`, the library's tool table, the gauge of tools | take an event, load the configuration, parse each Makefile, `swap`, `SetTools`, notify, record | `Reload` |
| Tool call, runner | `server.go` (`handleToolCall`, `progressWriter`), `pkg/runner/runner.go` | one call: context, process, pipes, copiers, buffers, notification channel | look up, validate arguments, start make, capture and stream, wait, classify, record | `ToolCall` |
| Makefile parser | `pkg/parser/parser.go`, `schema.go` | the pending annotation block, recipes, errors | one per class of line, end of scan | `Parser` |
| Configuration | `pkg/config/config.go` | none | `Default`, `LoadFile`, `Merge` | `Config` |
| Start and shutdown | `main.go` (`run`), `pkg/telemetry/telemetry.go`, `transport/http.go` | the deferred calls, open resources, the transports' goroutines, `errCh`, the signal context | each step of start-up, signal, transport end, `Shutdown`, deferred calls, exit | `Lifecycle` |
| tools/list hooks | `server.go` (hooks of `New`), `pkg/telemetry/metrics.go` | `listStarts`, in-flight listings by request ID | before, after, count the listed tools | `ListHooks` |
| `validate` | `cmd/validate/main.go` | the merged result, the exit status | flags, parse each Makefile, report | `Validate`, around `Parser` |
| Coverage check, test telemetry | `internal/covercheck`, `internal/testtel` | providers, instruments, the shutdown list; the coverage profile | `Init`, `Start` and its cleanup, `reportResult`, the shutdown | `TestRun` |
| Documentation generators | `cmd/gen-metrics-doc`, `cmd/gen-ci-doc`, `scripts/gen-wiki-*.sh`, `makefile` | the generated pages in the working tree | generate, compare, replace and fail; the pre-commit hook that runs them | `MetricsDoc`, `CIDoc`, `PreCommit` |
| Metrics, logging | `pkg/telemetry/metrics.go`, `pkg/logging` | instruments | record | the gauge in `Reload`, the listings in `ListHooks`, one count per call in `ToolCall` |
| CI scripts, dashboards, k6 scripts | `.github/scripts`, `dev/` | none at run time | text processing, load tests | not modelled |

How they interact:

```
 editors ──> fsnotify ──> Watcher (loop, timer, flush) ──events(16)──> watchLoop
                                                                         │ parse, validate
   run: start-up, signals, transports, deferred calls                    v
     │ closes the watcher                                    registry.swap, SetTools
     v                                                                   │ list_changed
 mcp-go server <── sessions/clients <────────────────────────────────────┘
     │ tools/call
     v
 handleToolCall ──> RunStream ──> make ──> the recipe's own processes
        └── progressWriter ──> the session's notification channel
```

What is hard about it, and what must hold:

* **Watcher.** One mutex, one shared timer, three kinds of goroutine, channels
  outside the mutex. No send on a closed channel; no change is lost between
  enqueue, expiry and flush; every change is announced once; `Close` ends.
* **Reload.** Files are read one at a time while editors write; the registry,
  the library's table and the clients are updated one after the other; the
  configuration and the Makefiles change independently. Only validated recipes
  are served; the tools converge to the files; accepted calls keep their tool.
* **ToolCall.** Exit, deadline, cancellation and kill race; a pipe outlives
  make; a progress send may block. The report is what happened; nothing is left
  running; output is complete; every call is answered.
* **Parser.** Overlapping line classes and five pieces of pending state: no
  annotation leaks into another target and none is dropped silently.
* **ListHooks.** Two hooks meet in a map whose key only one session keeps unique,
  and one of them is not called for a failure. No span ends twice, nobody's entry
  is lost but a failed listing's, no latency covers an older request.
* **TestRun.** Two layers around `m.Run`, either of which may fail half way: the exit
  status stays that of the tests and the coverage, and all telemetry is flushed.
* **PreCommit.** Generators that read each other's output, and fail the hook when they
  have changed something: what passes is current, and committing again gets there.
* **Lifecycle.** Signals at any step, failures at any step, two transports and
  a graceful shutdown: everything opened is closed, the process ends when told.

## Modules

### ChangeFeed and Watcher

`ChangeFeed` is the promise of the watcher: paths become *owed* when a file
changes, each is announced into a bounded channel, and nothing is announced
after the channel is shut. The promise has a hole, which is in the code: what is
owed may be *stranded* (`Strand`), when a full channel has refused it and nothing
is armed, until the next change of any file. `Watcher` is the code. `LoopRecv`/`enqueue` are the
receive and the critical section that follows it; a `flush` is `FlushBegin`
(lock, check of `done`, clock), one step for each path of the map (`FlushSend`,
`FlushFull`, `FlushWait`), and `FlushEnd` (re-arm, unlock), because the owner
takes no lock and may drain the channel or close `done` between two sends. Time
is relative: `pending[p]` and `timer` count down with `Tick`. `slip` counts the
ticks inside one flush, which the code observes as the difference between its
two readings of the clock. Whether `range` produces an entry that is put back
during the iteration is left open, as Go leaves it.

The refinement maps `owed` to the domain of `pending`, `feed` to the buffered
channel, `open` to its not being closed, and `stranded` to a non-empty `pending`
with no timer, no flush waiting and none under way.

### Reload

The model begins with `run` before its first parse: the Makefiles are parsed
(`ParseMakefilePath`, one file per step), `New` fills the empty registry, and only
then `NewWatcher` watches the files, as the code does. From there on `watchLoop` is
a program counter: `TakeEvent`, `ParseMakefilePath`, `Reject` or `Swap`, `SetTools`,
`Notify`, `Record`. Parsing is the constant `parse`, from a text and the options to
recipes and validity; `Index` is the last-wins indexing by ID that the registry and
the library share. A text may be `Missing`, which stands for every error of opening
or scanning.

The watcher is composed as the `ChangeFeed` it is proved to implement, so an event
may be announced as late as the feed allows, over the table of watches that
fsnotify keeps. A watch is on an inode. An editor saves in place, by renaming a new
file over the path, which ends the watch with a Remove event that `shouldHandle`
discards, or by renaming the file away, which ends it with a Rename event at which
`LoopRename` adds the path again if it exists by then. `unseen` has the paths whose
last change fell in a gap of this (`Gap`) and was announced to nobody since;
`Missed` adds what the feed has stranded.

### ToolCall

One call with its process, the child make runs its recipe in, one pipe and one
copying goroutine per stream, and the session's channel. The behaviour of
`os/exec` (`Kill`, `Reap`, `Copy`, `EndOfFile`) is external and modelled from how
`RunStream` uses it: `Cmd.Wait` waits for the process, then for the copiers,
without a `WaitDelay`; `CommandContext` kills the process only. A kill that
finds make exited and not yet waited for succeeds, and `Cmd.Wait` then reports
the context's error although the exit status was zero. `Disconnect` stops the
session from draining its channel. The child inherits both pipes (`holds`), lets go
of one when its output is redirected (`Redirect`) and of all when it ends; a detached
child without a pipe may outlive the call, and nothing in the code waits for it.

`Arguments` has what `buildArgs` makes of a call: known names, the text of each value,
make's last-wins variables. A number is an integer count of units of `1/2^FracBits`.
It is rounded to the nearest float64 before anything else, as `encoding/json` does,
so a fraction too fine for its size is gone before `stringifyValue` sees it; then it is
cut to an int64 and compared with the float64. Both formats have their width as a
constant (`Precision`, `Tiny`, `IntBits`), and the conversion of a value out of range
may give what amd64 or what arm64 gives.

### Parser

A line is a record of what the two regular expressions, the `#` prefix and
`TrimSpace` make of it; the classes overlap (a target with a trailing annotation
is an annotation) and the guards follow the order of the switch. Values are
strings only as far as `parseParam`, `ParseBool`, `ParseMediaType`, the risk
levels and the empty string tell them apart. Errors are a set of recipe ID and
complaint. `Block` is the declarative reference: the contiguous run of
annotations and plain comments above a line.

`Validate` runs the scanner over one file after the other, as `ParseMakefiles` does,
between the flags and the exit status of `cmd/validate`.

### ListHooks

Every request passes its before hook, the library's listing and its after hook; a
listing that fails ends without the latter. The history variables `after` and `alone`
say who arrived during or after a request and who shared an ID with another in
flight. A reload replaces the registry, then the library's table, at any point.

### TestRun

`RunMain` around `Report` around `m.Run`. `InitTelemetry` fails at any of its steps and
keeps what it has set; tests start, end and panic; the batch of ended spans is sent
or lost. A coverage profile is a sequence of blocks, and all of `parseProfile`,
`statementCoverage` and `printPerFile` are operators on it. Rates are in percent.

### MetricsDoc, CIDoc and PreCommit

`MetricsDoc` and `CIDoc` are the two Go generators as operators, from a syntax tree and
from the YAML and JSON nodes to the data of the page; what a template makes of the
data is left out. `PreCommit` is the hook: a developer edits any file at any moment and
commits, the four generators run in the order of the makefile, each comparing and
replacing its page in the working tree and failing the hook when it had to, or when
it cannot read an input, then the tests; `fails` counts every hook since the last edit
that a generator failed. Below the line in `MetricsDoc` stands what the program records when it
runs, in `CIDoc` what the jobs of a workflow wait for: the references that the
properties compare the pages with. There a call is of one function, that of the
receiver's type; the generator knows functions by name, and of several with keys that
have one name it keeps the last (`buildHelperAttrKeys`).

### Config and Lifecycle

`Merge` is one uniform rule because each branch of the Go function tests for the
zero value. `Lifecycle` is `run`: a step per resource, a stack of deferred calls,
the goroutines, the select, `Shutdown` and the exit. `ServeStdio` returning
because it saw the signal itself is among the results of `StdioEnds`. `InitTelemetry`
opens traces, and metrics with or without the Prometheus server, and may fail after
any of them, `initMetrics` with all of them open; `Init` then returns no shutdown
function.

## Runs

| Run | Instance | What it shows |
|---|---|---|
| `Watcher_all` | three spellings of two files, settle 2, channel 1, two flushes waiting, one tick inside a flush | `Watcher` implements `ChangeFeed`; nothing is sent on a closed channel; wake-ups are lost only to a full channel or a clock that moves in a flush; what quiet files changed is announced unless a flush meets one of the two; `Close` completes, with nobody reading |
| `Watcher_full` | two files, no tick inside a flush | expected violation, see below |
| `Reload_all` | two Makefiles, three texts, a strict configuration of both and a lenient one of the first, saves of every kind, feed 1, two edits, start-up included | registry and library agree but inside a swap; the tools served are all of Makefiles that were all valid; the gauge covers them; refusals only of removed tools; the tools and the clients' lists converge |
| `Reload_config` | one Makefile, three edits | expected violation, see below |
| `Reload_replaced` | one Makefile, one edit | expected violation, see below |
| `ToolCall_all` | two streams, two chunks each, pipe and channel of one, thirteen argument maps, numbers in quarters, floats of 2 bits and integers of 4, known and unknown tool | reports match what happened, make got what the client sent, nothing that could write to the call is left behind, output is complete, every call is answered |
| `ToolCall_child` | one stream, one chunk | expected violation, see below |
| `Parser_blocks` | every file made from two complete recipes (18 lines) by inserting any of twelve lines anywhere and losing any line, strict and not; then no file, an empty one or a faulty one | recipes have the annotations of their own block; a result without errors dropped none; `validate` accepts exactly what the server starts with |
| `Lifecycle_run` | seven command lines, five files, none and a bad one, two requests | resources released unless `telemetry.Init` fails, requests drained on a signal, status of the exit, the end |
| `ListHooks_all` | three requests under two IDs, two tools, any number of reloads | spans end once, only failures leak, lone requests are accounted for, latencies are not inflated, only removed tools go uncounted |
| `TestRun_all` | two tests, every profile of two blocks of two files with junk, rates around the threshold, a set-up failing anywhere | the exit status is that of tests and coverage, a coverage failure names a file, a complete set-up is flushed |
| `PreCommit_all` | five instruments and functions of every pattern, sixteen sets of jobs, two edits of anything | pages current, labels as recorded, no two sets of jobs with one graph, at most six attempts while inputs can be read |

**Bounds.** `MaxFlushers = 2` lets one flush hold the lock while another waits;
`TimerFire` waits beyond that, and a third would find what the second finds. The
settle window of two ticks separates "just enqueued", "half way" and "ready";
`MaxSlip = 1` is enough for a deadline to fall inside a flush. A channel of one
is full and not full in every combination with three paths. Two edits give an edit
before, during and after a parse, a save between parse and watch, and a file moved
away and put back; the third in `Reload_config` gives break, reconfigure, repair.
Two chunks with a pipe and a channel of one make every queue block. Integers of
four bits under a mantissa of two have values that are exact, rounded, just in
range and beyond it on either side; in quarters there is a fraction that stays and
two that the rounding takes, above one and next to zero. `MaxFails = 7` is one hook
more than `SixAttempts` allows, and `Commit` stops there, since a generator with a
broken input would fail for ever. `PreCommit_all` has a method with
the name of a helper and other keys, which breaks the patterns, and one with a name of
its own, which does not. Two requests arrive before and during a
shutdown. Three listings share one ID, or two of them do. Two edits in
`PreCommit_all` undo each other, or break a file and repair it, in the middle of a
hook or between two. Only the deadlock check is off: each system may legally come
to rest.

**Fairness.** Weak fairness on goroutines that can run (the Go scheduler), on the
clock while something waits for it, and on a `Close` once begun. Not assumed:
that files change or stop changing, that the watcher is closed, that make ends.
`Watcher_all` assumes no consumer: `watchLoop` stops reading before `Close`, and a
flush never blocks on the channel. Only `Watcher_full`, which expects a violation,
assumes one that reads, and finds it in spite of that. `Reload_all` assumes that the
feed announces what is not stranded (`ChangesAnnounced`) and that clients list when
notified; `ToolCall_all` that the deadline passes, a connected session drains its
channel and the recipe's own processes let go of the pipes, by ending or by redirecting
(`LetsGo`), with strong fairness for a send because two
copiers compete for the channel; `Lifecycle_run` that clients finish the requests
they have, since the HTTP server waits for them without limit. The others check
safety only and assume nothing.

## Where the code differs from what is said of it

The runs that expect a violation:

* `Watcher_full`: a path refused by the full channel is put back
  (`watcher.go:162`) but the timer is not re-armed for it. It stays until another
  event arrives. The comment says it is kept "to try again".
* `Reload_config`: a configuration whose reload fails because a Makefile does not
  parse is forgotten; repairing the Makefile reloads under the old one.
* `Reload_replaced`: the watch of a file that an editor replaces by renaming another
  over it ends with a Remove event, which is discarded, so it is never added again;
  the comment at `watcher.go:113` is about exactly this save.
* `ToolCall_child`: a process of the recipe that outlives make holds the pipe, and
  a call whose deadline has passed is answered only when that process ends.

Also seen while modelling, without a run of their own:

* `flush` decides with `now` and computes the wait with `time.Until`; a deadline in
  between gives a wait of zero or less, and nothing is armed (`watcher.go:168`).
  `NoLostWakeup` and `ChangesAnnounced` except a clock that moves inside a flush.
* A Makefile saved after `ParseAll` has read it and before `watcher.New` watches it
  (`main.go:149`) is served as it was until it is saved again, and so is one saved
  by replacement; `Converges` excepts both, and the files of the next-but-one item
  (`unseen`, `Gap`). It also excepts a change that the watcher has stranded
  (`Watcher_full`), which may be a plain save of a file watched from the start; any
  other plain save of such a file is never excepted.
* The event's path is cleaned, `--config` is compared as given (`main.go:221`):
  with `./make-mcp.yml` the configuration is never reloaded.
* A Makefile that a new configuration adds is never watched (`main.go:251`),
  although `wiki/Architecture.md:186` says so.
* A boolean flag cannot override `true` in the file (`config.go:101`), although
  `wiki/Configuration.md:4` says that flags always take precedence.
* `rootDir` and the timeouts use the configuration at start (`server.go:50`).
* A label set that no recipe has any more keeps its gauge value
  (`metrics.go:181`), and duplicate IDs are counted twice; hence `GaugeCovers`
  states a lower bound.
* A progress send to a client that has gone blocks the call beyond its deadline
  (`server.go:297`); hence `EveryCallAnswered` excludes clients that leave.
* A make that failed by itself is a timeout when the deadline passes before its
  output is drained (`runner.go:129`), and a cancelled call is a non-zero exit
  of -1 (`runner.go:140`).
* Two parameters that differ only in case or in dash and underscore are one
  variable of make, and the last one counts (`runner.go:248`).
* With both transports a signal ends `ServeStdio` too, and the select may take
  that result: then HTTP requests in hand are not drained (`main.go:184`).
  `DrainedOnSignal` is about a run that saw the signal.
* A second signal during `Shutdown` is swallowed: `stop` is deferred.
* A `tools/list` that fails is never counted, although `StatusFailure` is foreseen
  (`metrics.go:136`); its span is never ended and its entry stays until a request
  with its ID takes its place. Two sessions in flight with one ID: one of them takes
  the other's entry and the other is not counted.
* A `telemetry.Init` that fails half way, or in `initMetrics` with everything open,
  returns no shutdown function (`telemetry.go:47`): the trace provider, the metric
  provider and the Prometheus server stay as they are until the process ends.
  `ReleasedAtExit` excepts them.
* A fraction of a number that float64 rounds to an integer is cut
  (`runner.go:215`): `9007199254740992.5` reaches make as `9007199254740992`.
* Without an edit every hook fails while a generator cannot read its input, so
  `SixAttempts` is about inputs that can be read.
* A test telemetry set-up that fails half way leaves its trace provider open, and
  the spans of its last batch are lost, although the comment on `RunMain`
  (`testtel.go:148`) says that all are flushed.
* The generators compare and replace the working tree, while git commits the
  index; `generate.mk:33` speaks of the committed file. It also names the wrong
  output and template of `gen-metrics-doc` (`generate.mk:47`).
* A label reaches the page only by the patterns of `KeepsToPatterns`: a helper
  called inside `Record`, or a variable assigned twice, is documented wrongly, and so
  is one defined, in the order of the text, after the statement that records it, or
  one from a helper that has the name of another function or method with keys.
  Job IDs that differ in dash and underscore only are one node of the graph.

## Proofs

Eight modules of proofs, each over the component of its name, for every value of
the constants that satisfies its named `ASSUME`. Every safety property that a
passing run checks is a theorem. The assumptions are what the code guarantees of its
constants: capacities and windows are positive, there is at least one output stream,
the path cleaner maps paths to paths, the configuration
file is none of its Makefiles, the flags that are not given are zero values,
sentinels differ from values; and of what comes from outside, only what decoding it
makes of it: the values of an argument map are JSON values, `parse` and `parseParam`
give recipes and parameters, a profile is blocks and junk, a source that is not
`Broken` is a sequence of functions, or jobs whose needs are YAML nodes.

* **WatcherProofs.** `Inv` is the types, the closing protocol (`CloseInv`: `loop`
  leaves its select only after `done` and closes the outputs last) and the flush
  (`FlushInv`: it holds `w.mu` only while the outputs are open and visits only
  paths of the map). The mutex is what makes it inductive: `CloseOutputs` excludes
  a flush, so the check of `done` at its beginning protects all its sends. From
  it: types, `ClosedOnlyAfterDone`, `NoSendOnClosed`, and the refinement of
  `ChangeFeed`, step by step. `WakeInv` says that a flush in which the clock stands
  still leaves a wait behind for every path it visits and does not refuse, which
  gives `NoLostWakeup` for any bound on that clock.
* **ToolCallProofs.** `ProcessInv` ties the exit status to make being gone and the
  watching goroutine to `Wait`; `CopyInv` says that a copier ends only when
  nobody can write any more, and is one chunk ahead of the session exactly while
  it sends; `ResultInv` that a result is final. All safety properties, and
  `NoLateProgress` besides, follow. `NothingLeftBehind` is about the pipes: the copiers
  wait for whoever holds one, so nobody does when they have ended; a child that has
  redirected its output is not waited for and may live on. `ArgumentsArrive` rests on arithmetic, for every width of the two
  formats: rounding moves by half a spacing at most (`Rounds`); the smallest int64
  is a float64 value (`MinIsFloat`), so nothing out of range compares equal to it;
  the largest either is one or rounds up to the next power of two (`MaxRoundsUp`),
  and what is taken for it then is less than a spacing away (`AcceptedIsNear`). In
  range, the integer part of a float64 is a float64 value too (`TruncFacts`,
  `TruncIsFloat`), so it compares equal only when there was no fraction to cut.
* **ReloadProofs.** `Types` has what `TypeOK` leaves out: a job's configuration, and
  the recipes merged so far with the files they came from. The registry equals the
  library's table except at `setTools`, where it is the index of the job:
  `RegistryAhead` and `RefusedOnlyIfRemoved`. What a job has merged comes from
  texts, one for each file read so far, that were all valid if the job still is, which
  the swap turns into what is served: `OnlyValidated`, for every list of Makefiles and any edits in between. `Index`
  keeps one recipe of an ID and the gauge counts all of them: `GaugeCovers`.
  `QuietIsCurrent` is what `Converges` promises without the waiting: whenever
  `watchLoop` rests and no listed Makefile has a change announced, owed, in an
  unread Rename event or missed in a gap, the tools are those the files describe.
  Its invariant `Quiet` says that what a job has read is what the files hold, but for
  files that will be read again (`JobRead`), and that a file of the first list whose
  watch is gone is missing or marked (`NoneMissed`), so an edit in the middle of a parse
  either comes back through the feed or is one of the gaps the model names.
* **ParserProofs.** `Pending` says that the pending state is the block above the
  next line: the keys of `pendingMeta` are those with a line in the block, its
  values the last ones, the flags say which parts are empty. `BlockGrows` gives
  the block of a line from that of the line before, `OneRecipeLine` the ranks of
  the recipe lines. `OwnBlock` for every file, where the run checks those within
  an insertion and a deletion of two recipes. `PendingParams` numbers the parameter
  lines of the block, and `RecipeComplete` follows one recipe through `buildParams`,
  the hints, the strict mode and `Validate`: no error means that none was left out
  (`NothingDropped`). Around it `ValidateInv` sums the Makefiles read so far, which
  gives `VerdictIsServers` for a list of any length.
* **LifecycleProofs.** `OpenInv`: what is open is closed by a call on the stack, but
  for what a failed `telemetry.Init` has opened; `OnceInv`: start-up has yet to defer
  what is not there; `ResultsInv`: results in and to come fit in `errCh`;
  `ShutdownInv`: only a signal closes the listener and nothing comes in after it;
  `ConfigInv` with `MergeFacts`: the layers. All its safety properties follow.
* **ListHooksProofs.** `MapInv`: the map holds, under its own ID, the entry of a request
  that has not succeeded and whose span is open, which makes `EndedOnce` inductive
  with any number of sessions. `OrderInv`: what is under the ID of a request in
  flight is not an earlier one's. `AloneInv`: a request that shares its ID with
  nobody finds its entry. All the properties are proved.
* **TestRunProofs.** `Providers`: the shutdown list is a prefix of the providers and
  what it has lost is shut; `Whereabouts`: the span of a test that runs is open, of
  one that has ended batched or gone, and nothing is batched once the traces are
  shut. `NothingUnflushed` follows for any number of tests. `Results` ties the code of
  the exit to the tests. What a profile sums to needs laws of sums over finite sets
  (`SumUnion`, `SumScaled`, `SumGroups`): the totals of the files make up the total of
  the profile, so files that all pass make a profile that passes, which is
  `BlamesAFile` read backwards.
* **PreCommitProofs.** `Found`: what a hook has found current stays so until the next
  edit, because a generator that changes the tree ends the hook; hence
  `PassMeansCurrent`, although the sidebar is looked at before the pages it lists.
  `SixAttempts` needs a measure: `Left` counts the stale pages, twice where one would
  appear or vanish, and `fails + Left(tree) <= 6` is inductive while the inputs can be
  read (`InputsRead`), a replaced page lowering `Left` by one at least. Both hold whatever the generators compute. `Readable`
  and `Sources` say that what passed could be read and that no generator touches a
  source; with them the pages are the operators' values, and two theorems are about
  those: a program that keeps to the patterns records what the two passes of
  `extractLabelsFromFunc` find (`LabelsAreRecorded`, with `HelperKeys` for what the
  name of a helper stands for), and the edges drawn for a job
  are its needs (`EdgesOfJob`), so that equal graphs have equal jobs (`GraphTells`).

The recursive functions these rest on (sums, `FlattenSeq`, powers of two) are shown to
exist and to be unique by the least number, or the smallest set, at which they would
not be: the library's principle of induction takes an operator and cannot be cited.

Only model-checked: everything under fairness (`ChangesAnnounced`, `CloseCompletes`,
`Converges`, `ClientsConverge`, `EveryCallAnswered`, `EndsWhenTold`), since the
prover has neither fairness nor `ENABLED`. `SelectSeq` is opaque to the prover: where a
theorem depends on it, the model selects by `FlattenSeq` or by the rank of a position
instead. `QuietIsCurrent`, `ClosedOnlyAfterDone`, `NoLateProgress` and the types of `Lifecycle` and `ListHooks` are
proved and not run. The expected violations are counterexamples and need no proof.

## Not modelled

* The values of the byte histograms and the reload counter; log output and the trace
  IDs that the log handler adds.
* YAML, regular expressions, JSON schemas, HTTP routing and CORS, the text of
  templates: formats.
* Signals that end a test binary or a hook, and git's index.
* CI scripts, makefiles other than the hook, dashboards and load tests.

## Plan

1. *Done.* `Watcher` and its refinement, `Reload`, `ToolCall`, `Parser`, `Config`, `Lifecycle`.
2. *Done.* The table of watches and start-up in `Reload`, `Arguments`, `ListHooks`,
   `Validate`, `TestRun`, the documentation generators and the hook.
3. *Done.* Every safety property of the runs as a theorem, with the laws of sums,
   concatenations and powers of two they need.
4. That `Reload` keeps the promise of the feed it is composed with; laws of `Merge`
   as theorems of their own; fewer and smaller lemmas where a proof is long.
