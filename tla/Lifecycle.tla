------------------------------ MODULE Lifecycle -----------------------------
(***************************************************************************)
(* cmd/mcp-server/main.go: run, from the command line to the exit of the   *)
(* process, with the goroutines it starts (watchLoop and a transport or    *)
(* two), the signals it catches, the telemetry of pkg/telemetry and the    *)
(* HTTP server of pkg/server/transport.                                    *)
(*                                                                         *)
(* Each step of start-up may fail; the deferred calls made so far then run *)
(* in reverse.  Once it serves, run waits for the signal context or for a  *)
(* transport to end.  Requests are those the HTTP server has in hand: tool *)
(* calls and event streams alike.                                          *)
(***************************************************************************)
EXTENDS Config, Integers, Sequences, FiniteSets

CONSTANTS
  CommandLines,   \* what the flags set; a flag that is not given is Zero
  ConfigFiles,    \* contents of the configuration file
  BadConfig,      \* a file that does not load
  NoFile,         \* no --config argument
  Default,        \* config.Default()
  NoConfig,       \* before loadConfig
  MaxRequests     \* bound: requests in hand at once

ASSUME LifecycleAssumption ==
  /\ Default \in Settings
  /\ ConfigFiles \subseteq Settings
  /\ CommandLines \subseteq Settings
  /\ BadConfig \notin Settings /\ NoFile \notin Settings /\ NoConfig \notin Settings
  /\ MaxRequests \in Nat

VARIABLES
  flags,      \* the command line
  file,       \* the configuration file
  pc,         \* where run stands
  cfg,        \* the configuration it loaded
  ctxDone,    \* a signal has cancelled its context
  deferred,   \* the deferred calls, last one first
  live,       \* what is open and has to be closed
  stdio,      \* the goroutine serving stdio
  http,       \* the goroutine serving HTTP
  requests,   \* requests the HTTP server has in hand
  errCh,      \* results of the transports, capacity 2
  loop,       \* watchLoop: off, running or returned
  cause,      \* why run returns
  exit        \* how the process ended

configVars == <<flags, file, cfg>>
serveVars == <<stdio, http, requests, errCh>>
vars == <<configVars, pc, ctxDone, deferred, live, serveVars, loop, cause, exit>>

(* What telemetry.Init opens: the provider of the traces, that of the      *)
(* metrics, and the server Prometheus reads them from.                     *)
TelemetryResources == {"traces", "metrics", "prometheus"}

Resources == {"log", "signals", "watcher"} \cup TelemetryResources

TypeOK ==
  /\ cfg \in Settings \cup {NoConfig}
  /\ pc \in {"config", "log", "signals", "telemetry", "parse", "watch", "start", "serve",
             "shutdown", "return", "exited"}
  /\ ctxDone \in BOOLEAN
  /\ deferred \in Seq({"log", "signals", "telemetry", "watcher"})
  /\ \A i, j \in DOMAIN deferred : deferred[i] = deferred[j] => i = j
  /\ live \subseteq Resources
  /\ stdio \in {"off", "serving", "ended"}
  /\ http \in {"off", "starting", "serving", "closed", "ended"}
  /\ requests \in 0..MaxRequests
  /\ errCh \in Seq({"ok", "failed", "closed"}) /\ Len(errCh) <= 2
  /\ loop \in {"off", "running", "returned"}
  /\ cause \in {"none", "refused", "telemetry", "signal", "ended", "failed"}
  /\ exit \in {"running", "zero", "one", "killed"}

Init ==
  /\ flags \in CommandLines
  /\ file \in ConfigFiles \cup {BadConfig, NoFile}
  /\ pc = "config"
  /\ cfg = NoConfig
  /\ ctxDone = FALSE
  /\ deferred = <<>>
  /\ live = {}
  /\ stdio = "off" /\ http = "off" /\ requests = 0 /\ errCh = <<>>
  /\ loop = "off"
  /\ cause = "none"
  /\ exit = "running"

-----------------------------------------------------------------------------
(* Start-up.  Nothing is served and no goroutine runs yet. *)

loadConfig(override) ==
  Merge(IF file = NoFile THEN Default ELSE Merge(Default, file), override)

Startable(c) ==
  /\ c["makefiles"] # Zero["makefiles"]
  /\ c["transport"] \in {"stdio", "http", "both"}
  /\ c["log_path"] \notin {"stdin", "stdout"}

Return(why) == pc' = "return" /\ cause' = why

Refuse == Return("refused") /\ UNCHANGED <<flags, file, ctxDone, deferred, serveVars, loop, exit>>

Proceed(next, resources, call) ==
  /\ pc' = next
  /\ live' = live \cup resources
  /\ deferred' = call \o deferred
  /\ UNCHANGED <<configVars, ctxDone, serveVars, loop, cause, exit>>

Configure ==
  /\ pc = "config"
  /\ IF file # BadConfig /\ Startable(loadConfig(flags))
     THEN /\ pc' = "log"
          /\ cfg' = loadConfig(flags)
          /\ UNCHANGED <<flags, file, ctxDone, deferred, live, serveVars, loop, cause, exit>>
     ELSE Refuse /\ UNCHANGED <<cfg, live>>

OpenLog ==
  /\ pc = "log"
  /\ IF cfg["log_path"] \in {"stderr", ""}
     THEN Proceed("signals", {}, <<>>)
     ELSE \/ Proceed("signals", {"log"}, <<"log">>)
          \/ Refuse /\ UNCHANGED <<cfg, live>>

NotifyContext == pc = "signals" /\ Proceed("telemetry", {"signals"}, <<"signals">>)

(* Traces and metrics are optional.  When one of its steps fails, also the *)
(* last, which makes the instruments with everything open, Init returns no *)
(* shutdown function, and what was opened stays open.                      *)
InitTelemetry ==
  /\ pc = "telemetry"
  /\ \E traces \in {{}, {"traces"}}, metrics \in {{}, {"metrics"}, {"metrics", "prometheus"}} :
       \/ Proceed("parse", traces \cup metrics, <<"telemetry">>)
       \/ /\ Return("telemetry")
          /\ live' = live \cup traces \cup metrics
          /\ UNCHANGED <<configVars, ctxDone, deferred, serveVars, loop, exit>>

ParseAll ==
  /\ pc = "parse"
  /\ \/ Proceed("watch", {}, <<>>)
     \/ Refuse /\ UNCHANGED <<cfg, live>>

NewWatcher ==
  /\ pc = "watch"
  /\ \/ Proceed("start", {"watcher"}, <<"watcher">>)
     \/ Refuse /\ UNCHANGED <<cfg, live>>

(* go watchLoop, and a goroutine for each transport. *)
StartServing ==
  /\ pc = "start"
  /\ pc' = "serve"
  /\ loop' = "running"
  /\ stdio' = IF cfg["transport"] \in {"stdio", "both"} THEN "serving" ELSE "off"
  /\ http' = IF cfg["transport"] \in {"http", "both"} THEN "starting" ELSE "off"
  /\ UNCHANGED <<configVars, ctxDone, deferred, live, requests, errCh, cause, exit>>

-----------------------------------------------------------------------------
(* The goroutines and the outside. *)

Running == exit = "running"

(* Before NotifyContext and after stop a signal kills the process; between *)
(* them every signal after the first is swallowed.                         *)
Signal ==
  /\ Running
  /\ IF "signals" \in live
     THEN ctxDone' = TRUE /\ UNCHANGED <<pc, exit>>
     ELSE exit' = "killed" /\ pc' = "exited" /\ UNCHANGED ctxDone
  /\ UNCHANGED <<configVars, deferred, live, serveVars, loop, cause>>

(* ServeStdio ends at the end of the input, at a signal, or on an error. *)
StdioEnds(result) ==
  /\ Running
  /\ stdio = "serving"
  /\ stdio' = "ended"
  /\ errCh' = Append(errCh, result)
  /\ UNCHANGED <<configVars, pc, ctxDone, deferred, live, http, requests, loop, cause, exit>>

Listen ==
  /\ Running
  /\ http = "starting"
  /\ http' = "serving"
  /\ UNCHANGED <<configVars, pc, ctxDone, deferred, live, stdio, requests, errCh, loop, cause, exit>>

(* ListenAndServe returns: the address is taken or accepting failed, or    *)
(* Shutdown has been called.                                               *)
HttpEnds(result) ==
  /\ Running
  /\ \/ http \in {"starting", "serving"} /\ result = "failed"
     \/ http = "closed" /\ result = "closed"
  /\ http' = "ended"
  /\ errCh' = Append(errCh, result)
  /\ UNCHANGED <<configVars, pc, ctxDone, deferred, live, stdio, requests, loop, cause, exit>>

RequestArrives ==
  /\ Running
  /\ http = "serving"
  /\ requests < MaxRequests
  /\ requests' = requests + 1
  /\ UNCHANGED <<configVars, pc, ctxDone, deferred, live, stdio, http, errCh, loop, cause, exit>>

RequestEnds ==
  /\ Running
  /\ requests > 0
  /\ requests' = requests - 1
  /\ UNCHANGED <<configVars, pc, ctxDone, deferred, live, stdio, http, errCh, loop, cause, exit>>

(* watchLoop sees the context, or the closed channels of the watcher. *)
LoopReturns ==
  /\ Running
  /\ loop = "running"
  /\ ctxDone \/ "watcher" \notin live
  /\ loop' = "returned"
  /\ UNCHANGED <<configVars, pc, ctxDone, deferred, live, serveVars, cause, exit>>

-----------------------------------------------------------------------------
(* The end of run. *)

(* Mutants: run goes on selecting after Shutdown; the listener stays open  *)
(* while requests are waited for.                                          *)
SignalledSelecting ==
  /\ pc = "serve"
  /\ ctxDone
  /\ http' = IF http \in {"starting", "serving"} THEN "closed" ELSE http
  /\ UNCHANGED <<configVars, pc, ctxDone, deferred, live, stdio, requests, errCh, loop, cause, exit>>

SignalledListening ==
  /\ pc = "serve"
  /\ ctxDone
  /\ cause' = "signal"
  /\ pc' = IF http = "off" THEN "return" ELSE "shutdown"
  /\ UNCHANGED <<configVars, ctxDone, deferred, live, stdio, http, requests, errCh, loop, exit>>

(* The context is done: Shutdown closes the listener, even one that was    *)
(* not open yet.                                                           *)
Signalled ==
  /\ pc = "serve"
  /\ ctxDone
  /\ cause' = "signal"
  /\ pc' = IF http = "off" THEN "return" ELSE "shutdown"
  /\ http' = IF http \in {"starting", "serving"} THEN "closed" ELSE http
  /\ UNCHANGED <<configVars, ctxDone, deferred, live, stdio, requests, errCh, loop, exit>>

(* Mutant: requests in hand are not waited for. *)
DrainHttpNot ==
  /\ pc = "shutdown"
  /\ pc' = "return"
  /\ UNCHANGED <<configVars, ctxDone, deferred, live, serveVars, loop, cause, exit>>

(* Shutdown's context never ends: it waits for every request. *)
DrainHttp ==
  /\ pc = "shutdown"
  /\ requests = 0
  /\ pc' = "return"
  /\ UNCHANGED <<configVars, ctxDone, deferred, live, serveVars, loop, cause, exit>>

(* A transport has ended: run returns at once, whatever the other does. *)
TransportEnded ==
  /\ pc = "serve"
  /\ errCh # <<>>
  /\ Return(IF Head(errCh) = "ok" THEN "ended" ELSE "failed")
  /\ errCh' = Tail(errCh)
  /\ UNCHANGED <<configVars, ctxDone, deferred, live, stdio, http, requests, loop, exit>>

Closes(call) == IF call = "telemetry" THEN TelemetryResources ELSE {call}

(* Mutant: the deferred calls after the first are not made. *)
RunDeferredOnce ==
  /\ pc = "return"
  /\ deferred # <<>>
  /\ live' = live \ Closes(Head(deferred))
  /\ deferred' = <<>>
  /\ UNCHANGED <<configVars, pc, ctxDone, serveVars, loop, cause, exit>>

RunDeferred ==
  /\ pc = "return"
  /\ deferred # <<>>
  /\ live' = live \ Closes(Head(deferred))
  /\ deferred' = Tail(deferred)
  /\ UNCHANGED <<configVars, pc, ctxDone, serveVars, loop, cause, exit>>

Exit ==
  /\ pc = "return"
  /\ deferred = <<>>
  /\ pc' = "exited"
  /\ exit' = IF cause \in {"refused", "telemetry", "failed"} THEN "one" ELSE "zero"
  /\ UNCHANGED <<configVars, ctxDone, deferred, live, serveVars, loop, cause>>

-----------------------------------------------------------------------------
run ==
  \/ Configure \/ OpenLog \/ NotifyContext \/ InitTelemetry \/ ParseAll \/ NewWatcher
  \/ StartServing \/ Signalled \/ DrainHttp \/ TransportEnded \/ RunDeferred \/ Exit

Goroutines ==
  \/ \E result \in {"ok", "failed"} : StdioEnds(result)
  \/ Listen
  \/ \E result \in {"failed", "closed"} : HttpEnds(result)
  \/ LoopReturns

Outside == Signal \/ RequestArrives \/ RequestEnds

Next == run \/ Goroutines \/ Outside

Spec == Init /\ [][Next]_vars

(* run is scheduled, and clients finish or drop the requests they have. *)
FairSpec == Spec /\ WF_vars(run) /\ WF_vars(RequestEnds)

-----------------------------------------------------------------------------
(* Every field of the configuration in force is the command line's, else   *)
(* the file's, else the default, and watchLoop, which merges in one layer  *)
(* more, makes the same configuration of the same file.                    *)
Layered ==
  cfg # NoConfig =>
    /\ \A f \in Fields :
         cfg[f] = IF flags[f] # Zero[f] THEN flags[f]
                  ELSE IF file # NoFile /\ file[f] # Zero[f] THEN file[f]
                  ELSE Default[f]
    /\ Merge(loadConfig(Zero), flags) = cfg

(* A run that ends because of a signal has answered every HTTP request it  *)
(* accepted, also those that came in while the signal did.                 *)
DrainedOnSignal == cause = "signal" /\ pc \in {"return", "exited"} => requests = 0

(* Whatever step of start-up fails and whenever the signal comes, run has  *)
(* closed what it opened when it returns; only a telemetry.Init that fails *)
(* leaves something, which is what it had opened itself.                   *)
ReleasedAtExit ==
  exit \in {"zero", "one"} =>
    live \subseteq (IF cause = "telemetry" THEN TelemetryResources ELSE {})

(* The ErrServerClosed that Shutdown provokes is never taken for the       *)
(* failure of a transport, so a signal does not end in exit status 1.      *)
ClosedIsNotFailure == [][TransportEnded => Head(errCh) # "closed"]_vars

(* A signal caught while serving and a transport that ends both lead to    *)
(* the end of the process, when clients finish their requests.             *)
EndsWhenTold == ctxDone \/ errCh # <<>> ~> pc = "exited"
=============================================================================
