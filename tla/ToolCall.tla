------------------------------ MODULE ToolCall ------------------------------
(***************************************************************************)
(* One tools/call: ToolServer.handleToolCall (pkg/server/server.go) and    *)
(* runner.RunStream (pkg/runner/runner.go), from the registry lookup to    *)
(* the answer.                                                             *)
(*                                                                         *)
(* cmd.Run is os/exec's: it starts make with a pipe per stream, a copying  *)
(* goroutine per pipe and a goroutine that kills make (and nothing else)   *)
(* when the context ends; it waits for make, then for the copiers, which   *)
(* see the end of a pipe only when no process holds it any more.  make     *)
(* runs its recipe in a process of its own, the child, which inherits the  *)
(* pipes and lets go of one by redirecting its output, or of all by        *)
(* ending.  A copier puts each chunk in the captured output and, when the  *)
(* client gave a progress token, blocks until the session's notification   *)
(* channel accepts it.                                                     *)
(* Chunks are numbered per stream by the order they are written in.        *)
(***************************************************************************)
EXTENDS Arguments, FiniteSets

CONSTANTS
  Streams,      \* stdout and stderr
  Registered,   \* IDs in the registry
  Requested,    \* IDs a client may call
  ArgumentMaps, \* the argument maps a client may send, name -> JSON value
  MaxChunks,    \* bound: chunks written to a stream
  PipeCap,      \* capacity of a pipe, in chunks
  ChanCap       \* capacity of the session's notification channel

ASSUME ToolCallAssumption ==
  /\ Streams # {}
  /\ \A args \in ArgumentMaps : \A name \in DOMAIN args : args[name] \in Value
  /\ MaxChunks \in Nat
  /\ PipeCap \in Nat \ {0}
  /\ ChanCap \in Nat \ {0}

VARIABLES
  request,      \* what the client asked for
  argv,         \* the variables make is given
  pc,           \* where the handler stands
  ctx,          \* runCtx: live, or what ended it first
  watch,        \* the goroutine that kills make when the context ends
  make, child,  \* the processes
  holds,        \* the streams whose pipes the child holds
  exit,         \* how make ended
  written,      \* per stream: chunks written to the pipe
  captured,     \* chunks in the captured output
  streamed,     \* chunks put in the notification channel
  copier,       \* the copying goroutines
  channel,      \* entries in the notification channel
  connected,    \* the session's transport still drains the channel
  result,       \* how RunStream returned
  recorded      \* tool invocations counted

processVars == <<make, child, holds, exit>>
outputVars == <<written, captured, streamed, copier>>
sessionVars == <<channel, connected>>
vars == <<request, argv, pc, ctx, watch, processVars, outputVars, sessionVars, result, recorded>>

Results == {"none", "notFound", "invalid", "error", "success", "timeout", "exitNonZero"}

TypeOK ==
  /\ request \in [id : Requested, args : ArgumentMaps, streaming : BOOLEAN]
  /\ DOMAIN argv \subseteq {variable[Params[i].name] : i \in DOMAIN Params}
  /\ pc \in {"lookup", "validate", "start", "wait", "drain", "classify", "record", "answered"}
  /\ ctx \in {"live", "deadline", "canceled"}
  /\ watch \in {"off", "watching", "idle", "killed"}
  /\ make \in {"none", "alive", "gone"}
  /\ child \in {"none", "alive", "gone"}
  /\ holds \subseteq Streams
  /\ exit \in {"none", "zero", "nonZero", "killed"}
  /\ written \in [Streams -> 0..MaxChunks]
  /\ captured \in [Streams -> 0..MaxChunks]
  /\ streamed \in [Streams -> 0..MaxChunks]
  /\ copier \in [Streams -> {"off", "reading", "sending", "ended"}]
  /\ channel \in 0..ChanCap
  /\ connected \in BOOLEAN
  /\ result \in Results
  /\ recorded \in 0..1

Init ==
  /\ request \in [id : Requested, args : ArgumentMaps, streaming : BOOLEAN]
  /\ argv = <<>>
  /\ pc = "lookup"
  /\ ctx = "live"
  /\ watch = "off"
  /\ make = "none" /\ child = "none" /\ holds = {} /\ exit = "none"
  /\ written = [s \in Streams |-> 0]
  /\ captured = written
  /\ streamed = written
  /\ copier = [s \in Streams |-> "off"]
  /\ channel = 0
  /\ connected = TRUE
  /\ result = "none"
  /\ recorded = 0

-----------------------------------------------------------------------------
(* The handler, up to the start of make. *)

getRecipe ==
  /\ pc = "lookup"
  /\ IF request.id \in Registered
     THEN pc' = "validate" /\ UNCHANGED result
     ELSE pc' = "answered" /\ result' = "notFound"
  /\ UNCHANGED <<request, argv, ctx, watch, processVars, outputVars, sessionVars, recorded>>

buildArgs ==
  /\ pc = "validate"
  /\ \E text \in Texts(request.args) :
       IF Known(request.args) /\ \A i \in DOMAIN text : text[i] # Refused
       THEN pc' = "start" /\ argv' = Variables(text) /\ UNCHANGED result
       ELSE pc' = "record" /\ result' = "invalid" /\ UNCHANGED argv
  /\ UNCHANGED <<request, ctx, watch, processVars, outputVars, sessionVars, recorded>>

(* Mutant: exec.Command for exec.CommandContext. *)
StartUnwatched ==
  /\ pc = "start"
  /\ ctx = "live"
  /\ pc' = "wait"
  /\ make' = "alive"
  /\ copier' = [s \in Streams |-> "reading"]
  /\ UNCHANGED <<request, argv, ctx, watch, child, holds, exit, written, captured, streamed,
                 sessionVars, result, recorded>>

Start ==
  /\ pc = "start"
  /\ ctx = "live"
  /\ pc' = "wait"
  /\ make' = "alive"
  /\ watch' = "watching"
  /\ copier' = [s \in Streams |-> "reading"]
  /\ UNCHANGED <<request, argv, ctx, child, holds, exit, written, captured, streamed, sessionVars,
                 result, recorded>>

(* make is not there, its directory is not, or the context is over. *)
StartFails ==
  /\ pc = "start"
  /\ pc' = "record"
  /\ result' = IF ctx = "deadline" THEN "timeout" ELSE "error"
  /\ UNCHANGED <<request, argv, ctx, watch, processVars, outputVars, sessionVars, recorded>>

-----------------------------------------------------------------------------
(* make and its recipe: external. *)

Fork ==
  /\ make = "alive"
  /\ child = "none"
  /\ child' = "alive"
  /\ holds' = Streams
  /\ UNCHANGED <<request, argv, pc, ctx, watch, make, exit, outputVars, sessionVars, result, recorded>>

Write(s) ==
  /\ make = "alive" \/ s \in holds
  /\ written[s] < MaxChunks
  /\ written[s] - captured[s] < PipeCap
  /\ written' = [written EXCEPT ![s] = @ + 1]
  /\ UNCHANGED <<request, argv, pc, ctx, watch, processVars, captured, streamed, copier,
                 sessionVars, result, recorded>>

MakeExits(status) ==
  /\ make = "alive"
  /\ make' = "gone"
  /\ exit' = status
  /\ UNCHANGED <<request, argv, pc, ctx, watch, child, holds, outputVars, sessionVars, result, recorded>>

(* The output goes elsewhere from here on; a process that redirects both   *)
(* streams may outlive the call.                                           *)
Redirect(s) ==
  /\ s \in holds
  /\ holds' = holds \ {s}
  /\ UNCHANGED <<request, argv, pc, ctx, watch, make, child, exit, outputVars, sessionVars, result, recorded>>

ChildExits ==
  /\ child = "alive"
  /\ child' = "gone"
  /\ holds' = {}
  /\ UNCHANGED <<request, argv, pc, ctx, watch, make, exit, outputVars, sessionVars, result, recorded>>

-----------------------------------------------------------------------------
(* The context and cmd.Run. *)

EndContext(why) ==
  /\ pc \in {"start", "wait", "drain", "classify"}
  /\ ctx = "live"
  /\ ctx' = why
  /\ UNCHANGED <<request, argv, pc, watch, processVars, outputVars, sessionVars, result, recorded>>

(* Killing a process that has exited but was not waited for succeeds. *)
Kill ==
  /\ watch = "watching"
  /\ ctx # "live"
  /\ watch' = "killed"
  /\ make' = "gone"
  /\ exit' = IF make = "alive" THEN "killed" ELSE exit
  /\ UNCHANGED <<request, argv, pc, ctx, child, holds, outputVars, sessionVars, result, recorded>>

(* Process.Wait returns; the watching goroutine is told to stop. *)
Reap ==
  /\ pc = "wait"
  /\ make = "gone"
  /\ pc' = "drain"
  /\ watch' = IF watch = "watching" THEN "idle" ELSE watch
  /\ UNCHANGED <<request, argv, ctx, processVars, outputVars, sessionVars, result, recorded>>

(* Mutant: the copiers are not waited for. *)
DrainedEarly ==
  /\ pc = "drain"
  /\ pc' = "classify"
  /\ UNCHANGED <<request, argv, ctx, watch, processVars, outputVars, sessionVars, result, recorded>>

Drained ==
  /\ pc = "drain"
  /\ \A s \in Streams : copier[s] = "ended"
  /\ pc' = "classify"
  /\ UNCHANGED <<request, argv, ctx, watch, processVars, outputVars, sessionVars, result, recorded>>

(* Mutant: a killed make is taken for a timeout. *)
ClassifyKilled ==
  /\ pc = "classify"
  /\ pc' = "record"
  /\ result' = IF watch = "killed" THEN "timeout"
               ELSE IF exit = "zero" THEN "success"
               ELSE "exitNonZero"
  /\ UNCHANGED <<request, argv, ctx, watch, processVars, outputVars, sessionVars, recorded>>

(* cmd.Run failed if make did not exit with zero or was killed. *)
Classify ==
  /\ pc = "classify"
  /\ pc' = "record"
  /\ result' = IF exit = "zero" /\ watch # "killed" THEN "success"
               ELSE IF ctx = "deadline" THEN "timeout"
               ELSE IF exit # "zero" THEN "exitNonZero"
               ELSE "error"
  /\ UNCHANGED <<request, argv, ctx, watch, processVars, outputVars, sessionVars, recorded>>

RecordMetrics ==
  /\ pc = "record"
  /\ recorded' = recorded + 1
  /\ pc' = "answered"
  /\ UNCHANGED <<request, argv, ctx, watch, processVars, outputVars, sessionVars, result>>

-----------------------------------------------------------------------------
(* The copying goroutines and the session. *)

Copy(s) ==
  /\ copier[s] = "reading"
  /\ captured[s] < written[s]
  /\ captured' = [captured EXCEPT ![s] = @ + 1]
  /\ copier' = [copier EXCEPT ![s] = IF request.streaming THEN "sending" ELSE "reading"]
  /\ UNCHANGED <<request, argv, pc, ctx, watch, processVars, written, streamed, sessionVars,
                 result, recorded>>

(* Mutant: the channel has no bound. *)
SendUnbounded(s) ==
  /\ copier[s] = "sending"
  /\ channel' = channel + 1
  /\ streamed' = [streamed EXCEPT ![s] = @ + 1]
  /\ copier' = [copier EXCEPT ![s] = "reading"]
  /\ UNCHANGED <<request, argv, pc, ctx, watch, processVars, written, captured, connected,
                 result, recorded>>

(* progressWriter.Write: an unconditional channel send. *)
Send(s) ==
  /\ copier[s] = "sending"
  /\ channel < ChanCap
  /\ channel' = channel + 1
  /\ streamed' = [streamed EXCEPT ![s] = @ + 1]
  /\ copier' = [copier EXCEPT ![s] = "reading"]
  /\ UNCHANGED <<request, argv, pc, ctx, watch, processVars, written, captured, connected,
                 result, recorded>>

(* Mutant: a pipe ends with make, whoever else holds it. *)
EndOfFileEarly(s) ==
  /\ copier[s] = "reading"
  /\ captured[s] = written[s]
  /\ make # "alive"
  /\ copier' = [copier EXCEPT ![s] = "ended"]
  /\ UNCHANGED <<request, argv, pc, ctx, watch, processVars, written, captured, streamed,
                 sessionVars, result, recorded>>

EndOfFile(s) ==
  /\ copier[s] = "reading"
  /\ captured[s] = written[s]
  /\ make # "alive" /\ s \notin holds
  /\ copier' = [copier EXCEPT ![s] = "ended"]
  /\ UNCHANGED <<request, argv, pc, ctx, watch, processVars, written, captured, streamed,
                 sessionVars, result, recorded>>

Deliver ==
  /\ connected
  /\ channel > 0
  /\ channel' = channel - 1
  /\ UNCHANGED <<request, argv, pc, ctx, watch, processVars, outputVars, connected, result, recorded>>

Disconnect ==
  /\ connected
  /\ connected' = FALSE
  /\ UNCHANGED <<request, argv, pc, ctx, watch, processVars, outputVars, channel, result, recorded>>

-----------------------------------------------------------------------------
Handler ==
  \/ getRecipe \/ buildArgs \/ Start \/ StartFails
  \/ Reap \/ Drained \/ Classify \/ RecordMetrics

Goroutines == Kill \/ \E s \in Streams : Copy(s) \/ Send(s) \/ EndOfFile(s)

Processes ==
  \/ Fork
  \/ \E s \in Streams : Write(s) \/ Redirect(s)
  \/ \E status \in {"zero", "nonZero"} : MakeExits(status)
  \/ ChildExits

Outside == (\E why \in {"deadline", "canceled"} : EndContext(why)) \/ Deliver \/ Disconnect

Next == Handler \/ Goroutines \/ Processes \/ Outside

Spec == Init /\ [][Next]_vars

(* The server's own goroutines run, time runs out, and a connected session *)
(* drains its channel.  make is not obliged to end by itself.              *)
FairSpec ==
  /\ Spec
  /\ WF_vars(Handler)
  /\ WF_vars(Kill)
  /\ \A s \in Streams : WF_vars(Copy(s) \/ EndOfFile(s)) /\ SF_vars(Send(s))
  /\ WF_vars(EndContext("deadline"))
  /\ WF_vars(Deliver)

(* ... and what make has started lets go of the pipes, by ending or by     *)
(* redirecting its output.                                                 *)
LetsGo == holds # {} /\ (ChildExits \/ \E s \in Streams : Redirect(s))
FairTreeSpec == FairSpec /\ WF_vars(LetsGo)

-----------------------------------------------------------------------------
(* A success is make's own exit with zero, with everything that it and its *)
(* recipe ever wrote to the pipes captured, and nobody left to write more, *)
(* although the context may have ended since.                              *)
SuccessIsComplete ==
  result = "success" =>
    /\ exit = "zero" /\ make = "gone" /\ holds = {}
    /\ captured = written

(* make is given every argument of an accepted call as the client sent it, *)
(* unless two of them come to one variable, in which case one of them is   *)
(* given: no type is converted, no number that float64 can hold loses a    *)
(* fraction or, out of range, turns into another one, and any other number *)
(* is off by less than the distance of two float64 values.                 *)
ArgumentsArrive ==
  make # "none" => \A i \in Given(request.args) :
    \E j \in Given(request.args) :
      /\ variable[Params[j].name] = variable[Params[i].name]
      /\ Reached(request.args[Params[j].name], argv[variable[Params[i].name]])

(* No failure is reported without its cause: a timeout before the          *)
(* deadline, an exit status make did not end with, a cancellation that did *)
(* not happen, or refused arguments of a call that reached make.           *)
FailureHasCause ==
  /\ result \in {"notFound", "invalid"} => make = "none"
  /\ result = "timeout" => ctx = "deadline"
  /\ result = "exitNonZero" => exit \in {"nonZero", "killed"}
  /\ result = "error" /\ make # "none" => ctx = "canceled"

(* When RunStream has returned, nothing of its own is left running and     *)
(* nobody can write to it any more: no copier, no watcher, no make, no     *)
(* process that holds a pipe (one that has redirected its output may live  *)
(* on), and every captured chunk has been handed to the session of a       *)
(* streaming call.                                                         *)
NothingLeftBehind ==
  pc \in {"classify", "record", "answered"} =>
    /\ watch # "watching"
    /\ \A s \in Streams : copier[s] \in {"off", "ended"}
    /\ make # "alive" /\ holds = {}
    /\ request.streaming => streamed = captured

(* No progress notification follows the answer. *)
NoLateProgress == [][pc = "answered" => UNCHANGED <<captured, streamed>>]_vars

(* Every call is answered, provided the recipe's processes let go of the   *)
(* pipes and the client stays.                                             *)
EveryCallAnswered == <>(pc = "answered") \/ <>~connected

-----------------------------------------------------------------------------
(* What the documentation says and the code does not do. *)

(* Architecture.md, error contract: on a timeout the child is killed and   *)
(* an error returned, so a call whose deadline passes is answered, however *)
(* long the recipe's own processes would run.                              *)
TimeoutEndsCall == ctx = "deadline" ~> pc = "answered"
=============================================================================
