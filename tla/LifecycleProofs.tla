-------------------------- MODULE LifecycleProofs --------------------------
(***************************************************************************)
(* Proofs about Lifecycle, for every set of command lines and              *)
(* configuration files and every number of requests in hand.               *)
(***************************************************************************)
EXTENDS Lifecycle, TLAPS

StartUp == {"config", "log", "signals", "telemetry", "parse", "watch", "start"}

(* The configuration is made once, of this command line and this file. *)
ConfigInv ==
  /\ flags \in CommandLines
  /\ file \in ConfigFiles \cup {BadConfig, NoFile}
  /\ cfg # NoConfig => file # BadConfig /\ cfg = loadConfig(flags)

(* Why run returns is settled when it stops serving. *)
CauseInv ==
  /\ exit = "running" <=> pc # "exited"
  /\ pc \in StartUp \cup {"serve"} => cause = "none"
  /\ pc = "shutdown" => cause = "signal"

Deferred == {deferred[i] : i \in DOMAIN deferred}

(* A call that a step of start-up has yet to defer is not deferred. *)
OnceInv ==
  /\ pc \in {"config", "log"} => Deferred = {}
  /\ pc = "signals" => Deferred \subseteq {"log"}
  /\ pc = "telemetry" => Deferred \subseteq {"log", "signals"}
  /\ pc \in {"parse", "watch"} => "watcher" \notin Deferred

(* What is open is closed by a deferred call, but for what a failed        *)
(* telemetry.Init has opened; and signals are caught until run returns.    *)
OpenInv ==
  /\ \A r \in live :
       \/ \E call \in Deferred : r \in Closes(call)
       \/ r \in TelemetryResources /\ cause = "telemetry"
  /\ pc \in {"telemetry", "parse", "watch", "start", "serve", "shutdown"} => "signals" \in live
  /\ exit \in {"zero", "one"} => Deferred = {}

(* Results still to come, one per transport that has not ended; with those *)
(* in errCh they fit in it.                                                *)
ToCome ==
  (IF stdio = "serving" THEN 1 ELSE 0)
    + (IF http \in {"starting", "serving", "closed"} THEN 1 ELSE 0)

ResultsInv ==
  /\ pc \in StartUp => stdio = "off" /\ http = "off" /\ errCh = <<>>
  /\ Len(errCh) + ToCome <= 2

(* Only a signal closes the listener; from then on no request comes in.    *)
ShutdownInv ==
  /\ http = "off" => requests = 0
  /\ http = "closed" => cause = "signal"
  /\ cause = "signal" => http \notin {"starting", "serving"}
  /\ \A i \in DOMAIN errCh : errCh[i] = "closed" => cause = "signal"
  /\ DrainedOnSignal

Inv ==
  TypeOK /\ ConfigInv /\ CauseInv /\ OnceInv /\ OpenInv /\ ResultsInv /\ ShutdownInv

-----------------------------------------------------------------------------
(* The assumptions on the constants, in the form the steps use them. *)
LEMMA Constants ==
  /\ Zero \in Settings /\ Default \in Settings /\ ConfigFiles \subseteq Settings
  /\ CommandLines \subseteq Settings
  /\ BadConfig \notin Settings /\ NoFile \notin Settings /\ NoConfig \notin Settings
  /\ MaxRequests \in Nat
BY ConfigAssumption, LifecycleAssumption DEF Settings

(* Merge makes settings of settings, and is the lower layer where the      *)
(* upper one has zero values.                                              *)
LEMMA MergeFacts ==
  ASSUME NEW base \in Settings, NEW override \in Settings
  PROVE  /\ Merge(base, override) \in Settings
         /\ \A f \in Fields :
              Merge(base, override)[f] = IF override[f] = Zero[f] THEN base[f] ELSE override[f]
BY DEF Merge, Settings

(* A configuration file that loads gives settings, on any command line. *)
LEMMA LoadConfigFacts ==
  ASSUME file \in ConfigFiles \cup {NoFile}, NEW override \in Settings
  PROVE  loadConfig(override) \in Settings
<1>1. CASE file = NoFile
  BY <1>1, Constants, MergeFacts DEF loadConfig
<1>2. CASE file # NoFile
  <2>1. Merge(Default, file) \in Settings
    BY <1>2, Constants, MergeFacts
  <2> QED
    BY <1>2, <2>1, MergeFacts DEF loadConfig
<1> QED
  BY <1>1, <1>2

(* What a deferred call does to the stack of deferred calls. *)
LEMMA Defer ==
  ASSUME NEW S, NEW calls \in Seq(S), NEW call \in S
  PROVE  /\ <<call>> \o calls \in Seq(S)
         /\ Len(<<call>> \o calls) = Len(calls) + 1
         /\ (<<call>> \o calls)[1] = call
         /\ \A i \in 1..Len(calls) : (<<call>> \o calls)[i + 1] = calls[i]
         /\ \A i \in 2..Len(calls) + 1 : (<<call>> \o calls)[i] = calls[i - 1]
         /\ DOMAIN (<<call>> \o calls) = 1..Len(calls) + 1
         /\ DOMAIN calls = 1..Len(calls)
OBVIOUS

(* Proceed with no call leaves the stack as it is. *)
LEMMA NoDefer ==
  ASSUME NEW S, NEW calls \in Seq(S)
  PROVE  <<>> \o calls = calls
OBVIOUS

(* What making the deferred call on top leaves of a stack, and taking the  *)
(* first result leaves of errCh.                                           *)
LEMMA CallMade ==
  ASSUME NEW S, NEW calls \in Seq(S), calls # <<>>
  PROVE  /\ Tail(calls) \in Seq(S)
         /\ Len(Tail(calls)) = Len(calls) - 1
         /\ Head(calls) = calls[1]
         /\ Head(calls) \in S
         /\ \A i \in 1..Len(calls) - 1 : Tail(calls)[i] = calls[i + 1]
         /\ \A i \in 2..Len(calls) : calls[i] = Tail(calls)[i - 1]
         /\ DOMAIN Tail(calls) = 1..Len(calls) - 1
         /\ DOMAIN calls = 1..Len(calls)
         /\ 1 \in DOMAIN calls
OBVIOUS

(* The types of the two sequences, apart from those of the rest. *)
CallNames == {"log", "signals", "telemetry", "watcher"}

CallsOK ==
  /\ deferred \in Seq(CallNames)
  /\ \A i, j \in DOMAIN deferred : deferred[i] = deferred[j] => i = j

ErrChOK == errCh \in Seq({"ok", "failed", "closed"}) /\ Len(errCh) <= 2

OthersOK ==
  /\ cfg \in Settings \cup {NoConfig}
  /\ pc \in {"config", "log", "signals", "telemetry", "parse", "watch", "start", "serve",
             "shutdown", "return", "exited"}
  /\ ctxDone \in BOOLEAN
  /\ live \subseteq Resources
  /\ stdio \in {"off", "serving", "ended"}
  /\ http \in {"off", "starting", "serving", "closed", "ended"}
  /\ requests \in 0..MaxRequests
  /\ loop \in {"off", "running", "returned"}
  /\ cause \in {"none", "refused", "telemetry", "signal", "ended", "failed"}
  /\ exit \in {"running", "zero", "one", "killed"}

(* TypeOK is these three. *)
LEMMA TypeParts == TypeOK <=> CallsOK /\ ErrChOK /\ OthersOK
<1>1. {"log", "signals", "telemetry", "watcher"} = CallNames
  BY DEF CallNames
<1> QED
  BY <1>1 DEF TypeOK, CallsOK, ErrChOK, OthersOK

(* The invariant holds when run is called. *)
LEMMA InitInv == Init => Inv
<1> SUFFICES ASSUME Init PROVE Inv
  OBVIOUS
<1>1. CallsOK /\ ErrChOK
  BY DEF Init, CallsOK, ErrChOK
<1>2. OthersOK
  <2>1. requests \in 0..MaxRequests
    BY Constants DEF Init
  <2> QED
    BY <2>1 DEF Init, OthersOK
<1>3. ConfigInv /\ CauseInv /\ OnceInv /\ OpenInv /\ ResultsInv /\ ShutdownInv
  BY DEF Init, ConfigInv, CauseInv, OnceInv, OpenInv, ResultsInv, ToCome, ShutdownInv,
     DrainedOnSignal,
         StartUp, Deferred
<1> QED
  BY <1>1, <1>2, <1>3, TypeParts DEF Inv

-----------------------------------------------------------------------------
(* Only Configure touches the configuration and what it is made of. *)
LEMMA ConfigStep ==
  ASSUME Inv, [Next]_vars
  PROVE  ConfigInv'
<1>1. CASE Configure
  BY <1>1 DEF Inv, ConfigInv, Configure, Refuse, Return, loadConfig, serveVars
<1>2. CASE ~Configure
  <2>1. UNCHANGED configVars
    BY <1>2 DEF vars, Next, run, Goroutines, Outside, configVars, OpenLog, NotifyContext,
      InitTelemetry, ParseAll, NewWatcher, StartServing, Signalled, DrainHttp, TransportEnded,
      RunDeferred, Exit, StdioEnds, Listen, HttpEnds, LoopReturns, Signal, RequestArrives,
      RequestEnds, Proceed, Refuse
  <2> QED
    BY <2>1 DEF Inv, ConfigInv, configVars, loadConfig
<1> QED
  BY <1>1, <1>2

(* Why run returns. *)
LEMMA CauseStep ==
  ASSUME Inv, [Next]_vars
  PROVE  CauseInv'
<1> USE DEF Inv, TypeOK, CauseInv, StartUp, OpenInv, configVars, serveVars
<1>1. ASSUME Configure PROVE CauseInv'
  BY <1>1 DEF Configure, Refuse, Return
<1>2. ASSUME OpenLog PROVE CauseInv'
  BY <1>2 DEF OpenLog, Proceed, Refuse, Return
<1>3. ASSUME NotifyContext PROVE CauseInv'
  BY <1>3 DEF NotifyContext, Proceed
<1>4. ASSUME InitTelemetry PROVE CauseInv'
  BY <1>4 DEF InitTelemetry, Proceed, Refuse, Return
<1>5. ASSUME ParseAll PROVE CauseInv'
  BY <1>5 DEF ParseAll, Proceed, Refuse, Return
<1>6. ASSUME NewWatcher PROVE CauseInv'
  BY <1>6 DEF NewWatcher, Proceed, Refuse, Return
<1>7. ASSUME StartServing PROVE CauseInv'
  BY <1>7 DEF StartServing
<1>8. ASSUME Signalled PROVE CauseInv'
  BY <1>8 DEF Signalled
<1>9. ASSUME DrainHttp PROVE CauseInv'
  BY <1>9 DEF DrainHttp
<1>10. ASSUME TransportEnded PROVE CauseInv'
  BY <1>10 DEF TransportEnded, Return
<1>11. ASSUME RunDeferred PROVE CauseInv'
  BY <1>11 DEF RunDeferred
<1>12. ASSUME Exit PROVE CauseInv'
  BY <1>12 DEF Exit
<1>13. ASSUME NEW result \in {"ok", "failed"}, StdioEnds(result) PROVE CauseInv'
  BY <1>13 DEF StdioEnds, Running
<1>14. ASSUME Listen PROVE CauseInv'
  BY <1>14 DEF Listen, Running
<1>15. ASSUME NEW result \in {"failed", "closed"}, HttpEnds(result) PROVE CauseInv'
  BY <1>15 DEF HttpEnds, Running
<1>16. ASSUME LoopReturns PROVE CauseInv'
  BY <1>16 DEF LoopReturns, Running
<1>17. ASSUME Signal PROVE CauseInv'
  BY <1>17 DEF Signal, Running
<1>18. ASSUME RequestArrives PROVE CauseInv'
  BY <1>18 DEF RequestArrives, Running
<1>19. ASSUME RequestEnds PROVE CauseInv'
  BY <1>19 DEF RequestEnds, Running
<1>20. ASSUME UNCHANGED vars PROVE CauseInv'
  BY <1>20 DEF vars
<1> HIDE DEF Inv, TypeOK, CauseInv, StartUp, OpenInv
<1> QED
  BY <1>1, <1>2, <1>3, <1>4, <1>5, <1>6, <1>7, <1>8, <1>9, <1>10, <1>11, <1>12, <1>13, <1>14,
     <1>15, <1>16, <1>17, <1>18, <1>19, <1>20
  DEF Next, run, Goroutines, Outside

-----------------------------------------------------------------------------
(* The stack of deferred calls: deferring a call, and making one. *)
LEMMA DeferCall ==
  ASSUME CallsOK, NEW call \in CallNames, deferred' = <<call>> \o deferred
  PROVE  /\ Deferred' = Deferred \cup {call}
         /\ call \notin Deferred => CallsOK'
<1> USE DEF CallsOK, Deferred
<1>1. /\ DOMAIN deferred' = 1..Len(deferred) + 1 /\ DOMAIN deferred = 1..Len(deferred)
      /\ deferred' \in Seq(CallNames) /\ deferred'[1] = call
      /\ \A i \in 1..Len(deferred) : deferred'[i + 1] = deferred[i]
      /\ \A i \in 2..Len(deferred) + 1 : deferred'[i] = deferred[i - 1]
      /\ Len(deferred) \in Nat
  BY Defer
<1>2. \A i \in DOMAIN deferred' :
        i # 1 => i - 1 \in DOMAIN deferred /\ deferred'[i] = deferred[i - 1]
  BY <1>1
<1>3. \A i \in DOMAIN deferred : i + 1 \in DOMAIN deferred' /\ deferred'[i + 1] = deferred[i]
  BY <1>1
<1>4. 1 \in DOMAIN deferred'
  BY <1>1
<1>5. Deferred' = Deferred \cup {call}
  <2>1. Deferred' \subseteq Deferred \cup {call}
    BY <1>1, <1>2
  <2>2. Deferred \subseteq Deferred'
    <3> SUFFICES ASSUME NEW i \in DOMAIN deferred PROVE deferred[i] \in Deferred'
      OBVIOUS
    <3> QED
      BY <1>3
  <2>3. call \in Deferred'
    BY <1>1, <1>4
  <2> QED
    BY <2>1, <2>2, <2>3
<1>6. ASSUME call \notin Deferred, NEW i \in DOMAIN deferred', NEW j \in DOMAIN deferred',
             deferred'[i] = deferred'[j]
      PROVE  i = j
  <2>1. CASE i = 1 \/ j = 1
    BY <1>1, <1>2, <1>6, <2>1
  <2>2. CASE i # 1 /\ j # 1
    <3>1. i - 1 = j - 1
      BY <1>2, <1>6, <2>2
    <3>2. i \in Int /\ j \in Int
      BY <1>1
    <3> QED
      BY <3>1, <3>2
  <2> QED
    BY <2>1, <2>2
<1> QED
  BY <1>1, <1>5, <1>6

(* Making one leaves all the others. *)
LEMMA MakeCall ==
  ASSUME CallsOK, deferred # <<>>, deferred' = Tail(deferred)
  PROVE  /\ Deferred \subseteq Deferred' \cup {Head(deferred)}
         /\ Deferred' \subseteq Deferred
         /\ CallsOK'
<1> USE DEF CallsOK, Deferred
<1>1. /\ DOMAIN deferred' = 1..Len(deferred) - 1 /\ DOMAIN deferred = 1..Len(deferred)
      /\ Len(deferred) \in Nat
      /\ Head(deferred) = deferred[1]
      /\ deferred' \in Seq(CallNames)
      /\ \A k \in 1..Len(deferred) - 1 : deferred'[k] = deferred[k + 1]
      /\ \A k \in 2..Len(deferred) : deferred[k] = deferred'[k - 1]
  BY CallMade
<1>2. \A i \in DOMAIN deferred :
        i # 1 => i - 1 \in DOMAIN deferred' /\ deferred[i] = deferred'[i - 1]
  BY <1>1
<1>3. \A i \in DOMAIN deferred' : i + 1 \in DOMAIN deferred /\ deferred'[i] = deferred[i + 1]
  BY <1>1
<1>4. Deferred \subseteq Deferred' \cup {Head(deferred)} /\ Deferred' \subseteq Deferred
  <2>1. ASSUME NEW i \in DOMAIN deferred PROVE deferred[i] \in Deferred' \cup {Head(deferred)}
    BY <1>1, <1>2
  <2>2. ASSUME NEW i \in DOMAIN deferred' PROVE deferred'[i] \in Deferred
    BY <1>3
  <2> QED
    BY <2>1, <2>2
<1>5. ASSUME NEW i \in DOMAIN deferred', NEW j \in DOMAIN deferred', deferred'[i] = deferred'[j]
      PROVE  i = j
  <2>1. i + 1 = j + 1 /\ i \in Int /\ j \in Int
    BY <1>1, <1>3, <1>5
  <2> QED
    BY <2>1
<1> QED
  BY <1>1, <1>4, <1>5

(* Proceed without a call. *)
LEMMA KeepCalls ==
  ASSUME CallsOK, deferred' = <<>> \o deferred
  PROVE  deferred' = deferred
BY NoDefer DEF CallsOK

(* Every step defers one call, makes one, or leaves the stack alone. *)
LEMMA CallsStep ==
  ASSUME Inv, [Next]_vars
  PROVE  /\ CallsOK'
         /\ OnceInv'
         /\ OpenInv'
<1> DEFINE Goal == CallsOK' /\ OnceInv' /\ OpenInv'
<1>0. CallsOK
  BY TypeParts DEF Inv
<1>1. ASSUME deferred' = deferred PROVE CallsOK' /\ Deferred' = Deferred
  BY <1>0, <1>1 DEF CallsOK, Deferred
<1> USE DEF CauseInv, OnceInv, OpenInv, StartUp, Closes
<1>2. ASSUME Configure PROVE Goal
  BY <1>2, <1>1 DEF Inv, Configure, Refuse, Return
<1>3. ASSUME OpenLog PROVE Goal
  <2>1. ASSUME Proceed("signals", {"log"}, <<"log">>) PROVE Goal
    <3>1. CallsOK' /\ Deferred' = Deferred \cup {"log"}
      BY <1>3, <2>1, <1>0, DeferCall DEF Inv, CallNames, Proceed, OpenLog
    <3>2. OnceInv' /\ OpenInv'
      BY <1>3, <2>1, <3>1 DEF Inv, Proceed, OpenLog
    <3> QED
      BY <3>1, <3>2
  <2>2. ASSUME Proceed("signals", {}, <<>>) PROVE Goal
    <3>1. deferred' = deferred
      BY <2>2, <1>0, KeepCalls DEF Proceed
    <3> QED
      BY <1>3, <2>2, <3>1, <1>1 DEF Inv, Proceed, OpenLog
  <2>3. ASSUME Refuse, live' = live PROVE Goal
    BY <1>3, <2>3, <1>1 DEF Inv, Refuse, Return, OpenLog
  <2> QED
    BY <1>3, <2>1, <2>2, <2>3 DEF OpenLog
<1>4. ASSUME NotifyContext PROVE Goal
  <2>1. ASSUME Proceed("telemetry", {"signals"}, <<"signals">>) PROVE Goal
    <3>1. CallsOK' /\ Deferred' = Deferred \cup {"signals"}
      BY <1>4, <2>1, <1>0, DeferCall DEF Inv, CallNames, Proceed, NotifyContext
    <3>2. OnceInv' /\ OpenInv'
      BY <1>4, <2>1, <3>1 DEF Inv, Proceed, NotifyContext
    <3> QED
      BY <3>1, <3>2
  <2> QED
    BY <1>4, <2>1 DEF NotifyContext
<1>5. ASSUME InitTelemetry PROVE Goal
  <2>1. ASSUME NEW opened \in SUBSET TelemetryResources,
               Proceed("parse", opened, <<"telemetry">>)
        PROVE  Goal
    <3>1. CallsOK' /\ Deferred' = Deferred \cup {"telemetry"}
      BY <1>5, <2>1, <1>0, DeferCall DEF Inv, CallNames, Proceed, InitTelemetry
    <3>2. OnceInv' /\ OpenInv'
      BY <1>5, <2>1, <3>1 DEF Inv, Proceed, InitTelemetry
    <3> QED
      BY <3>1, <3>2
  <2>2. ASSUME NEW opened \in SUBSET TelemetryResources, Return("telemetry"),
               live' = live \cup opened, UNCHANGED <<deferred, exit>>
        PROVE  Goal
    BY <1>5, <2>2, <1>1 DEF Inv, Return, InitTelemetry
  <2>3. ASSUME NEW traces \in {{}, {"traces"}},
               NEW metrics \in {{}, {"metrics"}, {"metrics", "prometheus"}}
        PROVE  /\ traces \cup metrics \in SUBSET TelemetryResources
               /\ live \cup traces \cup metrics = live \cup (traces \cup metrics)
    BY DEF TelemetryResources
  <2> QED
    BY <1>5, <2>1, <2>2, <2>3 DEF InitTelemetry
<1>6. ASSUME ParseAll PROVE Goal
  <2>1. deferred' = deferred
    BY <1>6, <1>0, KeepCalls DEF ParseAll, Proceed, Refuse, Return
  <2> QED
    BY <1>6, <2>1, <1>1 DEF Inv, ParseAll, Proceed, Refuse, Return
<1>7. ASSUME NewWatcher PROVE Goal
  <2>1. ASSUME Proceed("start", {"watcher"}, <<"watcher">>) PROVE Goal
    <3>1. CallsOK' /\ Deferred' = Deferred \cup {"watcher"}
      BY <1>7, <2>1, <1>0, DeferCall DEF Inv, CallNames, Proceed, NewWatcher
    <3>2. OnceInv' /\ OpenInv'
      BY <1>7, <2>1, <3>1 DEF Inv, Proceed, NewWatcher
    <3> QED
      BY <3>1, <3>2
  <2>3. ASSUME Refuse, live' = live PROVE Goal
    BY <1>7, <2>3, <1>1 DEF Inv, Refuse, Return, NewWatcher
  <2> QED
    BY <1>7, <2>1, <2>3 DEF NewWatcher
<1>8. ASSUME StartServing PROVE Goal
  BY <1>8, <1>1 DEF Inv, StartServing
<1>9. ASSUME Signalled PROVE Goal
  BY <1>9, <1>1 DEF Inv, Signalled
<1>10. ASSUME DrainHttp PROVE Goal
  BY <1>10, <1>1 DEF Inv, DrainHttp
<1>11. ASSUME TransportEnded PROVE Goal
  BY <1>11, <1>1 DEF Inv, TransportEnded, Return
<1>12. ASSUME RunDeferred PROVE Goal
  BY <1>12, <1>0, MakeCall DEF Inv, RunDeferred
<1>13. ASSUME Exit PROVE Goal
  <2>1. Deferred = {}
    BY <1>13 DEF Exit, Deferred
  <2> QED
    BY <1>13, <2>1, <1>1 DEF Inv, Exit
<1>14. ASSUME NEW result \in {"ok", "failed"}, StdioEnds(result) PROVE Goal
  BY <1>14, <1>1 DEF Inv, StdioEnds, Running
<1>15. ASSUME Listen PROVE Goal
  BY <1>15, <1>1 DEF Inv, Listen, Running
<1>16. ASSUME NEW result \in {"failed", "closed"}, HttpEnds(result) PROVE Goal
  BY <1>16, <1>1 DEF Inv, HttpEnds, Running
<1>17. ASSUME LoopReturns PROVE Goal
  BY <1>17, <1>1 DEF Inv, LoopReturns, Running
<1>18. ASSUME Signal PROVE Goal
  BY <1>18, <1>1 DEF Inv, Signal, Running
<1>19. ASSUME RequestArrives PROVE Goal
  BY <1>19, <1>1 DEF Inv, RequestArrives, Running
<1>20. ASSUME RequestEnds PROVE Goal
  BY <1>20, <1>1 DEF Inv, RequestEnds, Running
<1>21. ASSUME UNCHANGED vars PROVE Goal
  BY <1>21, <1>1 DEF Inv, vars
<1> QED
  BY <1>2, <1>3, <1>4, <1>5, <1>6, <1>7, <1>8, <1>9, <1>10, <1>11, <1>12, <1>13, <1>14, <1>15,
     <1>16, <1>17, <1>18, <1>19, <1>20, <1>21
  DEF Next, run, Goroutines, Outside

(* Results in errCh and results still to come. *)
LEMMA ResultsStep ==
  ASSUME Inv, [Next]_vars
  PROVE  ResultsInv'
<1> USE DEF Inv, TypeOK, CauseInv, ResultsInv, ToCome, StartUp, configVars, serveVars
<1>1. ASSUME Configure PROVE ResultsInv'
  BY <1>1 DEF Configure, Refuse, Return
<1>2. ASSUME OpenLog PROVE ResultsInv'
  BY <1>2 DEF OpenLog, Proceed, Refuse, Return
<1>3. ASSUME NotifyContext PROVE ResultsInv'
  BY <1>3 DEF NotifyContext, Proceed
<1>4. ASSUME InitTelemetry PROVE ResultsInv'
  BY <1>4 DEF InitTelemetry, Proceed, Refuse, Return
<1>5. ASSUME ParseAll PROVE ResultsInv'
  BY <1>5 DEF ParseAll, Proceed, Refuse, Return
<1>6. ASSUME NewWatcher PROVE ResultsInv'
  BY <1>6 DEF NewWatcher, Proceed, Refuse, Return
<1>7. ASSUME StartServing PROVE ResultsInv'
  BY <1>7 DEF StartServing
<1>8. ASSUME Signalled PROVE ResultsInv'
  BY <1>8 DEF Signalled
<1>9. ASSUME DrainHttp PROVE ResultsInv'
  BY <1>9 DEF DrainHttp
<1>10. ASSUME TransportEnded PROVE ResultsInv'
  <2>1. Len(errCh') = Len(errCh) - 1 /\ Len(errCh) \in Nat
    BY <1>10, CallMade DEF TransportEnded
  <2>2. pc' \notin StartUp /\ UNCHANGED <<stdio, http>>
    BY <1>10 DEF TransportEnded, Return
  <2>3. ToCome' = ToCome /\ ToCome \in 0..2
    BY <2>2
  <2> HIDE DEF ToCome
  <2> QED
    BY <2>1, <2>2, <2>3
<1>11. ASSUME RunDeferred PROVE ResultsInv'
  BY <1>11 DEF RunDeferred
<1>12. ASSUME Exit PROVE ResultsInv'
  BY <1>12 DEF Exit
<1>13. ASSUME NEW result \in {"ok", "failed"}, StdioEnds(result) PROVE ResultsInv'
  BY <1>13 DEF StdioEnds, Running
<1>14. ASSUME Listen PROVE ResultsInv'
  BY <1>14 DEF Listen, Running
<1>15. ASSUME NEW result \in {"failed", "closed"}, HttpEnds(result) PROVE ResultsInv'
  <2>1. Len(errCh') = Len(errCh) + 1 /\ Len(errCh) \in Nat
    BY <1>15 DEF HttpEnds
  <2>2. http' = "ended" /\ http \in {"starting", "serving", "closed"} /\ UNCHANGED <<stdio, pc>>
    BY <1>15 DEF HttpEnds
  <2>3. pc' \notin StartUp
    BY <2>2
  <2> QED
    BY <2>1, <2>2, <2>3
<1>16. ASSUME LoopReturns PROVE ResultsInv'
  BY <1>16 DEF LoopReturns, Running
<1>17. ASSUME Signal PROVE ResultsInv'
  BY <1>17 DEF Signal, Running
<1>18. ASSUME RequestArrives PROVE ResultsInv'
  BY <1>18 DEF RequestArrives, Running
<1>19. ASSUME RequestEnds PROVE ResultsInv'
  BY <1>19 DEF RequestEnds, Running
<1>20. ASSUME UNCHANGED vars PROVE ResultsInv'
  BY <1>20 DEF vars
<1> HIDE DEF Inv, TypeOK, CauseInv, ResultsInv, ToCome, StartUp
<1> QED
  BY <1>1, <1>2, <1>3, <1>4, <1>5, <1>6, <1>7, <1>8, <1>9, <1>10, <1>11, <1>12, <1>13, <1>14,
     <1>15, <1>16, <1>17, <1>18, <1>19, <1>20
  DEF Next, run, Goroutines, Outside

(* A signal closes the listener before the requests in hand are waited for. *)
LEMMA ShutdownStep ==
  ASSUME Inv, [Next]_vars
  PROVE  ShutdownInv'
<1> USE DEF Inv, TypeOK, CauseInv, OpenInv, ShutdownInv, DrainedOnSignal, StartUp, configVars,
        serveVars
<1>1. ASSUME Configure PROVE ShutdownInv'
  BY <1>1 DEF Configure, Refuse, Return
<1>2. ASSUME OpenLog PROVE ShutdownInv'
  BY <1>2 DEF OpenLog, Proceed, Refuse, Return
<1>3. ASSUME NotifyContext PROVE ShutdownInv'
  BY <1>3 DEF NotifyContext, Proceed
<1>4. ASSUME InitTelemetry PROVE ShutdownInv'
  BY <1>4 DEF InitTelemetry, Proceed, Refuse, Return
<1>5. ASSUME ParseAll PROVE ShutdownInv'
  BY <1>5 DEF ParseAll, Proceed, Refuse, Return
<1>6. ASSUME NewWatcher PROVE ShutdownInv'
  BY <1>6 DEF NewWatcher, Proceed, Refuse, Return
<1>7. ASSUME StartServing PROVE ShutdownInv'
  BY <1>7 DEF StartServing, ResultsInv
<1>8. ASSUME Signalled PROVE ShutdownInv'
  BY <1>8 DEF Signalled
<1>9. ASSUME DrainHttp PROVE ShutdownInv'
  BY <1>9 DEF DrainHttp
<1>10. ASSUME TransportEnded PROVE ShutdownInv'
  BY <1>10, CallMade DEF TransportEnded, Return
<1>11. ASSUME RunDeferred PROVE ShutdownInv'
  BY <1>11 DEF RunDeferred
<1>12. ASSUME Exit PROVE ShutdownInv'
  BY <1>12 DEF Exit
<1>13. ASSUME NEW result \in {"ok", "failed"}, StdioEnds(result) PROVE ShutdownInv'
  BY <1>13 DEF StdioEnds, Running
<1>14. ASSUME Listen PROVE ShutdownInv'
  BY <1>14 DEF Listen, Running
<1>15. ASSUME NEW result \in {"failed", "closed"}, HttpEnds(result) PROVE ShutdownInv'
  BY <1>15 DEF HttpEnds, Running
<1>16. ASSUME LoopReturns PROVE ShutdownInv'
  BY <1>16 DEF LoopReturns, Running
<1>17. ASSUME Signal PROVE ShutdownInv'
  BY <1>17 DEF Signal, Running
<1>18. ASSUME RequestArrives PROVE ShutdownInv'
  BY <1>18 DEF RequestArrives, Running
<1>19. ASSUME RequestEnds PROVE ShutdownInv'
  BY <1>19 DEF RequestEnds, Running
<1>20. ASSUME UNCHANGED vars PROVE ShutdownInv'
  BY <1>20 DEF vars
<1> HIDE DEF Inv, TypeOK, CauseInv, OpenInv, ShutdownInv, DrainedOnSignal, StartUp
<1> QED
  BY <1>1, <1>2, <1>3, <1>4, <1>5, <1>6, <1>7, <1>8, <1>9, <1>10, <1>11, <1>12, <1>13, <1>14,
     <1>15, <1>16, <1>17, <1>18, <1>19, <1>20
  DEF Next, run, Goroutines, Outside

(* Each transport sends one result, so errCh is never full. *)
LEMMA ErrChStep ==
  ASSUME Inv, [Next]_vars
  PROVE  ErrChOK'
<1>1. ErrChOK /\ Len(errCh) \in Nat
  BY TypeParts DEF Inv, ErrChOK
<1>2. ASSUME errCh' = errCh PROVE ErrChOK'
  BY <1>1, <1>2 DEF ErrChOK
<1>3. ASSUME TransportEnded PROVE ErrChOK'
  BY <1>1, <1>3, CallMade DEF ErrChOK, TransportEnded
<1>4. ASSUME NEW result \in {"ok", "failed"}, StdioEnds(result) PROVE ErrChOK'
  <2>1. Len(errCh) <= 1
    BY <1>1, <1>4 DEF Inv, ResultsInv, ToCome, StdioEnds
  <2> QED
    BY <1>1, <1>4, <2>1 DEF ErrChOK, StdioEnds
<1>5. ASSUME NEW result \in {"failed", "closed"}, HttpEnds(result) PROVE ErrChOK'
  <2>1. http \in {"starting", "serving", "closed"}
    BY <1>5 DEF HttpEnds
  <2>2. Len(errCh) <= 1
    BY <1>1, <2>1 DEF Inv, ResultsInv, ToCome
  <2> QED
    BY <1>1, <1>5, <2>2 DEF ErrChOK, HttpEnds
<1>6. \/ errCh' = errCh
      \/ TransportEnded
      \/ \E result \in {"ok", "failed"} : StdioEnds(result)
      \/ \E result \in {"failed", "closed"} : HttpEnds(result)
  BY DEF vars, serveVars, Next, run, Goroutines, Outside, Configure, OpenLog, NotifyContext,
    InitTelemetry, ParseAll, NewWatcher, StartServing, Signalled, DrainHttp, RunDeferred, Exit,
    Listen, LoopReturns, Signal, RequestArrives, RequestEnds, Proceed, Refuse
<1> QED
  BY <1>2, <1>3, <1>4, <1>5, <1>6

(* The other types. *)
LEMMA OthersStep ==
  ASSUME Inv, [Next]_vars
  PROVE  OthersOK'
<1>0. OthersOK
  BY TypeParts DEF Inv
<1> USE DEF OthersOK, Resources, configVars, serveVars
<1>1. ASSUME Configure PROVE OthersOK'
  <2>1. flags \in Settings /\ file \in ConfigFiles \cup {BadConfig, NoFile}
    BY Constants DEF Inv, ConfigInv
  <2>2. cfg' \in Settings \cup {NoConfig}
    BY <1>0, <1>1, <2>1, LoadConfigFacts DEF Configure, Refuse
  <2>3. pc' \in {"log", "return"} /\ cause' \in {cause, "refused"}
    BY <1>1 DEF Configure, Refuse, Return
  <2>4. UNCHANGED <<ctxDone, live, stdio, http, requests, loop, exit>>
    BY <1>1 DEF Configure, Refuse
  <2> QED
    BY <1>0, <2>2, <2>3, <2>4
<1>2. ASSUME OpenLog PROVE OthersOK'
  <2>1. live' \subseteq Resources
    BY <1>0, <1>2 DEF OpenLog, Proceed, Refuse
  <2>2. pc' \in {"signals", "return"} /\ cause' \in {cause, "refused"}
    BY <1>2 DEF OpenLog, Proceed, Refuse, Return
  <2>3. UNCHANGED <<cfg, ctxDone, serveVars, loop, exit>>
    BY <1>2 DEF OpenLog, Proceed, Refuse, Return
  <2> QED
    BY <1>0, <2>1, <2>2, <2>3
<1>3. ASSUME NotifyContext PROVE OthersOK'
  BY <1>0, <1>3 DEF NotifyContext, Proceed
<1>4. ASSUME InitTelemetry PROVE OthersOK'
  <2>1. live' \subseteq Resources
    <3>1. PICK traces \in {{}, {"traces"}},
               metrics \in {{}, {"metrics"}, {"metrics", "prometheus"}} :
            live' = live \cup (traces \cup metrics) \/ live' = live \cup traces \cup metrics
      BY <1>4 DEF InitTelemetry, Proceed
    <3>2. traces \subseteq TelemetryResources /\ metrics \subseteq TelemetryResources
      BY DEF TelemetryResources
    <3> QED
      BY <1>0, <3>1, <3>2
  <2>2. pc' \in {"parse", "return"} /\ cause' \in {cause, "telemetry"}
    BY <1>4 DEF InitTelemetry, Proceed, Return
  <2>3. UNCHANGED <<cfg, ctxDone, serveVars, loop, exit>>
    BY <1>4 DEF InitTelemetry, Proceed
  <2> QED
    BY <1>0, <2>1, <2>2, <2>3
<1>5. ASSUME ParseAll PROVE OthersOK'
  BY <1>0, <1>5 DEF ParseAll, Proceed, Refuse, Return
<1>6. ASSUME NewWatcher PROVE OthersOK'
  BY <1>0, <1>6 DEF NewWatcher, Proceed, Refuse, Return
<1>7. ASSUME StartServing PROVE OthersOK'
  BY <1>0, <1>7 DEF StartServing
<1>8. ASSUME Signalled PROVE OthersOK'
  BY <1>0, <1>8 DEF Signalled
<1>9. ASSUME DrainHttp PROVE OthersOK'
  BY <1>0, <1>9 DEF DrainHttp
<1>10. ASSUME TransportEnded PROVE OthersOK'
  BY <1>0, <1>10 DEF TransportEnded, Return
<1>11. ASSUME RunDeferred PROVE OthersOK'
  <2>1. live' \subseteq live
    BY <1>11 DEF RunDeferred
  <2>2. UNCHANGED <<cfg, pc, ctxDone, stdio, http, requests, loop, cause, exit>>
    BY <1>11 DEF RunDeferred
  <2> QED
    BY <1>0, <2>1, <2>2
<1>12. ASSUME Exit PROVE OthersOK'
  BY <1>0, <1>12 DEF Exit
<1>13. ASSUME NEW result \in {"ok", "failed"}, StdioEnds(result) PROVE OthersOK'
  BY <1>0, <1>13 DEF StdioEnds, Running
<1>14. ASSUME Listen PROVE OthersOK'
  BY <1>0, <1>14 DEF Listen, Running
<1>15. ASSUME NEW result \in {"failed", "closed"}, HttpEnds(result) PROVE OthersOK'
  BY <1>0, <1>15 DEF HttpEnds, Running
<1>16. ASSUME LoopReturns PROVE OthersOK'
  BY <1>0, <1>16 DEF LoopReturns, Running
<1>17. ASSUME Signal PROVE OthersOK'
  <2>1. UNCHANGED <<cfg, live, stdio, http, requests, loop, cause>>
    BY <1>17 DEF Signal
  <2>2. ctxDone' \in BOOLEAN /\ pc' \in {pc, "exited"} /\ exit' \in {exit, "killed"}
    BY <1>0, <1>17 DEF Signal
  <2> QED
    BY <1>0, <2>1, <2>2
<1>18. ASSUME RequestArrives PROVE OthersOK'
  BY <1>0, <1>18, Constants DEF RequestArrives, Running
<1>19. ASSUME RequestEnds PROVE OthersOK'
  BY <1>0, <1>19, Constants DEF RequestEnds, Running
<1>20. ASSUME UNCHANGED vars PROVE OthersOK'
  BY <1>0, <1>20 DEF vars
<1> HIDE DEF OthersOK, Resources
<1> QED
  BY <1>0, <1>1, <1>2, <1>3, <1>4, <1>5, <1>6, <1>7, <1>8, <1>9, <1>10, <1>11, <1>12, <1>13,
     <1>14, <1>15, <1>16, <1>17, <1>18, <1>19, <1>20
  DEF Next, run, Goroutines, Outside

-----------------------------------------------------------------------------
(* Every step keeps the invariant. *)
LEMMA InvStep == Inv /\ [Next]_vars => Inv'
<1> SUFFICES ASSUME Inv, [Next]_vars PROVE Inv'
  OBVIOUS
<1>1. TypeOK'
  <2>1. CallsOK' /\ ErrChOK' /\ OthersOK'
    BY CallsStep, ErrChStep, OthersStep
  <2> QED
    BY <2>1, TypeParts, PTL
<1> QED
  BY <1>1, ConfigStep, CauseStep, CallsStep, ResultsStep, ShutdownStep DEF Inv

(* The invariant the rest is proved from. *)
THEOREM Invariance == Spec => []Inv
BY InitInv, InvStep, PTL DEF Spec

(* The variables keep their types: in particular no call is deferred       *)
(* twice, and errCh always has room for the result of a transport, so      *)
(* neither goroutine is left blocked on it.                                *)
THEOREM TypeCorrect == Spec => []TypeOK
<1>1. Inv => TypeOK
  BY DEF Inv
<1> QED
  BY <1>1, Invariance, PTL

(* The configuration in force is the command line over the file over the   *)
(* defaults, whatever the zero values of the fields are, and watchLoop's   *)
(* one more layer of the same does not change it.                          *)
THEOREM ConfigurationIsLayered == Spec => []Layered
<1>1. Inv => Layered
  <2> SUFFICES ASSUME Inv, cfg # NoConfig
               PROVE  /\ \A f \in Fields :
                           cfg[f] = IF flags[f] # Zero[f] THEN flags[f]
                                    ELSE IF file # NoFile /\ file[f] # Zero[f] THEN file[f]
                                    ELSE Default[f]
                      /\ Merge(loadConfig(Zero), flags) = cfg
    BY DEF Layered
  <2> DEFINE lower == IF file = NoFile THEN Default ELSE Merge(Default, file)
  <2>1. /\ flags \in Settings
        /\ file \in Settings \cup {NoFile}
        /\ cfg = Merge(lower, flags)
    BY Constants DEF Inv, ConfigInv, loadConfig
  <2>2. lower \in Settings
    BY <2>1, Constants, MergeFacts
  <2>3. \A f \in Fields : lower[f] =
          IF file # NoFile /\ file[f] # Zero[f]
          THEN file[f] ELSE Default[f]
    BY <2>1, Constants, MergeFacts
  <2>4. loadConfig(Zero) = lower
    BY <2>2, Constants DEF loadConfig, Merge, Settings
  <2> HIDE DEF lower
  <2>5. \A f \in Fields : cfg[f] = IF flags[f] = Zero[f] THEN lower[f] ELSE flags[f]
    BY <2>1, <2>2, MergeFacts
  <2> QED
    BY <2>1, <2>3, <2>4, <2>5
<1> QED
  BY <1>1, Invariance, PTL

(* A run that ends because of a signal has answered every HTTP request it  *)
(* accepted, however many came in and however late the listener opened.    *)
THEOREM SignalDrains == Spec => []DrainedOnSignal
<1>1. Inv => DrainedOnSignal
  BY DEF Inv, ShutdownInv
<1> QED
  BY <1>1, Invariance, PTL

(* run has closed what it opened when it returns, at whatever step of      *)
(* start-up it failed, but for what a telemetry.Init that fails itself has *)
(* opened: then the log is closed and the signals are no longer caught.    *)
THEOREM ExitReleases == Spec => []ReleasedAtExit
<1>1. Inv => ReleasedAtExit
  BY DEF Inv, OpenInv, ReleasedAtExit
<1> QED
  BY <1>1, Invariance, PTL

(* The ErrServerClosed that Shutdown provokes never fails the run: it      *)
(* comes after a signal only, when run no longer selects.                  *)
THEOREM ClosedNeverFails == Spec => ClosedIsNotFailure
<1>1. Inv => (TransportEnded => Head(errCh) # "closed")
  <2> SUFFICES ASSUME Inv, TransportEnded PROVE Head(errCh) # "closed"
    OBVIOUS
  <2>1. cause # "signal"
    BY DEF Inv, CauseInv, TransportEnded, StartUp
  <2>2. errCh # <<>> /\ ErrChOK
    BY TypeParts DEF Inv, TransportEnded
  <2>3. 1 \in DOMAIN errCh /\ Head(errCh) = errCh[1]
    BY <2>2, CallMade DEF ErrChOK
  <2> QED
    BY <2>1, <2>3 DEF Inv, ShutdownInv
<1>2. Inv => [TransportEnded => Head(errCh) # "closed"]_vars
  BY <1>1
<1> QED
  BY <1>2, Invariance, PTL DEF ClosedIsNotFailure
=============================================================================
