------------------------------ MODULE Watcher ------------------------------
(***************************************************************************)
(* pkg/watcher/watcher.go: fsnotify events debounced into reload events.   *)
(*                                                                         *)
(* Three kinds of goroutine share one Watcher:                             *)
(*   - loop, which selects on done, raw.Errors and raw.Events;             *)
(*   - flush, one goroutine per expiry of the time.AfterFunc timer;        *)
(*   - the owner, which drains the output channels and calls Close.        *)
(* enqueue, flush and loop's deferred closes run under w.mu.  The channels *)
(* and done are not under w.mu, so a flush is one step per path it visits: *)
(* the owner may receive, or close done, between two of them.  Time is     *)
(* relative: pending[p] is how long until p is ready, timer how long until *)
(* the timer expires, and Tick lets one unit pass.                         *)
(***************************************************************************)
EXTENDS Integers, Sequences, FiniteSets

CONSTANTS
  Paths,        \* file names as fsnotify spells them
  CleanPath,    \* filepath.Clean on those names
  Settle,       \* w.settle, in ticks
  Cap,          \* capacity of w.events (16 in the code)
  ErrCap,       \* capacity of w.errors (16 in the code)
  MaxFlushers,  \* bound: flush goroutines waiting for w.mu at once
  MaxSlip,      \* bound: ticks that may pass while one flush holds w.mu
  NoEvent       \* no raw event in hand

ASSUME WatcherAssumption ==
  /\ CleanPath \in [Paths -> Paths]
  /\ Settle \in Nat \ {0}
  /\ Cap \in Nat \ {0}
  /\ ErrCap \in Nat \ {0}
  /\ MaxFlushers \in Nat \ {0}
  /\ MaxSlip \in Nat

Ops == {"Create", "Write", "Rename", "Remove", "Chmod"}
RawEvent == [path : Paths, op : Ops]

ASSUME NoEventAssumption == NoEvent \notin RawEvent

VARIABLES
  rawOpen,    \* FALSE once raw.Close has closed raw.Events and raw.Errors
  done,       \* TRUE once w.done is closed
  loopPc,     \* where loop stands
  current,    \* the raw event loop is handling
  pending,    \* time until each path is ready, Absent when not in the map
  timer,      \* time until the timer expires, Idle when nil or expired
  flushers,   \* flush goroutines started and not yet under w.mu
  flushing,   \* TRUE while a flush holds w.mu
  visit,      \* what that flush still has to do with each path
  refused,    \* paths it put back because w.events was full
  nextSettle, \* its nextSettle
  slip,       \* ticks since it read the clock into now
  events,     \* buffered contents of w.events
  errs,       \* number of errors buffered in w.errors
  outOpen     \* FALSE once loop has closed w.events and w.errors

loopVars == <<loopPc, current>>
flushVars == <<flushing, visit, refused, nextSettle, slip>>
outVars == <<events, errs, outOpen>>
vars == <<rawOpen, done, loopVars, pending, timer, flushers, flushVars, outVars>>

Absent == -1
Idle == -1

Visits == {"send", "wait", "finished"}

TypeOK ==
  /\ rawOpen \in BOOLEAN
  /\ done \in BOOLEAN
  /\ loopPc \in {"select", "handle", "exit", "closed"}
  /\ current \in RawEvent \cup {NoEvent}
  /\ (loopPc = "handle") <=> (current # NoEvent)
  /\ pending \in [Paths -> Absent..Settle]
  /\ timer \in Idle..Settle
  /\ flushers \in 0..MaxFlushers
  /\ flushing \in BOOLEAN
  /\ visit \in [Paths -> Visits]
  /\ refused \in SUBSET Paths
  /\ nextSettle \in -1..Settle
  /\ slip \in 0..MaxSlip
  /\ events \in Seq(Paths)
  /\ Len(events) <= Cap
  /\ errs \in 0..ErrCap
  /\ outOpen \in BOOLEAN

Init ==
  /\ rawOpen = TRUE
  /\ done = FALSE
  /\ loopPc = "select"
  /\ current = NoEvent
  /\ pending = [p \in Paths |-> Absent]
  /\ timer = Idle
  /\ flushers = 0
  /\ flushing = FALSE
  /\ visit = [p \in Paths |-> "finished"]
  /\ refused = {}
  /\ nextSettle = 0
  /\ slip = 0
  /\ events = <<>>
  /\ errs = 0
  /\ outOpen = TRUE

-----------------------------------------------------------------------------
(* The loop goroutine. *)

shouldHandle(e) == e.op \in {"Write", "Create", "Rename"}

LoopRecv(e) ==
  /\ loopPc = "select"
  /\ rawOpen
  /\ shouldHandle(e)
  /\ loopPc' = "handle"
  /\ current' = e
  /\ UNCHANGED <<rawOpen, done, pending, timer, flushers, flushVars, outVars>>

(* Mutant: the timer is not restarted. *)
enqueueUnarmed ==
  /\ loopPc = "handle"
  /\ ~flushing
  /\ pending' = [pending EXCEPT ![CleanPath[current.path]] = Settle]
  /\ loopPc' = "select"
  /\ current' = NoEvent
  /\ UNCHANGED <<rawOpen, done, timer, flushers, flushVars, outVars>>

(* The path's window and the timer both start over.  A Create or Rename    *)
(* re-adds the watch first, whose state is fsnotify's and not kept here.   *)
enqueue ==
  /\ loopPc = "handle"
  /\ ~flushing
  /\ pending' = [pending EXCEPT ![CleanPath[current.path]] = Settle]
  /\ timer' = Settle
  /\ loopPc' = "select"
  /\ current' = NoEvent
  /\ UNCHANGED <<rawOpen, done, flushers, flushVars, outVars>>

(* An fsnotify error is forwarded; when w.errors is full it is dropped,    *)
(* which changes nothing.                                                  *)
LoopError ==
  /\ loopPc = "select"
  /\ rawOpen
  /\ errs < ErrCap
  /\ errs' = errs + 1
  /\ UNCHANGED <<rawOpen, done, loopVars, pending, timer, flushers, flushVars,
                 events, outOpen>>

(* Mutant: loop waits for the pending changes to be sent before it ends. *)
LoopExitDrained ==
  /\ loopPc = "select"
  /\ done \/ ~rawOpen
  /\ \A p \in Paths : pending[p] = Absent
  /\ loopPc' = "exit"
  /\ UNCHANGED <<rawOpen, done, current, pending, timer, flushers, flushVars,
                 outVars>>

LoopExit ==
  /\ loopPc = "select"
  /\ done \/ ~rawOpen
  /\ loopPc' = "exit"
  /\ UNCHANGED <<rawOpen, done, current, pending, timer, flushers, flushVars,
                 outVars>>

(* Mutant: the outputs are closed without holding w.mu. *)
CloseOutputsUnlocked ==
  /\ loopPc = "exit"
  /\ loopPc' = "closed"
  /\ outOpen' = FALSE
  /\ UNCHANGED <<rawOpen, done, current, pending, timer, flushers, flushVars,
                 events, errs>>

CloseOutputs ==
  /\ loopPc = "exit"
  /\ ~flushing
  /\ loopPc' = "closed"
  /\ outOpen' = FALSE
  /\ UNCHANGED <<rawOpen, done, current, pending, timer, flushers, flushVars,
                 events, errs>>

-----------------------------------------------------------------------------
(* Time, the timer and the flush goroutines. *)

(* What is left of a wait of t after d more ticks; a passed deadline stays *)
(* at 0, and Absent and Idle stay what they are.                           *)
Later(t, d) == IF t > d THEN t - d ELSE IF t >= 0 THEN 0 ELSE t

Tick ==
  /\ timer > 0 \/ \E p \in Paths : pending[p] > 0
  /\ IF flushing THEN slip < MaxSlip /\ slip' = slip + 1 ELSE slip' = slip
  /\ pending' = [p \in Paths |-> Later(pending[p], 1)]
  /\ timer' = Later(timer, 1)
  /\ UNCHANGED <<rawOpen, done, loopVars, flushers, flushing, visit, refused,
                 nextSettle, outVars>>

TimerFire ==
  /\ timer = 0
  /\ flushers < MaxFlushers
  /\ timer' = Idle
  /\ flushers' = flushers + 1
  /\ UNCHANGED <<rawOpen, done, loopVars, pending, flushVars, outVars>>

(* Mutant: a path is ready only after its deadline, not at it. *)
FlushBeginStrict ==
  /\ flushers > 0
  /\ ~flushing
  /\ flushers' = flushers - 1
  /\ flushing' = ~done
  /\ visit' = [p \in Paths |-> IF done \/ pending[p] = Absent THEN "finished" ELSE "wait"]
  /\ UNCHANGED <<rawOpen, done, loopVars, pending, timer, refused, nextSettle,
                 slip, outVars>>

(* flush takes w.mu, looks at done and reads the clock. *)
FlushBegin ==
  /\ flushers > 0
  /\ ~flushing
  /\ flushers' = flushers - 1
  /\ flushing' = ~done
  /\ visit' = [p \in Paths |->
                 IF done \/ pending[p] = Absent THEN "finished"
                 ELSE IF pending[p] = 0 THEN "send" ELSE "wait"]
  /\ UNCHANGED <<rawOpen, done, loopVars, pending, timer, refused, nextSettle,
                 slip, outVars>>

(* Mutants: a blocking channel without a bound; an entry that is sent but  *)
(* stays in the map.                                                       *)
FlushSendUnbounded(p) ==
  /\ visit[p] = "send"
  /\ events' = Append(events, p)
  /\ pending' = [pending EXCEPT ![p] = Absent]
  /\ visit' = [visit EXCEPT ![p] = "finished"]
  /\ UNCHANGED <<rawOpen, done, loopVars, timer, flushers, flushing, refused,
                 nextSettle, slip, errs, outOpen>>

FlushSendKeeps(p) ==
  /\ visit[p] = "send"
  /\ Len(events) < Cap
  /\ events' = Append(events, p)
  /\ visit' = [visit EXCEPT ![p] = "finished"]
  /\ UNCHANGED <<rawOpen, done, loopVars, pending, timer, flushers, flushing,
                 refused, nextSettle, slip, errs, outOpen>>

FlushSend(p) ==
  /\ visit[p] = "send"
  /\ Len(events) < Cap
  /\ events' = Append(events, p)
  /\ pending' = [pending EXCEPT ![p] = Absent]
  /\ visit' = [visit EXCEPT ![p] = "finished"]
  /\ UNCHANGED <<rawOpen, done, loopVars, timer, flushers, flushing, refused,
                 nextSettle, slip, errs, outOpen>>

(* Mutant: a blocking send, which waits while the channel is full. *)
FlushBlocks(p) == FlushSend(p)

(* The path goes back into the map that is being ranged over: the range    *)
(* may or may not produce it again, and then it is not ready.              *)
FlushFull(p) ==
  /\ visit[p] = "send"
  /\ Len(events) = Cap
  /\ pending' = [pending EXCEPT ![p] = Later(Settle, slip)]
  /\ refused' = refused \cup {p}
  /\ \E again \in {"wait", "finished"} : visit' = [visit EXCEPT ![p] = again]
  /\ UNCHANGED <<rawOpen, done, loopVars, timer, flushers, flushing,
                 nextSettle, slip, outVars>>

(* time.Until reads the clock again: the wait of a path whose deadline has *)
(* passed since now was read is zero or negative.                          *)
FlushWait(p) ==
  /\ visit[p] = "wait"
  /\ \E wait \in IF pending[p] > 0 THEN {pending[p]} ELSE {-1, 0} :
       nextSettle' = IF nextSettle = 0 \/ wait < nextSettle THEN wait ELSE nextSettle
  /\ visit' = [visit EXCEPT ![p] = "finished"]
  /\ UNCHANGED <<rawOpen, done, loopVars, pending, timer, flushers, flushing,
                 refused, slip, outVars>>

FlushEnd ==
  /\ flushing
  /\ \A p \in Paths : visit[p] = "finished"
  /\ timer' = IF nextSettle > 0 THEN nextSettle ELSE timer
  /\ flushing' = FALSE
  /\ refused' = {}
  /\ nextSettle' = 0
  /\ slip' = 0
  /\ UNCHANGED <<rawOpen, done, loopVars, pending, flushers, visit, outVars>>

-----------------------------------------------------------------------------
(* The owner of the Watcher. *)

Receive ==
  /\ events # <<>>
  /\ events' = Tail(events)
  /\ UNCHANGED <<rawOpen, done, loopVars, pending, timer, flushers, flushVars,
                 errs, outOpen>>

ReceiveError ==
  /\ errs > 0
  /\ errs' = errs - 1
  /\ UNCHANGED <<rawOpen, done, loopVars, pending, timer, flushers, flushVars,
                 events, outOpen>>

(* Close: close(w.done), then raw.Close(). *)
CloseDone ==
  /\ ~done
  /\ done' = TRUE
  /\ UNCHANGED <<rawOpen, loopVars, pending, timer, flushers, flushVars, outVars>>

CloseRaw ==
  /\ done
  /\ rawOpen
  /\ rawOpen' = FALSE
  /\ UNCHANGED <<done, loopVars, pending, timer, flushers, flushVars, outVars>>

-----------------------------------------------------------------------------
Loop ==
  \/ \E e \in RawEvent : LoopRecv(e)
  \/ enqueue
  \/ LoopError
  \/ LoopExit
  \/ CloseOutputs

FlushVisit == \E p \in Paths : FlushSend(p) \/ FlushFull(p) \/ FlushWait(p)

Timing == Tick \/ TimerFire \/ FlushBegin \/ FlushVisit \/ FlushEnd

Owner == Receive \/ ReceiveError \/ CloseDone \/ CloseRaw

Next == Loop \/ Timing \/ Owner

Spec == Init /\ [][Next]_vars

(* Goroutines that can run do run, the clock advances, and Close finishes  *)
(* what it began.  Nothing makes files change, the owner read or Close be  *)
(* called.                                                                 *)
Fairness ==
  /\ WF_vars(enqueue)
  /\ WF_vars(LoopExit)
  /\ WF_vars(CloseOutputs)
  /\ WF_vars(Tick)
  /\ WF_vars(TimerFire)
  /\ WF_vars(FlushBegin)
  /\ WF_vars(FlushVisit)
  /\ WF_vars(FlushEnd)
  /\ WF_vars(CloseRaw)

FairSpec == Spec /\ Fairness
FairOwnerSpec == FairSpec /\ WF_vars(Receive)

-----------------------------------------------------------------------------
(* The output channel closes only after done: flush's done check is enough *)
(* to keep it from ever sending on the closed channel (the comments at     *)
(* watcher.go:85 and watcher.go:141).                                      *)
ClosedOnlyAfterDone == ~outOpen => done

(* Once the output channel is closed nothing is added to it, although a    *)
(* flush may have passed its done check before Close was called: a send on *)
(* the closed channel would panic the process.                             *)
NoSendOnClosed == [][~outOpen => Len(events') <= Len(events)]_vars

Recorded == {p \in Paths : pending[p] # Absent}

(* Somebody will look at the pending map again. *)
Armed == timer # Idle \/ flushers > 0 \/ flushing

(* A change is recorded that nothing will look at again. *)
Stranded == ~done /\ ~Armed /\ Recorded # {}

(* No interleaving of enqueue, expiry and flush loses the wake-up of a     *)
(* recorded change: only a flush can strand one, and only together with    *)
(* paths the full channel refused, never a path that had to wait, unless   *)
(* the clock advanced during that flush.                                   *)
NoLostWakeup ==
  [][slip = 0 /\ ~Stranded /\ Stranded' => Recorded' \subseteq refused]_vars

Quiet == <>[](loopPc # "handle")

(* Once files stop changing, a recorded change that something still looks  *)
(* at is announced, unless the watcher is closed, or one of the flushes to *)
(* come meets a full channel or has the clock move inside it: whatever was *)
(* refused before, and whether or not somebody reads.                      *)
ChangesAnnounced ==
  Quiet => \A p \in Paths :
    p \in Recorded /\ Armed ~> p \notin Recorded \/ done \/ refused # {} \/ slip > 0

(* Close always ends with the output channels closed, although nobody      *)
(* reads them (watchLoop has stopped by then) and flush goroutines still   *)
(* compete for w.mu.                                                       *)
CloseCompletes == done ~> ~outOpen

(* watcher.go:158: a path that met a full channel is re-added to pending   *)
(* "to try again": a reader that keeps reading gets it eventually.         *)
RetriedAfterFull ==
  Quiet => \A p \in Paths : p \in Recorded ~> p \notin Recorded \/ done

-----------------------------------------------------------------------------
(* Every step of the watcher is a step of the feed it promises: only paths *)
(* with a recorded change are sent, each change once, never beyond the     *)
(* channel's capacity, never after the close, and what is stranded stays   *)
(* so until another change arms the timer.                                 *)
Feed == INSTANCE ChangeFeed WITH
  owed <- Recorded, feed <- events, open <- outOpen,
  stranded <- ~Armed /\ Recorded # {}

ImplementsFeed == Feed!FeedSpec
=============================================================================
