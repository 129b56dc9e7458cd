--------------------------- MODULE WatcherProofs ---------------------------
(***************************************************************************)
(* Proofs about Watcher, for every set of paths, every capacity, settle    *)
(* window, number of concurrent flushes and (except for the wake-up) every *)
(* amount of time that passes inside a flush.                              *)
(***************************************************************************)
EXTENDS Watcher, TLAPS

(* Where the closing protocol stands: loop leaves its select only after    *)
(* done, and closes the outputs as its last step.                          *)
CloseInv ==
  /\ loopPc \in {"exit", "closed"} => done
  /\ ~rawOpen => done
  /\ outOpen <=> (loopPc # "closed")

(* A flush holds w.mu only while the outputs are open, visits nothing when *)
(* it does not hold it, and visits only paths that are in the map.         *)
FlushInv ==
  /\ flushing => outOpen
  /\ ~flushing => \A p \in Paths : visit[p] = "finished"
  /\ \A p \in Paths : visit[p] # "finished" => pending[p] # Absent

Inv == TypeOK /\ CloseInv /\ FlushInv

(* While no time has passed inside the flush under way: a path still to    *)
(* wait for has its deadline ahead, and one already visited and not        *)
(* refused has left a wait behind in nextSettle.                           *)
WakeInv == slip = 0 =>
  /\ nextSettle >= 0
  /\ \A p \in Paths : visit[p] = "wait" => pending[p] > 0
  /\ \A p \in Recorded :
       flushing /\ visit[p] = "finished" => p \in refused \/ nextSettle > 0

USE DEF Absent, Idle

(* The assumptions on the constants, in the form the steps use them. *)
LEMMA Constants ==
  /\ CleanPath \in [Paths -> Paths]
  /\ Settle \in Nat /\ Settle > 0
  /\ Cap \in Nat /\ Cap > 0
  /\ ErrCap \in Nat /\ MaxFlushers \in Nat /\ MaxSlip \in Nat
  /\ NoEvent \notin RawEvent
BY WatcherAssumption, NoEventAssumption

(* The arithmetic of deadlines: what Later keeps of a wait. *)
LEMMA LaterFacts ==
  ASSUME NEW t \in -1..Settle, NEW d \in Nat
  PROVE  /\ Later(t, d) \in -1..Settle
         /\ Later(t, d) = -1 <=> t = -1
         /\ t > d => Later(t, d) = t - d
BY Constants DEF Later

(* The invariant holds of a new watcher. *)
LEMMA InitInv == Init => Inv
<1> SUFFICES ASSUME Init PROVE Inv
  OBVIOUS
<1>1. TypeOK
  <2> USE Constants DEF Init, Visits
  <2>1. pending \in [Paths -> Absent..Settle] /\ visit \in [Paths -> Visits]
    OBVIOUS
  <2>2. events \in Seq(Paths) /\ Len(events) <= Cap
    OBVIOUS
  <2>3. /\ timer \in Idle..Settle /\ nextSettle \in -1..Settle
        /\ slip \in 0..MaxSlip /\ errs \in 0..ErrCap /\ flushers \in 0..MaxFlushers
    OBVIOUS
  <2> QED
    BY <2>1, <2>2, <2>3 DEF TypeOK
<1>2. CloseInv /\ FlushInv
  BY DEF Init, CloseInv, FlushInv
<1> QED
  BY <1>1, <1>2 DEF Inv

(* Type correctness of the loop steps. *)
LEMMA TypeLoop ==
  ASSUME Inv, Loop
  PROVE  TypeOK'
<1> USE Constants DEF Inv, loopVars, flushVars, outVars
<1>1. ASSUME NEW e \in RawEvent, LoopRecv(e) PROVE TypeOK'
  BY <1>1 DEF TypeOK, Visits, RawEvent, LoopRecv, shouldHandle
<1>2. ASSUME enqueue PROVE TypeOK'
  BY <1>2 DEF TypeOK, Visits, RawEvent, enqueue
<1>3. ASSUME LoopError PROVE TypeOK'
  BY <1>3 DEF TypeOK, Visits, RawEvent, LoopError
<1>4. ASSUME LoopExit PROVE TypeOK'
  BY <1>4 DEF TypeOK, Visits, RawEvent, LoopExit
<1>5. ASSUME CloseOutputs PROVE TypeOK'
  BY <1>5 DEF TypeOK, Visits, RawEvent, CloseOutputs
<1> QED
  BY <1>1, <1>2, <1>3, <1>4, <1>5 DEF Loop

(* Type correctness of the timing steps. *)
LEMMA TypeTiming ==
  ASSUME Inv, Timing
  PROVE  TypeOK'
<1> USE Constants DEF Inv, loopVars, flushVars, outVars
<1>1. ASSUME Tick PROVE TypeOK'
  <2> USE DEF TypeOK, Tick
  <2>1. timer' \in Idle..Settle
    BY <1>1, LaterFacts
  <2>2. slip' \in 0..MaxSlip
    BY <1>1
  <2>3. \A p \in Paths : Later(pending[p], 1) \in Absent..Settle
    BY LaterFacts
  <2> QED
    BY <1>1, <2>1, <2>2, <2>3
<1>2. ASSUME TimerFire PROVE TypeOK'
  BY <1>2 DEF TypeOK, Visits, RawEvent, TimerFire
<1>3. ASSUME FlushBegin PROVE TypeOK'
  BY <1>3 DEF TypeOK, Visits, RawEvent, FlushBegin
<1>4. ASSUME NEW p \in Paths, FlushSend(p) PROVE TypeOK'
  BY <1>4 DEF TypeOK, Visits, RawEvent, FlushSend
<1>5. ASSUME NEW p \in Paths, FlushFull(p) PROVE TypeOK'
  <2>1. slip \in Nat /\ Settle \in Absent..Settle
    BY DEF TypeOK
  <2>2. Later(Settle, slip) \in Absent..Settle
    BY <2>1, LaterFacts
  <2> QED
    BY <1>5, <2>2 DEF TypeOK, Visits, FlushFull
<1>6. ASSUME NEW p \in Paths, FlushWait(p) PROVE TypeOK'
  BY <1>6 DEF TypeOK, Visits, RawEvent, FlushWait
<1>7. ASSUME FlushEnd PROVE TypeOK'
  <2> USE DEF TypeOK, FlushEnd
  <2>1. timer' \in Idle..Settle
    BY <1>7
  <2>2. nextSettle' \in -1..Settle /\ slip' \in 0..MaxSlip
    BY <1>7
  <2> QED
    BY <1>7, <2>1, <2>2
<1> QED
  BY <1>1, <1>2, <1>3, <1>4, <1>5, <1>6, <1>7 DEF Timing, FlushVisit

(* Type correctness of the owner steps. *)
LEMMA TypeOwner ==
  ASSUME Inv, Owner
  PROVE  TypeOK'
<1> USE Constants DEF Inv, loopVars, flushVars, outVars
<1>1. ASSUME Receive PROVE TypeOK'
  BY <1>1 DEF TypeOK, Visits, RawEvent, Receive
<1>2. ASSUME ReceiveError PROVE TypeOK'
  BY <1>2 DEF TypeOK, Visits, RawEvent, ReceiveError
<1>3. ASSUME CloseDone PROVE TypeOK'
  BY <1>3 DEF TypeOK, Visits, RawEvent, CloseDone
<1>4. ASSUME CloseRaw PROVE TypeOK'
  BY <1>4 DEF TypeOK, Visits, RawEvent, CloseRaw
<1> QED
  BY <1>1, <1>2, <1>3, <1>4 DEF Owner

(* The closing protocol and the flush across the loop steps. *)
LEMMA CloseLoop ==
  ASSUME Inv, Loop
  PROVE  CloseInv' /\ FlushInv'
<1> USE Constants DEF Inv, loopVars, flushVars, outVars
<1>1. ASSUME NEW e \in RawEvent, LoopRecv(e) PROVE CloseInv' /\ FlushInv'
  BY <1>1 DEF TypeOK, CloseInv, FlushInv, LoopRecv, shouldHandle
<1>2. ASSUME enqueue PROVE CloseInv' /\ FlushInv'
  BY <1>2 DEF TypeOK, CloseInv, FlushInv, enqueue
<1>3. ASSUME LoopError PROVE CloseInv' /\ FlushInv'
  BY <1>3 DEF TypeOK, CloseInv, FlushInv, LoopError
<1>4. ASSUME LoopExit PROVE CloseInv' /\ FlushInv'
  BY <1>4 DEF TypeOK, CloseInv, FlushInv, LoopExit
<1>5. ASSUME CloseOutputs PROVE CloseInv' /\ FlushInv'
  BY <1>5 DEF TypeOK, CloseInv, FlushInv, CloseOutputs
<1> QED
  BY <1>1, <1>2, <1>3, <1>4, <1>5 DEF Loop

(* The closing protocol and the flush across the timing steps. *)
LEMMA CloseTiming ==
  ASSUME Inv, Timing
  PROVE  CloseInv' /\ FlushInv'
<1> USE Constants DEF Inv, loopVars, flushVars, outVars
<1>1. ASSUME Tick PROVE CloseInv' /\ FlushInv'
  BY <1>1, LaterFacts DEF TypeOK, CloseInv, FlushInv, Tick
<1>2. ASSUME TimerFire PROVE CloseInv' /\ FlushInv'
  BY <1>2 DEF TypeOK, CloseInv, FlushInv, TimerFire
<1>3. ASSUME FlushBegin PROVE CloseInv' /\ FlushInv'
  BY <1>3 DEF TypeOK, CloseInv, FlushInv, FlushBegin
<1>4. ASSUME NEW p \in Paths, FlushSend(p) PROVE CloseInv' /\ FlushInv'
  BY <1>4 DEF TypeOK, CloseInv, FlushInv, FlushSend
<1>5. ASSUME NEW p \in Paths, FlushFull(p) PROVE CloseInv' /\ FlushInv'
  <2> USE DEF TypeOK, CloseInv, FlushInv, FlushFull
  <2>1. Later(Settle, slip) # Absent
    BY LaterFacts
  <2>2. flushing
    BY <1>5
  <2> QED
    BY <1>5, <2>1, <2>2
<1>6. ASSUME NEW p \in Paths, FlushWait(p) PROVE CloseInv' /\ FlushInv'
  BY <1>6 DEF TypeOK, CloseInv, FlushInv, FlushWait
<1>7. ASSUME FlushEnd PROVE CloseInv' /\ FlushInv'
  BY <1>7 DEF TypeOK, CloseInv, FlushInv, FlushEnd
<1> QED
  BY <1>1, <1>2, <1>3, <1>4, <1>5, <1>6, <1>7 DEF Timing, FlushVisit

(* The closing protocol and the flush across the owner steps. *)
LEMMA CloseOwner ==
  ASSUME Inv, Owner
  PROVE  CloseInv' /\ FlushInv'
<1> USE Constants DEF Inv, loopVars, flushVars, outVars
<1>1. ASSUME Receive PROVE CloseInv' /\ FlushInv'
  BY <1>1 DEF TypeOK, CloseInv, FlushInv, Receive
<1>2. ASSUME ReceiveError PROVE CloseInv' /\ FlushInv'
  BY <1>2 DEF TypeOK, CloseInv, FlushInv, ReceiveError
<1>3. ASSUME CloseDone PROVE CloseInv' /\ FlushInv'
  BY <1>3 DEF TypeOK, CloseInv, FlushInv, CloseDone
<1>4. ASSUME CloseRaw PROVE CloseInv' /\ FlushInv'
  BY <1>4 DEF TypeOK, CloseInv, FlushInv, CloseRaw
<1> QED
  BY <1>1, <1>2, <1>3, <1>4 DEF Owner

(* Every step keeps the invariant. *)
LEMMA NextInv == Inv /\ [Next]_vars => Inv'
<1> SUFFICES ASSUME Inv, [Next]_vars PROVE Inv'
  OBVIOUS
<1>1. CASE Loop
  BY <1>1, TypeLoop, CloseLoop DEF Inv
<1>2. CASE Timing
  BY <1>2, TypeTiming, CloseTiming DEF Inv
<1>3. CASE Owner
  BY <1>3, TypeOwner, CloseOwner DEF Inv
<1>4. CASE UNCHANGED vars
  BY <1>4 DEF vars, loopVars, flushVars, outVars, Inv, TypeOK, CloseInv, FlushInv
<1> QED
  BY <1>1, <1>2, <1>3, <1>4 DEF Next

(* The invariant the rest is proved from. *)
THEOREM Invariance == Spec => []Inv
<1>1. Init => Inv
  BY InitInv
<1>2. Inv /\ [Next]_vars => Inv'
  BY NextInv
<1> QED
  BY <1>1, <1>2, PTL DEF Spec

(* Every variable keeps its type, whatever the interleaving. *)
THEOREM TypeCorrect == Spec => []TypeOK
<1>1. Inv => TypeOK
  BY DEF Inv
<1> QED
  BY <1>1, Invariance, PTL

(* The output channels are closed only after Close was called. *)
THEOREM OutputsCloseLast == Spec => []ClosedOnlyAfterDone
<1>1. Inv => ClosedOnlyAfterDone
  BY DEF Inv, TypeOK, CloseInv, ClosedOnlyAfterDone
<1> QED
  BY <1>1, Invariance, PTL

(* No step sends on a closed channel. *)
THEOREM SendsOnOpen == Spec => NoSendOnClosed
<1>1. Inv /\ [Next]_vars => [~outOpen => Len(events') <= Len(events)]_vars
  <2> SUFFICES ASSUME Inv, Next, ~outOpen PROVE Len(events') <= Len(events)
    OBVIOUS
  <2> USE DEF Inv, TypeOK, outVars
  <2>1. CASE Loop
    BY <2>1 DEF Loop, LoopRecv, enqueue, LoopError, LoopExit, CloseOutputs
  <2>2. CASE Timing
    <3>1. ASSUME NEW p \in Paths, FlushSend(p) PROVE FALSE
      BY <3>1 DEF FlushSend, FlushInv
    <3> QED
      BY <2>2, <3>1 DEF Timing, FlushVisit, Tick, TimerFire, FlushBegin,
                        FlushFull, FlushWait, FlushEnd
  <2>3. CASE Owner
    BY <2>3 DEF Owner, Receive, ReceiveError, CloseDone, CloseRaw
  <2> QED
    BY <2>1, <2>2, <2>3 DEF Next
<1> QED
  BY <1>1, Invariance, PTL DEF Spec, NoSendOnClosed

-----------------------------------------------------------------------------
(* The refinement: each step of the watcher is a step of the feed. *)

(* A new watcher owes nothing. *)
LEMMA FeedInitial == Init => Feed!FeedInit
BY DEF Init, Feed!FeedInit, Recorded, Armed

(* The loop's steps make a path owed, shut the feed, or stutter. *)
LEMMA FeedLoop ==
  ASSUME Inv, Loop
  PROVE  [Feed!FeedNext]_(Feed!feedVars)
<1> USE Constants DEF Inv, TypeOK, CloseInv, loopVars, flushVars, outVars, Feed!feedVars,
                      Recorded, Armed
<1>1. ASSUME enqueue PROVE Feed!FeedNext
  <2>1. current \in RawEvent
    BY <1>1 DEF enqueue
  <2>2. PICK q \in Paths : q = CleanPath[current.path]
    BY <2>1 DEF RawEvent
  <2>3. Recorded' = Recorded \cup {q}
    BY <1>1, <2>2 DEF enqueue
  <2>4. outOpen /\ events' = events /\ outOpen' = outOpen /\ Armed'
    BY <1>1 DEF enqueue
  <2>5. Feed!Note(q)
    BY <2>3, <2>4 DEF Feed!Note
  <2> QED
    BY <2>5 DEF Feed!FeedNext
<1>2. ASSUME CloseOutputs PROVE Feed!FeedNext
  BY <1>2 DEF CloseOutputs, Feed!FeedNext, Feed!Shut
<1>3. ASSUME \/ \E e \in RawEvent : LoopRecv(e)
             \/ LoopError
             \/ LoopExit
      PROVE  UNCHANGED Feed!feedVars
  BY <1>3 DEF LoopRecv, LoopError, LoopExit
<1> QED
  BY <1>1, <1>2, <1>3 DEF Loop

(* The timer and the flush announce what is owed, or stutter. *)
LEMMA FeedTiming ==
  ASSUME Inv, Timing
  PROVE  [Feed!FeedNext]_(Feed!feedVars)
<1> USE Constants DEF Inv, TypeOK, FlushInv, flushVars, outVars, Feed!feedVars, Recorded, Armed
<1>1. ASSUME NEW p \in Paths, FlushSend(p) PROVE Feed!FeedNext
  <2>1. outOpen /\ pending[p] # Absent /\ flushing /\ flushing'
    BY <1>1 DEF FlushSend
  <2>2. Recorded' = Recorded \ {p}
    BY <1>1 DEF FlushSend
  <2>3. Feed!Announce(p)
    BY <1>1, <2>1, <2>2 DEF FlushSend, Feed!Announce
  <2> QED
    BY <2>3 DEF Feed!FeedNext
<1>2. ASSUME NEW p \in Paths, FlushFull(p) PROVE UNCHANGED Feed!feedVars
  <2>1. slip \in Nat /\ Settle \in Absent..Settle
    OBVIOUS
  <2>2. Later(Settle, slip) # Absent /\ pending[p] # Absent
    BY <1>2, <2>1, LaterFacts DEF FlushFull
  <2> QED
    BY <1>2, <2>2 DEF FlushFull
<1>3. ASSUME Tick PROVE UNCHANGED Feed!feedVars
  <2>1. \A p \in Paths : Later(pending[p], 1) = Absent <=> pending[p] = Absent
    BY LaterFacts
  <2>2. Recorded' = Recorded
    BY <1>3, <2>1 DEF Tick
  <2>3. Armed' = Armed
    <3>1. timer' = Idle <=> timer = Idle
      BY <1>3, LaterFacts DEF Tick
    <3> QED
      BY <1>3, <3>1 DEF Tick
  <2> QED
    BY <1>3, <2>2, <2>3 DEF Tick
<1>4. ASSUME TimerFire \/ \E p \in Paths : FlushWait(p)
      PROVE  UNCHANGED Feed!feedVars
  BY <1>4 DEF TimerFire, FlushWait
<1>5. ASSUME FlushBegin \/ FlushEnd PROVE Feed!Strand \/ UNCHANGED Feed!feedVars
  <2>1. Armed /\ UNCHANGED <<Recorded, events, outOpen>>
    BY <1>5 DEF FlushBegin, FlushEnd
  <2>2. CASE Armed' \/ Recorded = {}
    BY <2>1, <2>2
  <2>3. CASE ~Armed' /\ Recorded # {}
    BY <2>1, <2>3 DEF Feed!Strand
  <2> QED
    BY <2>2, <2>3
<1> QED
  BY <1>1, <1>2, <1>3, <1>4, <1>5 DEF Timing, FlushVisit, Feed!FeedNext

(* The reader and Close take announcements, or stutter. *)
LEMMA FeedOwner ==
  ASSUME Inv, Owner
  PROVE  [Feed!FeedNext]_(Feed!feedVars)
<1> USE DEF flushVars, outVars, Feed!feedVars, Recorded, Armed
<1>1. ASSUME Receive PROVE Feed!FeedNext
  BY <1>1 DEF Receive, Feed!FeedNext, Feed!Take
<1>2. ASSUME ReceiveError \/ CloseDone \/ CloseRaw PROVE UNCHANGED Feed!feedVars
  BY <1>2 DEF ReceiveError, CloseDone, CloseRaw
<1> QED
  BY <1>1, <1>2 DEF Owner

(* The watcher implements the change feed. *)
THEOREM Refinement == Spec => ImplementsFeed
<1>1. Init => Feed!FeedInit
  BY FeedInitial
<1>2. Inv /\ [Next]_vars => [Feed!FeedNext]_(Feed!feedVars)
  <2>1. ASSUME UNCHANGED vars PROVE UNCHANGED Feed!feedVars
    BY <2>1 DEF vars, flushVars, outVars, Feed!feedVars, Recorded, Armed
  <2> QED
    BY <2>1, FeedLoop, FeedTiming, FeedOwner DEF Next
<1> QED
  BY <1>1, <1>2, Invariance, PTL DEF Spec, ImplementsFeed, Feed!FeedSpec

-----------------------------------------------------------------------------
(* The wake-up, of a flush during which no time passes. *)

(* A path the loop records is covered by the timer it arms. *)
LEMMA WakeLoop ==
  ASSUME Inv, WakeInv, Loop
  PROVE  WakeInv'
<1> USE Constants DEF Inv, TypeOK, WakeInv, Recorded, loopVars, flushVars, outVars
<1>1. ASSUME enqueue PROVE WakeInv'
  <2>1. \A p \in Paths : pending[p] > 0 => pending'[p] > 0
    BY <1>1 DEF enqueue, RawEvent
  <2> QED
    BY <1>1, <2>1 DEF enqueue
<1>2. ASSUME \/ \E e \in RawEvent : LoopRecv(e)
             \/ LoopError
             \/ LoopExit
             \/ CloseOutputs
      PROVE  WakeInv'
  BY <1>2 DEF LoopRecv, LoopError, LoopExit, CloseOutputs
<1> QED
  BY <1>1, <1>2 DEF Loop

(* A flush leaves a timer behind for every wait and every refused path. *)
LEMMA WakeTiming ==
  ASSUME Inv, WakeInv, Timing
  PROVE  WakeInv'
<1> USE Constants DEF Inv, TypeOK, WakeInv, Recorded, loopVars, flushVars, outVars
<1>1. ASSUME Tick PROVE WakeInv'
  <2>0. CASE flushing
    BY <1>1, <2>0 DEF Tick
  <2> SUFFICES ASSUME ~flushing PROVE WakeInv'
    BY <2>0
  <2>1. ~flushing
    OBVIOUS
  <2>2. \A p \in Paths : visit[p] = "finished"
    BY <2>1 DEF FlushInv
  <2>3. UNCHANGED <<flushing, visit, refused, nextSettle, slip>>
    BY <1>1, <2>1 DEF Tick
  <2> QED
    BY <2>1, <2>2, <2>3
<1>2. ASSUME TimerFire PROVE WakeInv'
  BY <1>2 DEF TimerFire
<1>3. ASSUME FlushBegin PROVE WakeInv'
  <2>1. \A p \in Paths : visit'[p] = "wait" => pending[p] > 0
    BY <1>3 DEF FlushBegin
  <2>2. \A p \in Recorded : flushing' => visit'[p] # "finished"
    BY <1>3 DEF FlushBegin
  <2> QED
    BY <1>3, <2>1, <2>2 DEF FlushBegin
<1>4. ASSUME NEW p \in Paths, FlushSend(p) PROVE WakeInv'
  BY <1>4 DEF FlushSend
<1>5. ASSUME NEW p \in Paths, FlushFull(p) PROVE WakeInv'
  <2>1. slip = 0 => slip \in Nat /\ Settle \in -1..Settle /\ Settle > slip
    OBVIOUS
  <2>2. slip = 0 => Later(Settle, slip) > 0
    BY <2>1, LaterFacts
  <2> QED
    BY <1>5, <2>2 DEF FlushFull
<1>6. ASSUME NEW p \in Paths, FlushWait(p) PROVE WakeInv'
  <2>1. slip = 0 => pending[p] > 0
    BY <1>6 DEF FlushWait
  <2>2. slip = 0 => nextSettle' > 0
    BY <1>6, <2>1 DEF FlushWait
  <2> QED
    BY <1>6, <2>2 DEF FlushWait
<1>7. ASSUME FlushEnd PROVE WakeInv'
  BY <1>7 DEF FlushEnd
<1> QED
  BY <1>1, <1>2, <1>3, <1>4, <1>5, <1>6, <1>7 DEF Timing, FlushVisit

(* The reader and Close leave the timer alone. *)
LEMMA WakeOwner ==
  ASSUME WakeInv, Owner
  PROVE  WakeInv'
BY DEF WakeInv, Recorded, Owner, Receive, ReceiveError, CloseDone, CloseRaw,
       loopVars, flushVars, outVars

(* WakeInv holds of every behaviour. *)
LEMMA WakeInvariance == Spec => []WakeInv
<1>1. Init => WakeInv
  BY DEF Init, WakeInv, Recorded
<1>2. Inv /\ WakeInv /\ [Next]_vars => WakeInv'
  <2> SUFFICES ASSUME Inv, WakeInv, [Next]_vars PROVE WakeInv'
    OBVIOUS
  <2>1. CASE Next
    BY <2>1, WakeLoop, WakeTiming, WakeOwner DEF Next
  <2>2. CASE UNCHANGED vars
    BY <2>2 DEF vars, loopVars, flushVars, outVars, WakeInv, Recorded
  <2> QED
    BY <2>1, <2>2
<1> QED
  BY <1>1, <1>2, Invariance, PTL DEF Spec

(* Only the end of a flush can strand a recorded change, and then the full *)
(* channel had refused it or a deadline fell inside the flush.             *)
THEOREM WakeupKept == Spec => NoLostWakeup
<1>1. Inv /\ WakeInv /\ [Next]_vars
        => [slip = 0 /\ ~Stranded /\ Stranded' => Recorded' \subseteq refused]_vars
  <2> SUFFICES ASSUME Inv, WakeInv, Next, slip = 0, ~Stranded, Stranded'
               PROVE  Recorded' \subseteq refused
    OBVIOUS
  <2> USE Constants DEF Inv, TypeOK, Stranded, Armed, Recorded, loopVars, flushVars, outVars
  <2>1. CASE Loop
    BY <2>1 DEF Loop, LoopRecv, enqueue, LoopError, LoopExit, CloseOutputs
  <2>2. CASE Owner
    BY <2>2 DEF Owner, Receive, ReceiveError, CloseDone, CloseRaw
  <2>3. ASSUME FlushEnd PROVE Recorded' \subseteq refused
    <3>1. nextSettle <= 0
      BY <2>3 DEF FlushEnd
    <3>2. flushing /\ Recorded' = Recorded /\ \A p \in Paths : visit[p] = "finished"
      BY <2>3 DEF FlushEnd
    <3> QED
      BY <3>1, <3>2 DEF WakeInv
  <2>4. ASSUME FlushVisit PROVE FALSE
    <3>1. flushing' /\ flushing
      BY <2>4 DEF FlushVisit, FlushSend, FlushFull, FlushWait, FlushInv
    <3> QED
      BY <3>1
  <2>5. ASSUME Tick PROVE FALSE
    <3>1. \A p \in Paths : pending'[p] # Absent => pending[p] # Absent
      BY <2>5, LaterFacts DEF Tick
    <3>2. timer' = Idle => timer = Idle
      BY <2>5, LaterFacts DEF Tick
    <3>3. UNCHANGED <<done, flushers, flushing>>
      BY <2>5 DEF Tick
    <3> QED
      BY <3>1, <3>2, <3>3
  <2>6. ASSUME TimerFire PROVE FALSE
    BY <2>6 DEF TimerFire
  <2>7. ASSUME FlushBegin PROVE FALSE
    <3>1. UNCHANGED <<done, pending, timer>> /\ flushing' = ~done
      BY <2>7 DEF FlushBegin
    <3> QED
      BY <3>1
  <2> QED
    BY <2>1, <2>2, <2>3, <2>4, <2>5, <2>6, <2>7 DEF Next, Timing
<1> QED
  BY <1>1, Invariance, WakeInvariance, PTL DEF Spec, NoLostWakeup

=============================================================================
