--------------------------- MODULE ToolCallProofs --------------------------
(***************************************************************************)
(* Proofs about ToolCall, for every set of streams, registry, recipe,      *)
(* argument map, amount of output and capacity of pipes and of the         *)
(* notification channel; then about Arguments, for every width of int64    *)
(* and of the mantissa of float64.                                         *)
(***************************************************************************)
EXTENDS ToolCall, WellFoundedInduction, TLAPS

(* The processes follow the handler: make is started once, its exit status *)
(* is known as soon as it is gone, and past "wait" it is gone and the      *)
(* watching goroutine has been stopped or has done its work.               *)
ProcessInv ==
  /\ pc \in {"lookup", "validate", "start"} => make = "none"
  /\ pc \in {"wait", "drain", "classify"} => make # "none"
  /\ make = "none" => child = "none" /\ watch = "off"
  /\ child # "alive" => holds = {}
  /\ make # "none" /\ pc # "wait" => make = "gone" /\ watch # "watching"
  /\ exit = "none" <=> make \in {"none", "alive"}
  /\ watch = "killed" => ctx # "live"

(* A copier ends only when nobody can write any more and all is captured;  *)
(* past "drain" every copier has ended; one that sends is exactly one      *)
(* chunk ahead of the session.                                             *)
CopyInv ==
  \A s \in Streams :
    /\ captured[s] <= written[s]
    /\ make = "none" <=> copier[s] = "off"
    /\ copier[s] = "ended" => captured[s] = written[s] /\ make # "alive" /\ s \notin holds
    /\ make # "none" /\ pc \in {"classify", "record", "answered"} => copier[s] = "ended"
    /\ request.streaming =>
         streamed[s] = IF copier[s] = "sending" THEN captured[s] - 1 ELSE captured[s]
    /\ copier[s] = "sending" => request.streaming

(* A result is there from the moment RunStream returns, and is never       *)
(* revised: what it was concluded from no longer changes.                  *)
ResultInv ==
  /\ result # "none" <=> pc \in {"record", "answered"}
  /\ pc # "answered" => recorded = 0
  /\ result = "success" => exit = "zero"
  /\ FailureHasCause

Inv == TypeOK /\ ProcessInv /\ CopyInv /\ ResultInv

-----------------------------------------------------------------------------
(* The assumptions on the constants, in the form the steps use them. *)
LEMMA Constants ==
  /\ Streams # {}
  /\ MaxChunks \in Nat /\ PipeCap \in Nat /\ PipeCap > 0 /\ ChanCap \in Nat /\ ChanCap > 0
BY ToolCallAssumption

(* The invariant holds when a call arrives. *)
LEMMA InitInv == Init => Inv
<1> SUFFICES ASSUME Init PROVE Inv
  OBVIOUS
<1>1. TypeOK
  BY Constants DEF Init, TypeOK, Results
<1>2. ProcessInv /\ CopyInv /\ ResultInv
  BY DEF Init, ProcessInv, CopyInv, ResultInv, FailureHasCause
<1> QED
  BY <1>1, <1>2 DEF Inv

(* Type correctness.  That the handler records once comes from ResultInv,  *)
(* the bounds of what is captured and streamed from CopyInv.               *)
LEMMA TypeStep ==
  ASSUME Inv, [Next]_vars
  PROVE  TypeOK'
<1> USE DEF Inv, TypeOK, Results, processVars, outputVars, sessionVars
<1>1. ASSUME getRecipe PROVE TypeOK'
  BY <1>1, Constants DEF getRecipe
<1>2. ASSUME buildArgs PROVE TypeOK'
  <2>1. PICK text \in Texts(request.args) :
          argv' \in {Variables(text), argv}
    BY <1>2 DEF buildArgs
  <2>2. DOMAIN text \subseteq DOMAIN Params
    BY <2>1 DEF Texts, Given
  <2>3. DOMAIN Variables(text) \subseteq {variable[Params[i].name] : i \in DOMAIN Params}
    BY <2>2 DEF Variables
  <2> QED
    BY <1>2, <2>1, <2>3, Constants DEF buildArgs
<1>3. ASSUME Start PROVE TypeOK'
  BY <1>3, Constants DEF Start
<1>4. ASSUME StartFails PROVE TypeOK'
  BY <1>4, Constants DEF StartFails
<1>5. ASSUME Reap PROVE TypeOK'
  BY <1>5, Constants DEF Reap
<1>6. ASSUME Drained PROVE TypeOK'
  BY <1>6, Constants DEF Drained
<1>7. ASSUME Classify PROVE TypeOK'
  BY <1>7, Constants DEF Classify
<1>8. ASSUME RecordMetrics PROVE TypeOK'
  BY <1>8, Constants DEF RecordMetrics, ResultInv
<1>9. ASSUME Kill PROVE TypeOK'
  BY <1>9, Constants DEF Kill
<1>10. ASSUME NEW s \in Streams, Copy(s) PROVE TypeOK'
  BY <1>10, Constants DEF Copy, CopyInv
<1>11. ASSUME NEW s \in Streams, Send(s) PROVE TypeOK'
  BY <1>11, Constants DEF Send, CopyInv
<1>12. ASSUME NEW s \in Streams, EndOfFile(s) PROVE TypeOK'
  BY <1>12, Constants DEF EndOfFile
<1>13. ASSUME Fork PROVE TypeOK'
  BY <1>13, Constants DEF Fork
<1>14. ASSUME NEW s \in Streams, Write(s) PROVE TypeOK'
  BY <1>14, Constants DEF Write
<1>15. ASSUME NEW status \in {"zero", "nonZero"}, MakeExits(status) PROVE TypeOK'
  BY <1>15, Constants DEF MakeExits
<1>16. ASSUME ChildExits PROVE TypeOK'
  BY <1>16, Constants DEF ChildExits
<1>17. ASSUME NEW why \in {"deadline", "canceled"}, EndContext(why) PROVE TypeOK'
  BY <1>17, Constants DEF EndContext
<1>18. ASSUME Deliver PROVE TypeOK'
  BY <1>18, Constants DEF Deliver
<1>19. ASSUME Disconnect PROVE TypeOK'
  <2>1. connected' \in BOOLEAN
    BY <1>19 DEF Disconnect
  <2> QED
    BY <1>19, <2>1 DEF Disconnect
<1>20. ASSUME UNCHANGED vars PROVE TypeOK'
  BY <1>20 DEF vars
<1>21. ASSUME NEW s \in Streams, Redirect(s) PROVE TypeOK'
  BY <1>21, Constants DEF Redirect
<1> HIDE DEF Inv, TypeOK, Results
<1> QED
  BY <1>1, <1>2, <1>3, <1>4, <1>5, <1>6, <1>7, <1>8, <1>9, <1>10, <1>11, <1>12, <1>13, <1>14,
     <1>15, <1>16, <1>17, <1>18, <1>19, <1>20, <1>21
  DEF Next, Handler, Goroutines, Processes, Outside

(* The processes: the context ends before make is killed, and make is gone *)
(* before the handler goes past "wait".                                    *)
LEMMA ProcessStep ==
  ASSUME Inv, [Next]_vars
  PROVE  ProcessInv'
<1> USE DEF Inv, TypeOK, ProcessInv, processVars, outputVars, sessionVars
<1>1. ASSUME getRecipe PROVE ProcessInv'
  BY <1>1 DEF getRecipe
<1>2. ASSUME buildArgs PROVE ProcessInv'
  BY <1>2 DEF buildArgs
<1>3. ASSUME Start PROVE ProcessInv'
  BY <1>3 DEF Start
<1>4. ASSUME StartFails PROVE ProcessInv'
  BY <1>4 DEF StartFails
<1>5. ASSUME Reap PROVE ProcessInv'
  BY <1>5 DEF Reap
<1>6. ASSUME Drained PROVE ProcessInv'
  BY <1>6 DEF Drained
<1>7. ASSUME Classify PROVE ProcessInv'
  BY <1>7 DEF Classify
<1>8. ASSUME RecordMetrics PROVE ProcessInv'
  BY <1>8 DEF RecordMetrics
<1>9. ASSUME Kill PROVE ProcessInv'
  BY <1>9 DEF Kill
<1>10. ASSUME NEW s \in Streams, Copy(s) PROVE ProcessInv'
  BY <1>10 DEF Copy
<1>11. ASSUME NEW s \in Streams, Send(s) PROVE ProcessInv'
  BY <1>11 DEF Send
<1>12. ASSUME NEW s \in Streams, EndOfFile(s) PROVE ProcessInv'
  BY <1>12 DEF EndOfFile
<1>13. ASSUME Fork PROVE ProcessInv'
  BY <1>13 DEF Fork
<1>14. ASSUME NEW s \in Streams, Write(s) PROVE ProcessInv'
  BY <1>14 DEF Write
<1>15. ASSUME NEW status \in {"zero", "nonZero"}, MakeExits(status) PROVE ProcessInv'
  BY <1>15 DEF MakeExits
<1>16. ASSUME ChildExits PROVE ProcessInv'
  BY <1>16 DEF ChildExits
<1>17. ASSUME NEW why \in {"deadline", "canceled"}, EndContext(why) PROVE ProcessInv'
  BY <1>17 DEF EndContext
<1>18. ASSUME Deliver PROVE ProcessInv'
  BY <1>18 DEF Deliver
<1>19. ASSUME Disconnect PROVE ProcessInv'
  BY <1>19 DEF Disconnect
<1>20. ASSUME UNCHANGED vars PROVE ProcessInv'
  BY <1>20 DEF vars
<1>21. ASSUME NEW s \in Streams, Redirect(s) PROVE ProcessInv'
  BY <1>21 DEF Redirect
<1> HIDE DEF Inv, TypeOK, ProcessInv
<1> QED
  BY <1>1, <1>2, <1>3, <1>4, <1>5, <1>6, <1>7, <1>8, <1>9, <1>10, <1>11, <1>12, <1>13, <1>14,
     <1>15, <1>16, <1>17, <1>18, <1>19, <1>20, <1>21
  DEF Next, Handler, Goroutines, Processes, Outside

(* The copiers: whoever may still write keeps them from ending, and nobody *)
(* starts to write again once they have.                                   *)
LEMMA CopyStep ==
  ASSUME Inv, [Next]_vars
  PROVE  CopyInv'
<1> USE DEF Inv, TypeOK, ProcessInv, CopyInv, processVars, outputVars, sessionVars
<1>1. ASSUME getRecipe PROVE CopyInv'
  BY <1>1 DEF getRecipe
<1>2. ASSUME buildArgs PROVE CopyInv'
  BY <1>2 DEF buildArgs
<1>3. ASSUME Start PROVE CopyInv'
  BY <1>3 DEF Start
<1>4. ASSUME StartFails PROVE CopyInv'
  BY <1>4 DEF StartFails
<1>5. ASSUME Reap PROVE CopyInv'
  BY <1>5 DEF Reap
<1>6. ASSUME Drained PROVE CopyInv'
  BY <1>6, Constants DEF Drained
<1>7. ASSUME Classify PROVE CopyInv'
  BY <1>7 DEF Classify
<1>8. ASSUME RecordMetrics PROVE CopyInv'
  BY <1>8 DEF RecordMetrics
<1>9. ASSUME Kill PROVE CopyInv'
  BY <1>9 DEF Kill
<1>10. ASSUME NEW s \in Streams, Copy(s) PROVE CopyInv'
  BY <1>10 DEF Copy
<1>11. ASSUME NEW s \in Streams, Send(s) PROVE CopyInv'
  BY <1>11 DEF Send
<1>12. ASSUME NEW s \in Streams, EndOfFile(s) PROVE CopyInv'
  BY <1>12 DEF EndOfFile
<1>13. ASSUME Fork PROVE CopyInv'
  BY <1>13 DEF Fork
<1>14. ASSUME NEW s \in Streams, Write(s) PROVE CopyInv'
  BY <1>14 DEF Write
<1>15. ASSUME NEW status \in {"zero", "nonZero"}, MakeExits(status) PROVE CopyInv'
  BY <1>15 DEF MakeExits
<1>16. ASSUME ChildExits PROVE CopyInv'
  BY <1>16 DEF ChildExits
<1>17. ASSUME NEW why \in {"deadline", "canceled"}, EndContext(why) PROVE CopyInv'
  BY <1>17 DEF EndContext
<1>18. ASSUME Deliver PROVE CopyInv'
  BY <1>18 DEF Deliver
<1>19. ASSUME Disconnect PROVE CopyInv'
  BY <1>19 DEF Disconnect
<1>20. ASSUME UNCHANGED vars PROVE CopyInv'
  BY <1>20 DEF vars
<1>21. ASSUME NEW s \in Streams, Redirect(s) PROVE CopyInv'
  BY <1>21 DEF Redirect
<1> HIDE DEF Inv, TypeOK, ProcessInv, CopyInv
<1> QED
  BY <1>1, <1>2, <1>3, <1>4, <1>5, <1>6, <1>7, <1>8, <1>9, <1>10, <1>11, <1>12, <1>13, <1>14,
     <1>15, <1>16, <1>17, <1>18, <1>19, <1>20, <1>21
  DEF Next, Handler, Goroutines, Processes, Outside

(* The result: nothing it was concluded from changes after "classify".     *)
LEMMA ResultStep ==
  ASSUME Inv, [Next]_vars
  PROVE  ResultInv'
<1> USE DEF Inv, TypeOK, ProcessInv, ResultInv, FailureHasCause, processVars, outputVars,
        sessionVars
<1>1. ASSUME getRecipe PROVE ResultInv'
  BY <1>1 DEF getRecipe
<1>2. ASSUME buildArgs PROVE ResultInv'
  BY <1>2 DEF buildArgs
<1>3. ASSUME Start PROVE ResultInv'
  BY <1>3 DEF Start
<1>4. ASSUME StartFails PROVE ResultInv'
  BY <1>4 DEF StartFails
<1>5. ASSUME Reap PROVE ResultInv'
  BY <1>5 DEF Reap
<1>6. ASSUME Drained PROVE ResultInv'
  BY <1>6 DEF Drained
<1>7. ASSUME Classify PROVE ResultInv'
  BY <1>7 DEF Classify
<1>8. ASSUME RecordMetrics PROVE ResultInv'
  BY <1>8 DEF RecordMetrics
<1>9. ASSUME Kill PROVE ResultInv'
  BY <1>9 DEF Kill
<1>10. ASSUME NEW s \in Streams, Copy(s) PROVE ResultInv'
  BY <1>10 DEF Copy
<1>11. ASSUME NEW s \in Streams, Send(s) PROVE ResultInv'
  BY <1>11 DEF Send
<1>12. ASSUME NEW s \in Streams, EndOfFile(s) PROVE ResultInv'
  BY <1>12 DEF EndOfFile
<1>13. ASSUME Fork PROVE ResultInv'
  BY <1>13 DEF Fork
<1>14. ASSUME NEW s \in Streams, Write(s) PROVE ResultInv'
  BY <1>14 DEF Write
<1>15. ASSUME NEW status \in {"zero", "nonZero"}, MakeExits(status) PROVE ResultInv'
  BY <1>15 DEF MakeExits
<1>16. ASSUME ChildExits PROVE ResultInv'
  BY <1>16 DEF ChildExits
<1>17. ASSUME NEW why \in {"deadline", "canceled"}, EndContext(why) PROVE ResultInv'
  BY <1>17 DEF EndContext
<1>18. ASSUME Deliver PROVE ResultInv'
  BY <1>18 DEF Deliver
<1>19. ASSUME Disconnect PROVE ResultInv'
  BY <1>19 DEF Disconnect
<1>20. ASSUME UNCHANGED vars PROVE ResultInv'
  BY <1>20 DEF vars
<1>21. ASSUME NEW s \in Streams, Redirect(s) PROVE ResultInv'
  BY <1>21 DEF Redirect
<1> HIDE DEF Inv, TypeOK, ProcessInv, ResultInv, FailureHasCause
<1> QED
  BY <1>1, <1>2, <1>3, <1>4, <1>5, <1>6, <1>7, <1>8, <1>9, <1>10, <1>11, <1>12, <1>13, <1>14,
     <1>15, <1>16, <1>17, <1>18, <1>19, <1>20, <1>21
  DEF Next, Handler, Goroutines, Processes, Outside

-----------------------------------------------------------------------------
(* Every step keeps the invariant. *)
LEMMA InvStep == Inv /\ [Next]_vars => Inv'
BY TypeStep, ProcessStep, CopyStep, ResultStep DEF Inv

(* The invariant the rest is proved from. *)
THEOREM Invariance == Spec => []Inv
<1> QED
  BY InitInv, InvStep, PTL DEF Spec

(* The variables keep their types: in particular the copiers never put     *)
(* more in the notification channel than it holds, and a call is counted   *)
(* at most once.                                                           *)
THEOREM TypeCorrect == Spec => []TypeOK
<1>1. Inv => TypeOK
  BY DEF Inv
<1> QED
  BY <1>1, Invariance, PTL

(* RunStream leaves nothing behind: with make gone and every copier at the *)
(* end of its pipe, no process holds a pipe.                               *)
LEMMA InvNothingLeft == Inv => NothingLeftBehind
<1> SUFFICES ASSUME Inv, pc \in {"classify", "record", "answered"}
             PROVE  /\ watch # "watching"
                    /\ \A s \in Streams : copier[s] \in {"off", "ended"}
                    /\ make # "alive" /\ holds = {}
                    /\ request.streaming => streamed = captured
  BY DEF NothingLeftBehind
<1> USE DEF Inv, TypeOK, ProcessInv, CopyInv
<1>1. \A s \in Streams : copier[s] \in {"off", "ended"}
  OBVIOUS
<1>2. watch # "watching" /\ make # "alive" /\ holds = {}
  <2>1. CASE make = "none"
    BY <2>1
  <2>2. CASE make # "none"
    BY <2>2
  <2> QED
    BY <2>1, <2>2
<1>3. ASSUME request.streaming PROVE streamed = captured
  <2>1. \A s \in Streams : streamed[s] = captured[s]
    BY <1>1, <1>3
  <2> QED
    BY <2>1
<1> QED
  BY <1>1, <1>2, <1>3

(* Once RunStream has returned, its goroutines and make are gone and no    *)
(* process holds a pipe of the call, whatever the recipe's processes do    *)
(* with the pipes they inherit, at any moment the context ends, and        *)
(* whether or not the client is still there.  A process that has           *)
(* redirected its output may be running.                                   *)
THEOREM NothingIsLeftBehind == Spec => []NothingLeftBehind
BY InvNothingLeft, Invariance, PTL

(* A success is complete: all that was written to the pipes is captured,   *)
(* and nobody is left to write more.                                       *)
THEOREM SuccessesAreComplete == Spec => []SuccessIsComplete
<1>1. Inv => SuccessIsComplete
  <2> SUFFICES ASSUME Inv, result = "success"
               PROVE  exit = "zero" /\ make = "gone" /\ holds = {} /\ captured = written
    BY DEF SuccessIsComplete
  <2>1. exit = "zero" /\ make # "none" /\ pc \in {"record", "answered"}
    BY DEF Inv, ProcessInv, ResultInv
  <2>2. make = "gone" /\ holds = {}
    BY <2>1, InvNothingLeft DEF NothingLeftBehind, Inv, TypeOK
  <2>3. \A s \in Streams : captured[s] = written[s]
    BY <2>1 DEF Inv, CopyInv
  <2>4. captured = written
    BY <2>3 DEF Inv, TypeOK
  <2> QED
    BY <2>1, <2>2, <2>4
<1> QED
  BY <1>1, Invariance, PTL

(* No failure is reported without its cause.                               *)
THEOREM FailuresHaveCauses == Spec => []FailureHasCause
<1>1. Inv => FailureHasCause
  BY DEF Inv, ResultInv
<1> QED
  BY <1>1, Invariance, PTL

(* No progress notification follows the answer: the copiers have ended or  *)
(* were never started.                                                     *)
THEOREM ProgressPrecedesAnswer == Spec => NoLateProgress
<1>1. ASSUME Inv, [Next]_vars, pc = "answered" PROVE UNCHANGED <<captured, streamed>>
  <2>1. \A s \in Streams : copier[s] \in {"off", "ended"}
    BY <1>1, InvNothingLeft DEF NothingLeftBehind
  <2>2. \A s \in Streams : ~Copy(s) /\ ~Send(s)
    BY <2>1 DEF Copy, Send
  <2>3. ~Start
    BY <1>1 DEF Start
  <2> QED
    BY <1>1, <2>2, <2>3
    DEF Next, Handler, Goroutines, Processes, Outside, vars, outputVars, processVars, sessionVars,
        getRecipe, buildArgs, StartFails, Reap, Drained, Classify, RecordMetrics, Kill, EndOfFile,
        Fork, Write, Redirect, MakeExits, ChildExits, EndContext, Deliver, Disconnect
<1>2. Inv /\ [Next]_vars => [pc = "answered" => UNCHANGED <<captured, streamed>>]_vars
  BY <1>1
<1> QED
  BY <1>2, Invariance, PTL DEF Spec, NoLateProgress

-----------------------------------------------------------------------------
(* Powers of two are taken by a recursive function on 0..n; it exists, and *)
(* its values are the same for every n.                                    *)
LEMMA Least ==
  ASSUME NEW S \in SUBSET Nat, S # {}
  PROVE  \E n \in S : \A k \in S : n <= k
<1>1. \E n \in S : \A k \in S : <<k, n>> \notin OpToRel(<, Nat)
  BY NatLessThanWellFounded, WFMin
<1>2. PICK n \in S : \A k \in S : ~(k < n)
  BY <1>1 DEF OpToRel
<1> QED
  BY <1>2

(* p is the function in which Pow2 finds its value at n. *)
IsPow(p, n) == p = [k \in 0..n |-> IF k = 0 THEN 1 ELSE 2 * p[k - 1]]

(* By the least n without one. *)
LEMMA PowExists ==
  ASSUME NEW n \in Nat
  PROVE  \E p : IsPow(p, n)
<1> DEFINE C == {m \in Nat : ~\E p : IsPow(p, m)}
<1> SUFFICES ASSUME C # {} PROVE FALSE
  OBVIOUS
<1>1. PICK m \in C : \A k \in C : m <= k
  <2>1. C \in SUBSET Nat
    OBVIOUS
  <2> HIDE DEF C
  <2> QED
    BY <2>1, Least
<1>2. m \in Nat /\ ~\E p : IsPow(p, m)
  BY <1>1
<1>3. CASE m = 0
  <2> DEFINE p == [k \in 0..0 |-> 1]
  <2>1. p = [k \in 0..0 |-> IF k = 0 THEN 1 ELSE 2 * p[k - 1]]
    OBVIOUS
  <2>2. IsPow(p, 0)
    <3> HIDE DEF p
    <3> QED
      BY <2>1 DEF IsPow
  <2> QED
    BY <1>2, <1>3, <2>2
<1>4. CASE m # 0
  <2>1. m - 1 \in Nat /\ m - 1 \notin C
    BY <1>1, <1>2, <1>4
  <2>2. PICK q : IsPow(q, m - 1)
    BY <2>1
  <2> DEFINE p == [k \in 0..m |-> IF k = m THEN 2 * q[m - 1] ELSE q[k]]
  <2>3. \A k \in 0..(m - 1) : q[k] = IF k = 0 THEN 1 ELSE 2 * q[k - 1]
    BY <2>2 DEF IsPow
  <2>4. p = [k \in 0..m |-> IF k = 0 THEN 1 ELSE 2 * p[k - 1]]
    <3>1. ASSUME NEW k \in 0..m
          PROVE  p[k] = IF k = 0 THEN 1 ELSE 2 * p[k - 1]
      <4>1. CASE k = m
        <5>1. p[k] = 2 * q[m - 1] /\ k # 0
          BY <1>4, <4>1
        <5>2. p[k - 1] = q[m - 1]
          BY <1>2, <1>4, <4>1
        <5> HIDE DEF p
        <5> QED
          BY <5>1, <5>2
      <4>2. CASE k # m
        <5>1. k \in 0..(m - 1)
          BY <1>2, <4>2
        <5>2. p[k] = q[k] /\ (k # 0 => p[k - 1] = q[k - 1])
          BY <1>2, <4>2
        <5> HIDE DEF p
        <5> QED
          BY <2>3, <5>1, <5>2
      <4> QED
        BY <4>1, <4>2
    <3> QED
      BY <3>1
  <2>5. IsPow(p, m)
    <3> HIDE DEF p
    <3> QED
      BY <2>4 DEF IsPow
  <2> QED
    BY <1>2, <2>5
<1> QED
  BY <1>3, <1>4

(* By the least k at which two of them differ. *)
LEMMA PowUnique ==
  ASSUME NEW n \in Nat, NEW m \in Nat, NEW p, IsPow(p, n), NEW q, IsPow(q, m)
  PROVE  \A k \in Nat : k <= n /\ k <= m => p[k] = q[k]
<1> DEFINE C == {k \in Nat : k <= n /\ k <= m /\ p[k] # q[k]}
<1> SUFFICES ASSUME C # {} PROVE FALSE
  OBVIOUS
<1>1. PICK k \in C : \A j \in C : k <= j
  <2>1. C \in SUBSET Nat
    OBVIOUS
  <2> HIDE DEF C
  <2> QED
    BY <2>1, Least
<1>2. k \in Nat /\ k \in 0..n /\ k \in 0..m /\ p[k] # q[k]
  BY <1>1
<1>3. /\ p[k] = IF k = 0 THEN 1 ELSE 2 * p[k - 1]
      /\ q[k] = IF k = 0 THEN 1 ELSE 2 * q[k - 1]
  BY <1>2 DEF IsPow
<1>4. k # 0
  BY <1>2, <1>3
<1>5. k - 1 \in Nat /\ k - 1 <= n /\ k - 1 <= m /\ k - 1 \notin C
  BY <1>1, <1>2, <1>4
<1>6. p[k - 1] = q[k - 1]
  BY <1>5
<1> QED
  BY <1>2, <1>3, <1>4, <1>6

(* What the recursion says. *)
LEMMA PowSteps ==
  /\ Pow2(0) = 1
  /\ \A n \in Nat : Pow2(n + 1) = 2 * Pow2(n)
<1> DEFINE P(n) == CHOOSE p : IsPow(p, n)
<1>1. \A n \in Nat : IsPow(P(n), n) /\ Pow2(n) = P(n)[n]
  BY PowExists DEF Pow2, IsPow
<1> HIDE DEF P
<1>2. Pow2(0) = 1
  BY <1>1 DEF IsPow
<1>3. ASSUME NEW n \in Nat PROVE Pow2(n + 1) = 2 * Pow2(n)
  <2>1. n + 1 \in Nat /\ n + 1 \in 0..(n + 1) /\ n + 1 # 0 /\ (n + 1) - 1 = n
    OBVIOUS
  <2>2. IsPow(P(n), n) /\ IsPow(P(n + 1), n + 1) /\ Pow2(n) = P(n)[n] /\ Pow2(n + 1) = P(n + 1)[n + 1]
    BY <1>1, <2>1
  <2>3. P(n + 1)[n + 1] = 2 * P(n + 1)[n]
    BY <2>1, <2>2 DEF IsPow
  <2>4. P(n + 1)[n] = P(n)[n]
    <3>1. n <= n /\ n <= n + 1
      OBVIOUS
    <3> QED
      BY <2>1, <2>2, <3>1, PowUnique
  <2> QED
    BY <2>2, <2>3, <2>4
<1> QED
  BY <1>2, <1>3

(* Powers of two are positive and exceed their exponents. *)
LEMMA PowNat == \A n \in Nat : Pow2(n) \in Nat /\ Pow2(n) >= 1 /\ Pow2(n) >= n
<1> DEFINE C == {n \in Nat : ~(Pow2(n) \in Nat /\ Pow2(n) >= 1 /\ Pow2(n) >= n)}
<1> SUFFICES ASSUME C # {} PROVE FALSE
  OBVIOUS
<1>1. PICK n \in C : \A k \in C : n <= k
  <2>1. C \in SUBSET Nat
    OBVIOUS
  <2> HIDE DEF C
  <2> QED
    BY <2>1, Least
<1>2. n \in Nat /\ ~(Pow2(n) \in Nat /\ Pow2(n) >= 1 /\ Pow2(n) >= n)
  BY <1>1
<1>3. n # 0
  BY <1>2, PowSteps
<1>4. n - 1 \in Nat /\ n - 1 \notin C /\ (n - 1) + 1 = n
  BY <1>1, <1>2, <1>3
<1>5. Pow2(n - 1) \in Nat /\ Pow2(n - 1) >= 1 /\ Pow2(n - 1) >= n - 1
  BY <1>4
<1>6. Pow2(n) = 2 * Pow2(n - 1)
  BY <1>4, PowSteps
<1> HIDE DEF C
<1> QED
  BY <1>2, <1>5, <1>6

(* A higher power is a multiple of a lower one. *)
LEMMA PowProduct ==
  ASSUME NEW a \in Nat
  PROVE  \A b \in Nat : Pow2(a + b) = Pow2(a) * Pow2(b)
<1> DEFINE C == {b \in Nat : Pow2(a + b) # Pow2(a) * Pow2(b)}
<1> SUFFICES ASSUME C # {} PROVE FALSE
  OBVIOUS
<1>1. PICK b \in C : \A k \in C : b <= k
  <2>1. C \in SUBSET Nat
    OBVIOUS
  <2> HIDE DEF C
  <2> QED
    BY <2>1, Least
<1>2. b \in Nat /\ Pow2(a + b) # Pow2(a) * Pow2(b) /\ Pow2(a) \in Nat
  BY <1>1, PowNat
<1>3. b # 0
  <2>1. Pow2(a + 0) = Pow2(a) * Pow2(0)
    BY <1>2, PowSteps
  <2> QED
    BY <1>2, <2>1
<1>4. b - 1 \in Nat /\ b - 1 \notin C /\ (b - 1) + 1 = b /\ (a + (b - 1)) + 1 = a + b /\ a + (b - 1) \in Nat
  BY <1>1, <1>2, <1>3
<1>5. Pow2(a + (b - 1)) = Pow2(a) * Pow2(b - 1)
  BY <1>4
<1>6. Pow2(b) = 2 * Pow2(b - 1) /\ Pow2(a + b) = 2 * Pow2(a + (b - 1)) /\ Pow2(b - 1) \in Nat
  BY <1>4, PowSteps, PowNat
<1>7. \A x, y \in Nat : 2 * (x * y) = x * (2 * y)
  OBVIOUS
<1>8. 2 * (Pow2(a) * Pow2(b - 1)) = Pow2(a) * (2 * Pow2(b - 1))
  BY <1>2, <1>6, <1>7
<1> HIDE DEF C
<1> QED
  BY <1>2, <1>5, <1>6, <1>8

(* Their order is that of the exponents, and the next is twice as large. *)
LEMMA PowMonotone ==
  ASSUME NEW a \in Nat, NEW b \in Nat
  PROVE  /\ a <= b => Pow2(a) <= Pow2(b)
         /\ Pow2(a) < Pow2(b) => a < b
         /\ a < b => 2 * Pow2(a) <= Pow2(b)
<1>1. ASSUME NEW c \in Nat, NEW d \in Nat, c <= d PROVE Pow2(c) <= Pow2(d)
  <2>1. d - c \in Nat /\ c + (d - c) = d
    BY <1>1
  <2>2. Pow2(d) = Pow2(c) * Pow2(d - c) /\ Pow2(c) \in Nat /\ Pow2(d - c) \in Nat /\ Pow2(d - c) >= 1
    BY <2>1, PowProduct, PowNat
  <2>3. \A x, y \in Nat : y >= 1 => x <= x * y
    OBVIOUS
  <2> QED
    BY <2>2, <2>3
<1>2. Pow2(a) \in Nat /\ Pow2(b) \in Nat
  BY PowNat
<1>3. a <= b => Pow2(a) <= Pow2(b)
  BY <1>1
<1>4. Pow2(a) < Pow2(b) => a < b
  <2>1. b <= a => Pow2(b) <= Pow2(a)
    BY <1>1
  <2> QED
    BY <1>2, <2>1
<1>5. ASSUME a < b PROVE 2 * Pow2(a) <= Pow2(b)
  <2>1. a + 1 \in Nat /\ a + 1 <= b
    BY <1>5
  <2>2. Pow2(a + 1) <= Pow2(b) /\ Pow2(a + 1) = 2 * Pow2(a)
    BY <1>1, <2>1, PowSteps
  <2> QED
    BY <2>2
<1> QED
  BY <1>3, <1>4, <1>5

-----------------------------------------------------------------------------
(* The distance of the float64 values at n is the least power of two with  *)
(* which the mantissa reaches n, but never finer than Tiny allows.         *)
LEMMA SpacingFacts ==
  ASSUME NEW n \in Int
  PROVE  \E k \in Nat :
           /\ k >= Tiny
           /\ Spacing(n) = Pow2(k)
           /\ Abs(n) <= Pow2(Precision + k)
           /\ \A j \in Tiny..(k - 1) : Abs(n) > Pow2(Precision + j)
<1> DEFINE S == {k \in Nat : k >= Tiny /\ Abs(n) <= Pow2(Precision + k)}
<1>1. Precision \in Nat /\ Abs(n) \in Nat /\ Tiny \in Nat
  BY ArgumentsAssumption DEF Abs
<1>2. /\ Precision + (Tiny + Abs(n)) \in Nat
      /\ Pow2(Precision + (Tiny + Abs(n))) >= Precision + (Tiny + Abs(n))
      /\ Pow2(Precision + (Tiny + Abs(n))) \in Nat
  BY <1>1, PowNat
<1>3. Tiny + Abs(n) \in S
  BY <1>1, <1>2
<1>4. PICK k \in S : \A j \in S : k <= j
  <2>1. S \in SUBSET Nat /\ S # {}
    BY <1>3
  <2> HIDE DEF S
  <2> QED
    BY <2>1, Least
<1>5. k \in Tiny..(Tiny + Abs(n)) /\ Abs(n) <= Pow2(Precision + k)
  BY <1>1, <1>3, <1>4
<1>6. ASSUME NEW j \in Tiny..(k - 1) PROVE Abs(n) > Pow2(Precision + j)
  <2>1. j \in Nat /\ j \notin S
    BY <1>1, <1>4, <1>5
  <2>2. Pow2(Precision + j) \in Nat /\ ~(Abs(n) <= Pow2(Precision + j))
    BY <1>1, <2>1, PowNat
  <2> QED
    BY <1>1, <2>2
<1> DEFINE Q(m) == /\ Abs(n) <= Pow2(Precision + m)
                   /\ \A j \in Tiny..(m - 1) : Abs(n) > Pow2(Precision + j)
           c == CHOOSE m \in Tiny..(Tiny + Abs(n)) : Q(m)
<1>7. c \in Tiny..(Tiny + Abs(n)) /\ Q(c)
  <2>1. \E m \in Tiny..(Tiny + Abs(n)) : Q(m)
    BY <1>5, <1>6
  <2> HIDE DEF Q
  <2> QED
    BY <2>1
<1>8. Spacing(n) = Pow2(c)
  BY DEF Spacing
<1> HIDE DEF c
<1> QED
  BY <1>1, <1>7, <1>8

(* Products of integers, for steps where the multiplication is not linear. *)
LEMMA Products ==
  /\ \A x, y \in Int : x * y \in Int /\ x * (y + 1) = x * y + x
  /\ \A x, y, z \in Int : x * y - x * z = x * (y - z)
  /\ \A x, y \in Int : x > 0 /\ y >= 1 => x * y >= x
  /\ \A x, y \in Int : x > 0 /\ y <= -1 => x * y <= -x
<1>1. \A x, y \in Int : x * y \in Int /\ x * (y + 1) = x * y + x
  OBVIOUS
<1>2. \A x, y, z \in Int : x * y - x * z = x * (y - z)
  OBVIOUS
<1>3. \A x, y \in Int : x > 0 /\ y >= 1 => x * y >= x
  OBVIOUS
<1>4. \A x, y \in Int : x > 0 /\ y <= -1 => x * y <= -x
  OBVIOUS
<1> QED
  BY <1>1, <1>2, <1>3, <1>4

(* Rounding goes to a multiple of the spacing, by at most half of it.      *)
LEMMA Rounds ==
  ASSUME NEW n \in Int
  PROVE  \E c \in Int :
           /\ Spacing(n) \in Nat \ {0} /\ Float(n) \in Int /\ Float(n) = Spacing(n) * c
           /\ 2 * Abs(Float(n) - n) <= Spacing(n)
<1> DEFINE s == Spacing(n)
           q == n \div s
           r == n % s
           c == IF 2 * r > s \/ (2 * r = s /\ q % 2 = 1) THEN q + 1 ELSE q
<1>1. s \in Nat /\ s >= 1
  BY SpacingFacts, PowNat
<1>2. Float(n) = s * c
  BY DEF Float
<1> HIDE DEF s
<1>3. q \in Int /\ r \in 0..(s - 1) /\ n = s * q + r
  <2>1. \A m \in Nat : m >= 1 => n \div m \in Int /\ n % m \in 0..(m - 1) /\ n = m * (n \div m) + (n % m)
    OBVIOUS
  <2> QED
    BY <1>1, <2>1
<1> HIDE DEF q, r
<1>4. c \in {q, q + 1} /\ (c = q => 2 * r <= s) /\ (c = q + 1 => 2 * r >= s)
  BY <1>1, <1>3
<1> HIDE DEF c
<1>5. c \in Int /\ s * q \in Int /\ s * (q + 1) = s * q + s
  BY <1>1, <1>3, <1>4, Products
<1> DEFINE w == s * q
<1>6. w \in Int /\ n = w + r /\ Float(n) \in {w, w + s} /\ (Float(n) = w => 2 * r <= s \/ c # q)
  BY <1>2, <1>3, <1>4, <1>5
<1>7. \/ Float(n) = w /\ 2 * r <= s
      \/ Float(n) = w + s /\ 2 * r >= s
  BY <1>2, <1>3, <1>4, <1>5
<1> HIDE DEF w
<1>8. Float(n) \in Int /\ 2 * Abs(Float(n) - n) <= s
  BY <1>1, <1>3, <1>6, <1>7 DEF Abs
<1> QED
  BY <1>1, <1>2, <1>5, <1>8 DEF s

(* A multiple of its own spacing is a float64 value.                       *)
LEMMA Exact ==
  ASSUME NEW n \in Int, NEW m \in Int, n = Spacing(n) * m
  PROVE  Float(n) = n
<1> DEFINE s == Spacing(n)
<1>1. PICK c \in Int : s \in Nat \ {0} /\ Float(n) \in Int /\ Float(n) = s * c
                       /\ 2 * Abs(Float(n) - n) <= s
  BY Rounds
<1>2. n = s * m
  OBVIOUS
<1> HIDE DEF s
<1>3. Float(n) - n = s * (c - m) /\ c - m \in Int
  BY <1>1, <1>2, Products
<1>4. CASE c = m
  BY <1>1, <1>2, <1>4
<1>5. CASE c # m
  <2>1. c - m >= 1 \/ c - m <= -1
    BY <1>5
  <2>2. Float(n) - n >= s \/ Float(n) - n <= -s
    BY <1>1, <1>3, <2>1, Products
  <2> QED
    BY <1>1, <2>2 DEF Abs
<1> QED
  BY <1>4, <1>5

-----------------------------------------------------------------------------
(* The integers are spaced by One units, and the bounds of int64 are a     *)
(* power of two of them away from zero.                                    *)
LEMMA Bounds ==
  /\ FracBits \in Nat /\ IntBits - 1 \in Nat /\ (IntBits - 1) + FracBits \in Nat
  /\ One \in Nat /\ One >= 1
  /\ Pow2(IntBits - 1) \in Nat /\ Pow2(IntBits - 1) >= 1
  /\ Pow2((IntBits - 1) + FracBits) \in Nat
  /\ MinInt \in Int /\ MaxInt \in Int /\ MinInt \in MinInt..MaxInt
  /\ One * MinInt \in Int /\ One * MaxInt \in Int
  /\ One * MinInt = -Pow2((IntBits - 1) + FracBits)
  /\ One * MaxInt = Pow2((IntBits - 1) + FracBits) - One
<1>1. IntBits - 1 \in Nat /\ FracBits \in Nat /\ (IntBits - 1) + FracBits \in Nat
  BY ArgumentsAssumption
<1> DEFINE P == Pow2(IntBits - 1)
           W == Pow2((IntBits - 1) + FracBits)
<1>2. P \in Nat /\ P >= 1 /\ One \in Nat /\ One >= 1 /\ W \in Nat
  BY <1>1, PowNat DEF One
<1>3. W = P * One
  BY <1>1, PowProduct DEF One
<1>4. MinInt = -P /\ MaxInt = P - 1
  BY DEF MinInt, MaxInt
<1> HIDE DEF P, W
<1>5. \A o, p \in Int : o * (-p) = -(p * o) /\ o * (p - 1) = p * o - o
  OBVIOUS
<1>6. One * MinInt = -W /\ One * MaxInt = W - One
  BY <1>2, <1>3, <1>4, <1>5
<1>7. MinInt \in Int /\ MaxInt \in Int /\ MinInt \in MinInt..MaxInt
  BY <1>2, <1>4
<1> QED
  BY <1>1, <1>2, <1>6, <1>7 DEF P, W

(* A power of two is a multiple of any smaller one. *)
LEMMA PowDivides ==
  ASSUME NEW a \in Nat, NEW b \in Nat, a <= b
  PROVE  \E d \in Nat : d >= 1 /\ Pow2(b) = Pow2(a) * d
<1>1. b - a \in Nat /\ a + (b - a) = b
  OBVIOUS
<1>2. Pow2(a + (b - a)) = Pow2(a) * Pow2(b - a)
  BY <1>1, PowProduct
<1> QED
  BY <1>1, <1>2, PowNat

(* A value whose spacing is not the finest lies beyond the mantissa at     *)
(* half of it, so a power of two that reaches it is a multiple of it.      *)
LEMMA SpacingDivides ==
  ASSUME NEW n \in Int, NEW k \in Nat, k >= Tiny,
         \A j \in Tiny..(k - 1) : Abs(n) > Pow2(Precision + j),
         NEW e \in Nat, e >= Tiny, Abs(n) <= Pow2(e)
  PROVE  /\ k <= e
         /\ k > Tiny => Precision + k <= e
         /\ \E d \in Nat : d >= 1 /\ Pow2(e) = Pow2(k) * d
<1>1. Precision \in Nat /\ Tiny \in Nat /\ Abs(n) \in Nat
  BY ArgumentsAssumption DEF Abs
<1>2. ASSUME k > Tiny PROVE Precision + k <= e
  <2>1. k - 1 \in Tiny..(k - 1) /\ Precision + (k - 1) \in Nat
    BY <1>1, <1>2
  <2>2. Pow2(Precision + (k - 1)) < Pow2(e)
    <3>1. Abs(n) > Pow2(Precision + (k - 1))
      BY <2>1
    <3>2. Pow2(Precision + (k - 1)) \in Nat /\ Pow2(e) \in Nat
      BY <2>1, PowNat
    <3> QED
      BY <1>1, <3>1, <3>2
  <2>3. Precision + (k - 1) < e
    BY <2>1, <2>2, PowMonotone
  <2> QED
    BY <1>1, <2>3
<1>3. k <= e
  BY <1>1, <1>2
<1> QED
  BY <1>2, <1>3, PowDivides

(* The smallest int64 is a float64 value.                                  *)
LEMMA MinIsFloat == Float(One * MinInt) = One * MinInt
<1> DEFINE n == One * MinInt
           e == (IntBits - 1) + FracBits
<1>1. n \in Int /\ n = -Pow2(e) /\ e \in Nat /\ e >= Tiny /\ Pow2(e) \in Nat
  BY Bounds, ArgumentsAssumption
<1> HIDE DEF n, e
<1>2. PICK k \in Nat : /\ k >= Tiny
                       /\ Spacing(n) = Pow2(k)
                       /\ \A j \in Tiny..(k - 1) : Abs(n) > Pow2(Precision + j)
  BY <1>1, SpacingFacts
<1>3. Abs(n) <= Pow2(e)
  BY <1>1 DEF Abs
<1>4. PICK d \in Nat : Pow2(e) = Pow2(k) * d
  BY <1>1, <1>2, <1>3, SpacingDivides
<1>5. -d \in Int /\ Pow2(k) * (-d) = -(Pow2(k) * d)
  <2>1. Pow2(k) \in Nat
    BY PowNat
  <2>2. \A x, y \in Int : x * (-y) = -(x * y)
    OBVIOUS
  <2> QED
    BY <2>1, <2>2
<1>6. Float(n) = n
  BY <1>1, <1>2, <1>4, <1>5, Exact
<1> QED
  BY <1>6 DEF n

(* Rounding does not leave the range the mantissa reaches with a spacing.  *)
LEMMA FloatReach ==
  ASSUME NEW n \in Int, NEW k \in Nat, Spacing(n) = Pow2(k), Abs(n) <= Pow2(Precision + k)
  PROVE  Abs(Float(n)) <= Pow2(Precision + k)
<1>1. Precision \in Nat /\ Abs(n) \in Nat
  BY ArgumentsAssumption DEF Abs
<1> DEFINE s == Spacing(n)
           x == Float(n)
           p == Pow2(Precision)
           w == Pow2(Precision + k)
<1>2. p \in Nat /\ s \in Nat /\ s >= 1 /\ w \in Nat
  BY <1>1, PowNat
<1>3. w = s * p
  <2>1. w = p * s
    BY <1>1, PowProduct
  <2>2. \A a, b \in Int : a * b = b * a
    OBVIOUS
  <2> QED
    BY <1>2, <2>1, <2>2
<1>4. PICK c \in Int : x \in Int /\ x = s * c /\ 2 * Abs(x - n) <= s
  BY Rounds
<1>5. Abs(n) <= w
  OBVIOUS
<1> HIDE DEF s, x, p, w
<1>6. x - w = s * (c - p) /\ c - p \in Int
  BY <1>2, <1>3, <1>4, Products
<1>7. x + w = s * (c + p) /\ c + p \in Int
  <2>1. \A a, b, d \in Int : a * b + a * d = a * (b + d)
    OBVIOUS
  <2> QED
    BY <1>2, <1>3, <1>4, <2>1
<1>8. x <= w
  <2>1. c - p >= 1 => x - w >= s
    BY <1>2, <1>6, Products
  <2>2. c - p <= 0 => x - w <= 0
    <3>1. \A a, b \in Int : a >= 0 /\ b <= 0 => a * b <= 0
      OBVIOUS
    <3> QED
      BY <1>2, <1>6, <3>1
  <2>3. x - w < s
    BY <1>2, <1>4, <1>5 DEF Abs
  <2> QED
    BY <1>2, <1>4, <1>6, <2>1, <2>2, <2>3
<1>9. x >= -w
  <2>1. c + p <= -1 => x + w <= -s
    BY <1>2, <1>7, Products
  <2>2. c + p >= 0 => x + w >= 0
    <3>1. \A a, b \in Int : a >= 0 /\ b >= 0 => a * b >= 0
      OBVIOUS
    <3> QED
      BY <1>2, <1>7, <3>1
  <2>3. x + w > -s
    BY <1>2, <1>4, <1>5 DEF Abs
  <2> QED
    BY <1>2, <1>4, <1>7, <2>1, <2>2, <2>3
<1>10. Abs(x) <= w
  BY <1>2, <1>4, <1>8, <1>9 DEF Abs
<1> QED
  BY <1>10 DEF x, w

(* Cutting the fraction of x gives the nearest integer on the side of zero. *)
LEMMA TruncFacts ==
  ASSUME NEW x \in Int
  PROVE  /\ Trunc(x) \in Int /\ One * Trunc(x) \in Int
         /\ Abs(One * Trunc(x)) <= Abs(x)
         /\ x >= 0 => One * Trunc(x) <= x /\ x < One * Trunc(x) + One
         /\ \A c \in Int : x = One * c => Trunc(x) = c
<1>1. One \in Nat /\ One >= 1
  BY Bounds
<1>2. \A m, y \in Nat : m >= 1 =>
        /\ y \div m \in Nat /\ m * (y \div m) \in Nat
        /\ m * (y \div m) <= y /\ y < m * (y \div m) + m
  OBVIOUS
<1>3. \A a, b \in Int : a * (-b) = -(a * b)
  OBVIOUS
<1>4. ASSUME NEW a \in Int, NEW b \in Int, One * a = One * b PROVE a = b
  <2>1. One * (a - b) = 0 /\ a - b \in Int
    BY <1>1, <1>4, Products
  <2>2. a - b >= 1 => One * (a - b) >= One
    BY <1>1, Products
  <2>3. a - b <= -1 => One * (a - b) <= -One
    BY <1>1, Products
  <2> QED
    BY <1>1, <2>1, <2>2, <2>3
<1>5. ASSUME NEW y \in Nat, NEW c \in Int, y = One * c PROVE y \div One = c
  <2> DEFINE q == y \div One
  <2>1. q \in Nat /\ One * q <= y /\ y < One * q + One
    BY <1>1, <1>2
  <2> HIDE DEF q
  <2>2. One * c - One * q = One * (c - q) /\ c - q \in Int
    BY <1>1, <2>1, Products
  <2>3. One * c \in Int /\ One * q \in Int
    BY <1>1, <2>1, Products
  <2>4. c - q >= 1 => One * (c - q) >= One
    BY <1>1, <2>2, Products
  <2>5. c - q <= -1 => One * (c - q) <= -One
    BY <1>1, <2>2, Products
  <2>6. c = q
    BY <1>1, <1>5, <2>1, <2>2, <2>3, <2>4, <2>5
  <2> QED
    BY <2>6 DEF q
<1>6. CASE x >= 0
  <2>1. x \in Nat /\ Trunc(x) = x \div One
    BY <1>6 DEF Trunc
  <2>2. /\ x \div One \in Nat /\ One * (x \div One) \in Nat
        /\ One * (x \div One) <= x /\ x < One * (x \div One) + One
    BY <1>1, <1>2, <2>1
  <2>3. Abs(One * Trunc(x)) <= Abs(x)
    BY <2>1, <2>2 DEF Abs
  <2> QED
    BY <1>5, <2>1, <2>2, <2>3
<1>7. CASE x < 0
  <2> DEFINE y == -x
             q == y \div One
  <2>1. y \in Nat /\ Trunc(x) = -q
    BY <1>7 DEF Trunc
  <2>2. q \in Nat /\ One * q \in Nat /\ One * q <= y
    BY <1>1, <1>2, <2>1
  <2>3. One * Trunc(x) = -(One * q)
    <3> HIDE DEF q
    <3> QED
      BY <1>1, <1>3, <2>1, <2>2
  <2>4. Trunc(x) \in Int /\ One * Trunc(x) \in Int /\ Abs(One * Trunc(x)) <= Abs(x)
    <3> HIDE DEF q
    <3> QED
      BY <1>7, <2>1, <2>2, <2>3 DEF Abs
  <2>5. ASSUME NEW c \in Int, x = One * c PROVE Trunc(x) = c
    <3>1. -c \in Int /\ y = One * (-c)
      BY <1>1, <1>3, <2>5
    <3>2. q = -c
      BY <1>5, <2>1, <3>1
    <3> QED
      BY <2>1, <3>2
  <2> QED
    BY <1>7, <2>4, <2>5
<1> QED
  BY <1>6, <1>7

(* A float64 value with its fraction cut is a float64 value.               *)
LEMMA TruncIsFloat ==
  ASSUME NEW n \in Int
  PROVE  Float(One * Trunc(Float(n))) = One * Trunc(Float(n))
<1> DEFINE x == Float(n)
           y == One * Trunc(x)
<1>1. PICK k \in Nat : /\ k >= Tiny
                       /\ Spacing(n) = Pow2(k)
                       /\ Abs(n) <= Pow2(Precision + k)
  BY SpacingFacts
<1>2. PICK c \in Int : x \in Int /\ x = Spacing(n) * c
  BY Rounds
<1>3. Trunc(x) \in Int /\ y \in Int /\ Abs(y) <= Abs(x)
      /\ \A d \in Int : x = One * d => Trunc(x) = d
  BY <1>2, TruncFacts
<1>4. Abs(y) <= Pow2(Precision + k)
  <2>1. Abs(x) <= Pow2(Precision + k)
    BY <1>1, FloatReach
  <2>2. Abs(x) \in Int /\ Abs(y) \in Int
    BY <1>2, <1>3 DEF Abs
  <2>3. Precision + k \in Nat /\ Pow2(Precision + k) \in Int
    <3>1. Precision + k \in Nat
      BY ArgumentsAssumption
    <3> QED
      BY <3>1, PowNat
  <2> QED
    BY <1>3, <2>1, <2>2, <2>3
<1>5. PICK l \in Nat : /\ l >= Tiny
                       /\ Spacing(y) = Pow2(l)
                       /\ \A j \in Tiny..(l - 1) : Abs(y) > Pow2(Precision + j)
  BY <1>3, SpacingFacts
<1>6. l <= k
  <2>1. SUFFICES ASSUME l > k PROVE FALSE
    OBVIOUS
  <2>2. k \in Tiny..(l - 1)
    BY <1>1, <1>5, <2>1, ArgumentsAssumption
  <2>3. Abs(y) > Pow2(Precision + k)
    BY <1>5, <2>2
  <2>4. Abs(y) \in Int
    BY <1>3 DEF Abs
  <2>5. Pow2(Precision + k) \in Int
    <3>1. Precision + k \in Nat
      BY ArgumentsAssumption
    <3> QED
      BY <3>1, PowNat
  <2> QED
    BY <1>4, <2>3, <2>4, <2>5
<1> HIDE DEF x
<1>7. FracBits \in Nat /\ One = Pow2(FracBits) /\ One \in Nat
  BY Bounds DEF One
<1>8. \A a, b, d \in Int : (a * b) * d = a * (b * d)
  OBVIOUS
<1>9. \E m \in Int : y = Spacing(y) * m
  <2>1. CASE l <= FracBits
    <3>1. PICK d \in Nat : One = Pow2(l) * d
      BY <1>7, <2>1, PowDivides
    <3>2. y = Pow2(l) * (d * Trunc(x)) /\ d * Trunc(x) \in Int
      BY <1>3, <1>8, <3>1, PowNat, Products
    <3> QED
      BY <1>5, <3>2
  <2>2. CASE l > FracBits
    <3>1. PICK d \in Nat : Pow2(k) = One * d
      BY <1>6, <1>7, <2>2, PowDivides
    <3>2. x = One * (d * c) /\ d * c \in Int
      BY <1>1, <1>2, <1>7, <1>8, <3>1, Products
    <3>3. y = x
      BY <1>3, <3>2
    <3>4. PICK g \in Nat : Pow2(k) = Pow2(l) * g
      BY <1>6, PowDivides
    <3>5. x = Pow2(l) * (g * c) /\ g * c \in Int
      BY <1>1, <1>2, <1>8, <3>4, PowNat, Products
    <3> QED
      BY <1>5, <3>3, <3>5
  <2> QED
    BY <1>5, <1>7, <2>1, <2>2
<1>10. Float(y) = y
  BY <1>3, <1>9, Exact
<1> QED
  BY <1>10 DEF x

(* The largest int64 is a float64 value, or rounds up to one more than it, *)
(* and then int64 is at least two bits wider than the mantissa.            *)
LEMMA MaxRoundsUp ==
  ASSUME Float(One * MaxInt) >= Pow2((IntBits - 1) + FracBits)
  PROVE  /\ Float(One * MaxInt) = Pow2((IntBits - 1) + FracBits)
         /\ (IntBits - 1) + FracBits > Precision + FracBits
<1> DEFINE n == One * MaxInt
           x == Float(n)
           s == Spacing(n)
           e == (IntBits - 1) + FracBits
           M == Pow2(e)
<1>1. n \in Int /\ n = M - One /\ M \in Nat /\ One \in Nat /\ One >= 1 /\ e \in Nat
      /\ e >= FracBits /\ FracBits \in Nat /\ FracBits >= Tiny /\ Tiny \in Nat
      /\ Precision \in Nat
  BY Bounds, ArgumentsAssumption
<1>2. x >= M
  OBVIOUS
<1> HIDE DEF n, e, M
<1>3. PICK k \in Nat : /\ k >= Tiny
                       /\ s = Pow2(k)
                       /\ \A j \in Tiny..(k - 1) : Abs(n) > Pow2(Precision + j)
  BY <1>1, SpacingFacts
<1>4. PICK c \in Int : s \in Nat \ {0} /\ x \in Int /\ x = s * c /\ 2 * Abs(x - n) <= s
  BY <1>1, Rounds
<1> HIDE DEF s, x
<1>5. s >= 2 * One /\ x - M < s
  BY <1>1, <1>2, <1>4 DEF Abs
<1>6. k > FracBits
  <2>1. s > One
    BY <1>1, <1>4, <1>5
  <2>2. Pow2(FracBits) < Pow2(k)
    BY <1>3, <2>1 DEF One
  <2> QED
    BY <1>1, <2>2, PowMonotone
<1>7. n >= 0 /\ Abs(n) <= M
  <2>1. M >= One
    <3>1. Pow2(FracBits) <= Pow2(e)
      BY <1>1, PowMonotone
    <3> QED
      BY <3>1 DEF M, One
  <2> QED
    BY <1>1, <2>1 DEF Abs
<1>8. Precision + k <= e /\ \E d \in Nat : M = Pow2(k) * d
  <2>1. Abs(n) <= Pow2(e) /\ e >= Tiny /\ k > Tiny
    BY <1>1, <1>6, <1>7 DEF M
  <2>2. n \in Int /\ e \in Nat
    BY <1>1
  <2>3. Precision + k <= e /\ \E d \in Nat : d >= 1 /\ Pow2(e) = Pow2(k) * d
    BY <1>3, <2>1, <2>2, SpacingDivides
  <2> QED
    BY <2>3 DEF M
<1>9. PICK d \in Nat : M = s * d
  BY <1>3, <1>8
<1>10. x - M = s * (c - d) /\ c - d \in Int
  BY <1>4, <1>9, Products
<1>11. c - d = 0
  <2>1. c - d >= 1 => x - M >= s
    BY <1>4, <1>10, Products
  <2>2. c - d <= -1 => x - M <= -s
    BY <1>4, <1>10, Products
  <2> QED
    BY <1>1, <1>2, <1>4, <1>5, <1>10, <2>1, <2>2
<1>12. x = M
  <2>1. c = d
    BY <1>11
  <2> QED
    BY <1>4, <1>9, <2>1
<1>13. e > Precision + FracBits
  BY <1>1, <1>6, <1>8
<1> QED
  BY <1>12, <1>13 DEF x, n, M, e

(* What Format accepts of a number is less than a rounding step away from  *)
(* it: a number that float64 does not round to an integer is refused, and  *)
(* so is one out of range, unless it rounds to what the largest int64      *)
(* rounds to.                                                              *)
LEMMA AcceptedIsNear ==
  ASSUME NEW n \in Int, NEW i \in ToInt(Float(n)), Float(One * i) = Float(n)
  PROVE  One * i \in Int /\ Abs(One * i - n) < Spacing(n)
<1>1. PICK k \in Nat : /\ k >= Tiny
                       /\ Spacing(n) = Pow2(k)
                       /\ Abs(n) <= Pow2(Precision + k)
  BY SpacingFacts
<1> DEFINE s == Spacing(n)
           x == Float(n)
           e == (IntBits - 1) + FracBits
           M == Pow2(e)
<1>2. s \in Nat \ {0} /\ x \in Int /\ 2 * Abs(x - n) <= s
  BY Rounds
<1>3. Trunc(x) \in Int /\ One * Trunc(x) \in Int
      /\ (x >= 0 => One * Trunc(x) <= x /\ x < One * Trunc(x) + One)
      /\ \A c \in Int : x = One * c => Trunc(x) = c
  BY <1>2, TruncFacts
<1>4. CASE Trunc(x) \in MinInt..MaxInt
  <2>1. i = Trunc(x)
    BY <1>4 DEF ToInt
  <2>2. One * i = x
    BY <2>1, TruncIsFloat
  <2> QED
    BY <1>2, <2>2 DEF Abs
<1>5. CASE Trunc(x) \notin MinInt..MaxInt
  <2>1. i # MinInt
    <3>1. SUFFICES ASSUME i = MinInt PROVE FALSE
      OBVIOUS
    <3>2. x = One * MinInt
      BY <3>1, MinIsFloat
    <3>3. Trunc(x) = MinInt
      BY <1>3, <3>2, Bounds
    <3> QED
      BY <1>5, <3>3, Bounds
  <2>2. i = MaxInt /\ x >= 0
    BY <1>2, <1>5, <2>1 DEF ToInt
  <2>3. /\ e \in Nat /\ M \in Nat /\ One \in Nat /\ One >= 1 /\ FracBits \in Nat
        /\ Precision \in Nat /\ One * i \in Int /\ One * i = M - One
    BY <2>2, Bounds, ArgumentsAssumption
  <2>4. x >= M
    <3>1. Trunc(x) >= MaxInt + 1
      <4>1. Trunc(x) >= 0
        <5>1. Trunc(x) <= -1 => One * Trunc(x) <= -One
          BY <1>3, <2>3, Products
        <5> QED
          BY <1>2, <1>3, <2>2, <2>3, <5>1
      <4>2. MinInt <= 0
        BY Bounds DEF MinInt
      <4> QED
        BY <1>3, <1>5, <4>1, <4>2, Bounds
    <3>2. Trunc(x) - MaxInt >= 1 /\ Trunc(x) - MaxInt \in Int
      BY <1>3, <3>1, Bounds
    <3>3. One * (Trunc(x) - MaxInt) >= One
      BY <2>3, <3>2, Products
    <3>4. One * Trunc(x) - One * MaxInt = One * (Trunc(x) - MaxInt)
      BY <1>3, <2>3, Bounds, Products
    <3>5. One * Trunc(x) >= M
      BY <1>3, <2>2, <2>3, <3>3, <3>4, Bounds
    <3> QED
      BY <1>2, <1>3, <2>2, <2>3, <3>5
  <2>5. x = M /\ e > Precision + FracBits
    BY <2>2, <2>4, MaxRoundsUp
  <2>6. 2 * Pow2(Precision + FracBits) <= M /\ Pow2(Precision + FracBits) \in Nat
        /\ Pow2(Precision + FracBits) >= One
    <3>1. 2 * Pow2(Precision + FracBits) <= M
      BY <2>3, <2>5, PowMonotone
    <3>2. Pow2(FracBits) <= Pow2(Precision + FracBits)
      BY <2>3, PowMonotone
    <3> QED
      BY <2>3, <3>1, <3>2, PowNat DEF One
  <2> HIDE DEF M
  <2>7. k > FracBits
    <3>1. SUFFICES ASSUME k <= FracBits PROVE FALSE
      BY <2>3
    <3>2. s <= One
      BY <1>1, <2>3, <3>1, PowMonotone DEF One
    <3>3. Pow2(Precision + k) <= Pow2(Precision + FracBits) /\ Pow2(Precision + k) \in Nat
      BY <2>3, <3>1, PowMonotone, PowNat
    <3>4. n <= Pow2(Precision + FracBits)
      BY <1>1, <2>6, <3>3 DEF Abs
    <3> QED
      BY <1>2, <2>3, <2>5, <2>6, <3>2, <3>4 DEF Abs
  <2>8. s >= 2 * One
    BY <1>1, <2>3, <2>7, PowMonotone DEF One
  <2>9. CASE n <= M
    BY <1>2, <2>3, <2>5, <2>8, <2>9 DEF Abs
  <2>10. CASE n > M
    <3>1. M < Pow2(Precision + k)
      <4>1. Pow2(Precision + k) \in Nat
        BY <2>3, PowNat
      <4> QED
        BY <1>1, <2>3, <2>10, <4>1 DEF Abs
    <3>2. e < Precision + k
      BY <2>3, <3>1, PowMonotone DEF M
    <3>3. FracBits + 1 \in Nat /\ FracBits + 1 < k
      BY <2>3, <2>5, <3>2
    <3>4. Pow2(FracBits + 1) = 2 * One
      BY <2>3, PowSteps DEF One
    <3>5. s >= 4 * One
      <4>1. 2 * Pow2(FracBits + 1) <= Pow2(k)
        BY <3>3, PowMonotone
      <4> QED
        BY <1>1, <1>2, <2>3, <3>4, <4>1
    <3> QED
      BY <1>2, <2>3, <2>5, <2>10, <3>5 DEF Abs
  <2> QED
    BY <2>3, <2>9, <2>10
<1> QED
  BY <1>4, <1>5

-----------------------------------------------------------------------------
(* A value that is not refused reaches make as the client sent it.         *)
LEMMA StringifiedReach ==
  ASSUME NEW v \in Value, NEW type \in {"string", "int", "bool"},
         NEW t \in stringifyValue(type, v), t # Refused
  PROVE  Reached(v, t)
<1>1. CASE (type = "string" /\ v[1] = "text") \/ (type = "bool" /\ v[1] = "truth")
  BY <1>1 DEF stringifyValue, Reached
<1>2. CASE type = "int" /\ v[1] = "number"
  <2>1. PICK i \in ToInt(Float(v[2])) : t = Format(v, i)
    BY <1>2 DEF stringifyValue
  <2>2. t = <<"number", One * i>> /\ Float(One * i) = Float(v[2])
    BY <2>1 DEF Format
  <2>3. PICK n \in Int : v = <<"number", n>>
    BY <1>2 DEF Value
  <2>4. v[2] = n /\ t[1] = "number" /\ t[2] = One * i
    BY <2>2, <2>3
  <2>5. Abs(One * i - n) < Spacing(n)
    BY <2>1, <2>2, <2>4, AcceptedIsNear
  <2> QED
    BY <1>2, <2>4, <2>5 DEF Reached
<1>3. CASE /\ ~(type = "string" /\ v[1] = "text") /\ ~(type = "bool" /\ v[1] = "truth")
           /\ ~(type = "int" /\ v[1] = "number")
  <2>1. stringifyValue(type, v) = {Refused}
    BY <1>3 DEF stringifyValue
  <2> QED
    BY <2>1
<1> QED
  BY <1>1, <1>2, <1>3

(* A set of positions has a last one. *)
LEMMA Last ==
  ASSUME NEW N \in Nat, NEW S \in SUBSET (1..N), S # {}
  PROVE  \E j \in S : \A i \in S : i <= j
<1> DEFINE D == {N - i : i \in S}
<1>1. D \in SUBSET Nat /\ D # {}
  <2>1. \A i \in S : N - i \in Nat
    OBVIOUS
  <2>2. D \in SUBSET Nat
    BY <2>1
  <2>3. PICK i \in S : TRUE
    OBVIOUS
  <2>4. N - i \in D
    BY <2>3
  <2> QED
    BY <2>2, <2>4
<1>2. PICK d \in D : \A e \in D : d <= e
  <2> HIDE DEF D
  <2> QED
    BY <1>1, Least
<1>3. PICK j \in S : d = N - j
  BY <1>2
<1>4. ASSUME NEW i \in S PROVE i <= j
  <2>1. N - i \in D
    OBVIOUS
  <2> HIDE DEF D
  <2>2. N - j <= N - i
    BY <1>2, <1>3, <2>1
  <2> QED
    BY <2>2
<1> QED
  BY <1>4

(* A variable is set to the text of a parameter it is the variable of.     *)
LEMMA VariableIsText ==
  ASSUME NEW text, DOMAIN text \subseteq DOMAIN Params, NEW i \in DOMAIN text
  PROVE  \E j \in DOMAIN text :
           /\ variable[Params[j].name] = variable[Params[i].name]
           /\ Variables(text)[variable[Params[i].name]] = text[j]
<1> DEFINE x == variable[Params[i].name]
           S == {j \in DOMAIN text : variable[Params[j].name] = x}
           Is(j) == /\ variable[Params[j].name] = x
                    /\ \A k \in DOMAIN text : variable[Params[k].name] = x => k <= j
           c == CHOOSE j \in DOMAIN text : Is(j)
<1>1. Len(Params) \in Nat /\ DOMAIN Params = 1..Len(Params)
  BY ArgumentsAssumption
<1>2. S \in SUBSET (1..Len(Params)) /\ i \in S
  BY <1>1
<1>3. \E j \in S : \A k \in S : k <= j
  <2>1. S # {}
    BY <1>2
  <2> HIDE DEF S
  <2> QED
    BY <1>1, <1>2, <2>1, Last
<1>4. \E j \in DOMAIN text : Is(j)
  BY <1>3
<1>5. c \in DOMAIN text /\ Is(c)
  <2> HIDE DEF Is
  <2> QED
    BY <1>4
<1>6. Variables(text)[x] = text[c]
  BY DEF Variables
<1> QED
  BY <1>5, <1>6

(* Every argument of the call has reached the variables of make.           *)
Arrived ==
  \A i \in Given(request.args) :
    \E j \in Given(request.args) :
      /\ variable[Params[j].name] = variable[Params[i].name]
      /\ Reached(request.args[Params[j].name], argv[variable[Params[i].name]])

(* From the moment the arguments are accepted they do not change.          *)
ArgumentsInv == pc = "start" \/ make # "none" => Arrived

(* Accepted arguments arrive: each text is what stringifyValue makes of    *)
(* its value, and none of them is a refusal.                               *)
LEMMA AcceptedArrive ==
  ASSUME request.args \in ArgumentMaps,
         NEW text \in Texts(request.args), \A i \in DOMAIN text : text[i] # Refused,
         argv' = Variables(text), request' = request
  PROVE  Arrived'
<1>1. DOMAIN text = Given(request.args)
  BY DEF Texts
<1>2. Given(request.args) \subseteq DOMAIN Params
  BY DEF Given
<1>3. ASSUME NEW j \in Given(request.args)
      PROVE  Reached(request.args[Params[j].name], text[j])
  <2>1. text[j] \in stringifyValue(Params[j].type, request.args[Params[j].name])
    BY DEF Texts
  <2>2. Params[j].type \in {"string", "int", "bool"}
    <3>1. j \in DOMAIN Params
      BY <1>2
    <3> DEFINE R == [name : DOMAIN variable, type : {"string", "int", "bool"}]
    <3>2. Params \in Seq(R)
      BY ArgumentsAssumption
    <3>3. Params[j] \in R
      <4> HIDE DEF R
      <4> QED
        BY ONLY <3>1, <3>2
    <3> QED
      BY <3>3
  <2>3. request.args[Params[j].name] \in Value
    BY ToolCallAssumption DEF Given
  <2>4. text[j] # Refused
    BY <1>1
  <2> QED
    BY <2>1, <2>2, <2>3, <2>4, StringifiedReach
<1>4. ASSUME NEW i \in Given(request.args)
      PROVE  \E j \in Given(request.args) :
               /\ variable[Params[j].name] = variable[Params[i].name]
               /\ Reached(request.args[Params[j].name], argv'[variable[Params[i].name]])
  <2>1. PICK j \in DOMAIN text :
          /\ variable[Params[j].name] = variable[Params[i].name]
          /\ Variables(text)[variable[Params[i].name]] = text[j]
    BY <1>1, <1>2, VariableIsText
  <2> QED
    BY <1>1, <1>3, <2>1
<1> QED
  BY <1>4 DEF Arrived

(* Arguments and variables are set once, by the step that accepts them. *)
LEMMA ArgumentsStep ==
  ASSUME Inv, ArgumentsInv, [Next]_vars
  PROVE  ArgumentsInv'
<1>1. CASE buildArgs
  <2>1. make' = "none" /\ request' = request
    BY <1>1 DEF buildArgs, processVars, Inv, ProcessInv
  <2>2. SUFFICES ASSUME pc' = "start" PROVE Arrived'
    BY <2>1 DEF ArgumentsInv
  <2>3. PICK text \in Texts(request.args) :
          (\A i \in DOMAIN text : text[i] # Refused) /\ argv' = Variables(text)
    BY <1>1, <2>2 DEF buildArgs
  <2>4. request.args \in ArgumentMaps
    BY DEF Inv, TypeOK
  <2> QED
    BY <2>1, <2>3, <2>4, AcceptedArrive
<1>2. CASE ~buildArgs
  <2>1. /\ UNCHANGED <<request, argv>>
        /\ pc' = "start" \/ make' # "none" => pc = "start" \/ make # "none"
    BY <1>2
    DEF Inv, ProcessInv, Next, Handler, Goroutines, Processes, Outside, vars, outputVars,
        processVars, sessionVars, getRecipe, Start, StartFails, Reap, Drained, Classify,
        RecordMetrics, Kill, Copy, Send, EndOfFile, Fork, Redirect, Write, MakeExits, ChildExits,
        EndContext, Deliver, Disconnect
  <2>2. Arrived => Arrived'
    BY <2>1 DEF Arrived
  <2> QED
    BY <2>1, <2>2 DEF ArgumentsInv
<1> QED
  BY <1>1, <1>2

(* make is given every argument of an accepted call as the client sent it, *)
(* or that of another parameter which comes to the same variable: for      *)
(* every width of the integers and of the floats they are decoded into, no *)
(* type is converted, a number float64 can hold arrives as it is or is     *)
(* refused when it has a fraction, and one it cannot hold, whether for its *)
(* size or for its fraction, is off by less than one rounding step.        *)
THEOREM ArgumentsReachMake == Spec => []ArgumentsArrive
<1>1. Init => ArgumentsInv
  BY DEF Init, ArgumentsInv
<1>2. Inv /\ ArgumentsInv /\ [Next]_vars => ArgumentsInv'
  BY ArgumentsStep
<1>3. ArgumentsInv => ArgumentsArrive
  BY DEF ArgumentsInv, Arrived, ArgumentsArrive
<1> QED
  BY <1>1, <1>2, <1>3, Invariance, PTL DEF Spec
=============================================================================
