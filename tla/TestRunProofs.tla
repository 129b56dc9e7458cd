---------------------------- MODULE TestRunProofs ---------------------------
(***************************************************************************)
(* Proofs about a test binary, for any set of tests and any profile: that  *)
(* nothing stays behind when it exits, and that its exit status is the     *)
(* tests' and the coverage's.  The second needs that sums over the files   *)
(* of a profile are sums over its blocks, and so begins with the laws of   *)
(* SumOver, each by induction over the subsets of a finite set.            *)
(***************************************************************************)
EXTENDS TestRun, FiniteSetTheorems, WellFoundedInduction, TLAPS

(* The shutdown function has the providers that are open, last one last.   *)
Providers ==
  /\ pc \in {"init", "run", "report", "shutdown", "exited", "panicked"}
  /\ instruments \in BOOLEAN
  /\ pc = "init" => ~instruments
  /\ instruments =>
       /\ pc \in {"run", "report", "panicked"} => shutdown = <<"traces", "meters">>
       /\ \/ shutdown = <<"traces", "meters">> /\ traces = "open" /\ meters = "open"
          \/ shutdown = <<"traces">> /\ traces = "open" /\ meters = "shut"
          \/ shutdown = <<>> /\ traces = "shut" /\ meters = "shut"
       /\ pc = "exited" => shutdown = <<>>

(* Where the span and the duration of each test are. *)
Whereabouts ==
  /\ test \in [Tests -> {"new", "running", "passed", "failed"}]
  /\ span \in [Tests -> {"none", "open", "batched", "exported", "lost"}]
  /\ durations \subseteq Tests
  /\ pc = "init" => \A t \in Tests : test[t] = "new"
  /\ pc \in {"report", "shutdown", "exited"} => ~Running
  /\ pc = "init" => durations = {}
  /\ instruments => \A t \in Tests :
       /\ test[t] = "new" => t \notin durations
       /\ test[t] = "running" => t \notin durations /\ span[t] = "open"
       /\ test[t] \in {"passed", "failed"} => t \in durations /\ span[t] \in {"batched", "exported", "lost"}
       /\ traces = "shut" => span[t] # "batched"

(* The two results, from the step that sets each. *)
Results ==
  /\ profile \in Profiles \cup {NoProfile}
  /\ pc \in {"report", "shutdown", "exited"} =>
       rc = IF \E t \in Tests : test[t] = "failed" THEN 1 ELSE 0
  /\ pc \in {"shutdown", "exited"} => code = IF cover /\ rc = 0 /\ ~Passes THEN 1 ELSE rc

Inv == Providers /\ Whereabouts /\ Results

LEMMA InvInit == Init => Inv
BY DEF Init, Inv, Providers, Whereabouts, Results, Running

(* Every provider is dropped from the list as it is shut, the last first. *)
LEMMA ProvidersStep ==
  ASSUME Inv, [Next]_vars
  PROVE  Providers'
<1> USE DEF Inv, Providers
<1>1. CASE InitTelemetry
  BY <1>1 DEF InitTelemetry, telVars
<1>2. CASE Shutdown
  <2>1. /\ pc = "shutdown" /\ shutdown # <<>> /\ Shut(shutdown[Len(shutdown)])
        /\ shutdown' = SubSeq(shutdown, 1, Len(shutdown) - 1)
        /\ UNCHANGED <<pc, instruments>>
    BY <1>2 DEF Shutdown
  <2>2. CASE shutdown = <<"traces", "meters">>
    <3>1. Len(shutdown) = 2 /\ shutdown[2] = "meters" /\ shutdown[1] = "traces"
      BY <2>2
    <3>2. shutdown' = SubSeq(shutdown, 1, 1)
      BY <2>1, <3>1
    <3>3. SubSeq(shutdown, 1, 1) = [i \in 1..1 |-> shutdown[1]]
      BY <2>2
    <3>4. [i \in 1..1 |-> shutdown[1]] = <<"traces">>
      BY <3>1
    <3>5. shutdown[Len(shutdown)] = "meters" /\ shutdown' = <<"traces">>
      BY <3>1, <3>2, <3>3, <3>4
    <3> QED
      BY <2>1, <2>2, <3>5 DEF Shut
  <2>3. CASE shutdown = <<"traces">>
    <3>1. shutdown[Len(shutdown)] = "traces" /\ shutdown' = <<>>
      BY <2>1, <2>3
    <3> QED
      BY <2>1, <2>3, <3>1 DEF Shut
  <2>4. CASE ~instruments
    BY <2>1, <2>4
  <2> QED
    BY <2>1, <2>2, <2>3, <2>4
<1>3. CASE Exit
  BY <1>3 DEF Exit, telVars
<1>4. CASE RunReturns \/ Panic \/ reportResult
  BY <1>4 DEF RunReturns, Panic, reportResult, telVars
<1>5. ASSUME NEW t \in Tests, Start(t) \/ \E v \in {"passed", "failed"} : Cleanup(t, v)
      PROVE  Providers'
  BY <1>5 DEF Start, Cleanup, telVars
<1>6. CASE Export
  BY <1>6 DEF Export, telVars
<1>7. CASE UNCHANGED vars
  BY <1>7 DEF vars, telVars
<1> QED
  BY <1>1, <1>2, <1>3, <1>4, <1>5, <1>6, <1>7 DEF Next, RunMain

(* Sending the batch moves the spans that wait in it and no other. *)
LEMMA SendMoves ==
  ASSUME Whereabouts, Send
  PROVE  /\ span' \in [Tests -> {"none", "open", "batched", "exported", "lost"}]
         /\ \A t \in Tests : IF span[t] = "batched" THEN span'[t] \in {"exported", "lost"} ELSE span'[t] = span[t]
BY DEF Whereabouts, Send

(* A span is open while its test runs, and in the batch or gone after it.  *)
LEMMA WhereaboutsStep ==
  ASSUME Inv, [Next]_vars
  PROVE  Whereabouts'
<1> USE DEF Inv, Providers, Whereabouts, Running
<1>1. CASE InitTelemetry
  BY <1>1 DEF InitTelemetry, testVars, telVars
<1>2. CASE Shutdown
  <2>1. /\ pc = "shutdown" /\ UNCHANGED <<pc, instruments, test, durations>>
    BY <1>2 DEF Shutdown
  <2>2. CASE Send /\ traces' = "shut"
    BY <2>1, <2>2, SendMoves
  <2>3. CASE UNCHANGED <<traces, span>>
    BY <2>1, <2>3
  <2> QED
    BY <1>2, <2>2, <2>3 DEF Shutdown, Shut
<1>3. CASE Exit \/ RunReturns \/ Panic \/ reportResult
  BY <1>3 DEF Exit, RunReturns, Panic, reportResult, telVars, testVars
<1>4. ASSUME NEW t \in Tests, Start(t)
      PROVE  Whereabouts'
  <2>1. /\ pc = "run" /\ test[t] = "new"
        /\ test' = [test EXCEPT ![t] = "running"]
        /\ span' = [span EXCEPT ![t] = IF traces = "open" THEN "open" ELSE "none"]
        /\ UNCHANGED <<pc, traces, instruments, durations>>
    BY <1>4 DEF Start, telVars
  <2>2. instruments => traces = "open"
    BY <2>1
  <2> QED
    BY <2>1, <2>2
<1>5. ASSUME NEW t \in Tests, NEW v \in {"passed", "failed"}, Cleanup(t, v)
      PROVE  Whereabouts'
  <2>1. /\ test[t] = "running"
        /\ test' = [test EXCEPT ![t] = v]
        /\ span' = [span EXCEPT ![t] = IF span[t] = "open" THEN "batched" ELSE span[t]]
        /\ durations' = IF instruments THEN durations \cup {t} ELSE durations
        /\ UNCHANGED <<pc, traces, instruments>>
    BY <1>5 DEF Cleanup, telVars
  <2>2. pc \in {"run", "panicked"}
    BY <2>1
  <2>3. instruments => traces = "open"
    BY <2>2
  <2> QED
    BY <2>1, <2>2, <2>3
<1>6. CASE Export
  <2>1. Send /\ UNCHANGED <<pc, traces, instruments, test, durations>>
    BY <1>6 DEF Export, telVars
  <2> QED
    BY <2>1, SendMoves
<1>7. CASE UNCHANGED vars
  BY <1>7 DEF vars, telVars, testVars
<1> QED
  BY <1>1, <1>2, <1>3, <1>4, <1>5, <1>6, <1>7 DEF Next, RunMain

(* Nothing sets a result twice, or runs a test once m.Run has returned.    *)
LEMMA ResultsStep ==
  ASSUME Inv, [Next]_vars
  PROVE  Results'
<1> USE DEF Inv, Providers, Whereabouts, Results, Running
<1>1. Passes' <=> Passes
  <2>1. UNCHANGED <<profile, rate>>
    BY DEF Next, RunMain, InitTelemetry, RunReturns, Panic, reportResult, Shutdown, Exit,
           Start, Cleanup, Export, vars, inputVars
  <2> QED
    BY <2>1 DEF Passes, Measured
<1>2. CASE InitTelemetry \/ Panic \/ Exit \/ UNCHANGED vars
  BY <1>1, <1>2 DEF InitTelemetry, Panic, Exit, vars, inputVars, testVars
<1>3. CASE RunReturns
  BY <1>3 DEF RunReturns, inputVars, testVars
<1>4. CASE reportResult
  BY <1>1, <1>4 DEF reportResult, inputVars, testVars
<1>5. CASE Shutdown
  BY <1>1, <1>5 DEF Shutdown, inputVars
<1>6. ASSUME NEW t \in Tests, Start(t) PROVE Results'
  BY <1>1, <1>6 DEF Start, inputVars
<1>7. ASSUME NEW t \in Tests, NEW v \in {"passed", "failed"}, Cleanup(t, v) PROVE Results'
  BY <1>1, <1>7 DEF Cleanup, inputVars
<1>8. CASE Export
  BY <1>1, <1>8 DEF Export, inputVars
<1> QED
  BY <1>2, <1>3, <1>4, <1>5, <1>6, <1>7, <1>8 DEF Next, RunMain

(* The invariant, in every interleaving of the tests, the exporter and a   *)
(* shutdown any part of which may fail.                                    *)
THEOREM Invariance == Spec => []Inv
<1>1. Inv /\ [Next]_vars => Inv'
  BY ProvidersStep, WhereaboutsStep, ResultsStep DEF Inv
<1> QED
  BY InvInit, <1>1, PTL DEF Spec

(* After a complete set-up a binary that ends by itself leaves no provider *)
(* open and no span waiting, for any number of tests.                      *)
THEOREM NothingStaysBehind == Spec => []NothingUnflushed
<1>1. Inv => NothingUnflushed
  BY DEF Inv, Providers, Whereabouts, NothingUnflushed, Running
<1> QED
  BY Invariance, <1>1, PTL

(* A set of natural numbers has a least element. *)
LEMMA Least ==
  ASSUME NEW S \in SUBSET Nat, S # {}
  PROVE  \E n \in S : \A k \in S : n <= k
<1>1. \E n \in S : \A k \in S : <<k, n>> \notin OpToRel(<, Nat)
  BY NatLessThanWellFounded, WFMin
<1>2. PICK n \in S : \A k \in S : ~(k < n)
  BY <1>1 DEF OpToRel
<1> QED
  BY <1>2

(* Among finite sets there is one with as few elements as any. *)
LEMMA Smallest ==
  ASSUME NEW C, C # {}, \A S \in C : IsFiniteSet(S)
  PROVE  \E S \in C : \A T \in C : Cardinality(S) <= Cardinality(T)
<1> DEFINE N == {Cardinality(S) : S \in C}
<1>1. N \in SUBSET Nat /\ N # {}
  BY FS_CardinalityType
<1>2. PICK n \in N : \A k \in N : n <= k
  BY <1>1, Least
<1>3. PICK S \in C : n = Cardinality(S)
  BY <1>2
<1> QED
  BY <1>2, <1>3

(* An element less is a smaller set. *)
LEMMA Removed ==
  ASSUME NEW S, IsFiniteSet(S), NEW x \in S
  PROVE  /\ IsFiniteSet(S \ {x})
         /\ Cardinality(S \ {x}) < Cardinality(S)
         /\ S \ {x} \subseteq S
<1>1. Cardinality(S) \in Nat /\ IsFiniteSet(S \ {x}) /\ Cardinality(S \ {x}) = Cardinality(S) - 1
  BY FS_CardinalityType, FS_RemoveElement
<1> QED
  BY <1>1

-----------------------------------------------------------------------------
(* A sum is taken by a recursive function on the subsets; it exists, and   *)
(* its value at a set is the same whichever set it was made for.           *)
First(s) == CHOOSE x \in s : TRUE

IsSum(h, g, S) ==
  h = [s \in SUBSET S |-> IF s = {} THEN 0 ELSE g[First(s)] + h[s \ {First(s)}]]

LEMMA SumIs ==
  ASSUME NEW g, NEW S
  PROVE  SumOver(g, S) = (CHOOSE h : IsSum(h, g, S))[S]
BY DEF SumOver, MapThenSumSet, MapThenFoldSet, IsSum, First

LEMMA FirstIn ==
  ASSUME NEW s, s # {}
  PROVE  First(s) \in s
BY DEF First

LEMMA SumUnique ==
  ASSUME NEW g, NEW S, NEW T, NEW h, NEW k, IsSum(h, g, S), IsSum(k, g, T),
         NEW s, IsFiniteSet(s), s \subseteq S, s \subseteq T
  PROVE  h[s] = k[s]
<1> DEFINE C == {u \in SUBSET s : h[u] # k[u]}
<1> SUFFICES ASSUME C # {} PROVE FALSE
  OBVIOUS
<1>1. \A u \in C : IsFiniteSet(u)
  BY FS_Subset
<1>2. PICK u \in C : \A v \in C : Cardinality(u) <= Cardinality(v)
  <2> HIDE DEF C
  <2> QED
    BY <1>1, Smallest
<1>3. /\ h[u] = IF u = {} THEN 0 ELSE g[First(u)] + h[u \ {First(u)}]
      /\ k[u] = IF u = {} THEN 0 ELSE g[First(u)] + k[u \ {First(u)}]
  <2>1. u \in SUBSET S /\ u \in SUBSET T
    BY <1>2
  <2>2. h[u] = IF u = {} THEN 0 ELSE g[First(u)] + h[u \ {First(u)}]
    BY <2>1 DEF IsSum
  <2>3. k[u] = IF u = {} THEN 0 ELSE g[First(u)] + k[u \ {First(u)}]
    BY <2>1 DEF IsSum
  <2> QED
    BY <2>2, <2>3
<1>4. u # {}
  BY <1>3
<1> DEFINE v == u \ {First(u)}
<1>5. IsFiniteSet(v) /\ Cardinality(v) < Cardinality(u) /\ v \subseteq s
  BY <1>1, <1>4, FirstIn, Removed
<1>6. Cardinality(v) \in Nat /\ Cardinality(u) \in Nat
  BY <1>1, <1>5, FS_CardinalityType
<1>7. v \notin C
  <2> HIDE DEF v, C
  <2> QED
    BY <1>2, <1>5, <1>6
<1>8. h[v] = k[v]
  BY <1>5, <1>7
<1> QED
  BY <1>3, <1>8

LEMMA SumExists ==
  ASSUME NEW g, NEW Z, IsFiniteSet(Z)
  PROVE  \E h : IsSum(h, g, Z)
<1> DEFINE C == {S \in SUBSET Z : ~\E h : IsSum(h, g, S)}
<1> SUFFICES ASSUME C # {} PROVE FALSE
  OBVIOUS
<1>1. \A u \in SUBSET Z : IsFiniteSet(u)
  BY FS_Subset
<1>2. PICK S \in C : \A u \in C : Cardinality(S) <= Cardinality(u)
  <2>1. \A u \in C : IsFiniteSet(u)
    BY <1>1
  <2> HIDE DEF C
  <2> QED
    BY <2>1, Smallest
<1> DEFINE H(u) == CHOOSE h : IsSum(h, g, u)
           V(u) == H(u)[u]
           h == [s \in SUBSET S |-> IF s = {} THEN 0 ELSE g[First(s)] + V(s \ {First(s)})]
<1>3. ASSUME NEW s \in SUBSET S, s # {}
      PROVE  h[s \ {First(s)}] = V(s \ {First(s)})
  <2> DEFINE u == s \ {First(s)}
             v == u \ {First(u)}
  <2>1. First(s) \in S /\ First(s) \in s
    BY <1>3, FirstIn
  <2>2. u \in SUBSET Z /\ u \in SUBSET S /\ IsFiniteSet(S) /\ S \in SUBSET Z
    BY <1>1, <1>2
  <2>3. IsFiniteSet(u) /\ Cardinality(u) < Cardinality(S) /\ Cardinality(u) \in Nat
        /\ Cardinality(S) \in Nat
    <3>1. IsFiniteSet(S \ {First(s)}) /\ Cardinality(S \ {First(s)}) < Cardinality(S)
      BY <2>1, <2>2, Removed
    <3>2. u \in SUBSET (S \ {First(s)})
      BY <2>2
    <3>3. IsFiniteSet(u) /\ Cardinality(u) <= Cardinality(S \ {First(s)})
      BY <3>1, <3>2, FS_Subset
    <3>4. Cardinality(u) \in Nat /\ Cardinality(S) \in Nat /\ Cardinality(S \ {First(s)}) \in Nat
      BY <2>2, <3>1, <3>3, FS_CardinalityType
    <3> HIDE DEF u
    <3> QED
      BY <3>1, <3>3, <3>4
  <2>4. ASSUME NEW t, t \in SUBSET u PROVE IsSum(H(t), g, t) /\ IsFiniteSet(t)
    <3>1. t \in SUBSET Z /\ IsFiniteSet(t)
      BY <1>1, <2>2, <2>4
    <3>2. Cardinality(t) <= Cardinality(u) /\ Cardinality(t) \in Nat
      <4> HIDE DEF u
      <4> QED
        BY <2>3, <2>4, <3>1, FS_Subset, FS_CardinalityType
    <3>3. t \notin C
      <4> HIDE DEF C, u
      <4> QED
        BY <1>2, <2>3, <3>2
    <3>4. \E k : IsSum(k, g, t)
      BY <3>1, <3>3
    <3> QED
      BY <3>1, <3>4
  <2>5. u \in SUBSET u /\ IsSum(H(u), g, u)
    BY <2>4
  <2>6. V(u) = IF u = {} THEN 0 ELSE g[First(u)] + H(u)[v]
    <3> HIDE DEF H, u
    <3> QED
      BY <2>5 DEF IsSum
  <2>7. h[u] = IF u = {} THEN 0 ELSE g[First(u)] + V(v)
    <3> HIDE DEF V
    <3> QED
      BY <2>2
  <2>8. ASSUME u # {} PROVE H(u)[v] = V(v)
    <3>1. v \in SUBSET u
      OBVIOUS
    <3>2. IsSum(H(v), g, v) /\ IsFiniteSet(v)
      BY <2>4, <3>1
    <3> HIDE DEF H, u, v
    <3> QED
      BY <2>5, <3>1, <3>2, SumUnique
  <2> QED
    BY <2>6, <2>7, <2>8
<1>4. IsSum(h, g, S)
  <2>1. h = [s \in SUBSET S |-> IF s = {} THEN 0 ELSE g[First(s)] + h[s \ {First(s)}]]
    <3> HIDE DEF V
    <3> QED
      BY <1>3
  <2> HIDE DEF h
  <2> QED
    BY <2>1 DEF IsSum
<1> QED
  BY <1>2, <1>4

(* What the recursion says of the sum. *)
LEMMA SumSteps ==
  ASSUME NEW g, NEW S, IsFiniteSet(S)
  PROVE  /\ S = {} => SumOver(g, S) = 0
         /\ S # {} => SumOver(g, S) = g[First(S)] + SumOver(g, S \ {First(S)})
<1> DEFINE h == CHOOSE h : IsSum(h, g, S)
           T == S \ {First(S)}
           k == CHOOSE k : IsSum(k, g, T)
<1>1. IsSum(h, g, S)
  BY SumExists
<1>2. SumOver(g, S) = h[S]
  BY SumIs
<1>3. h[S] = IF S = {} THEN 0 ELSE g[First(S)] + h[T]
  <2> HIDE DEF h
  <2> QED
    BY <1>1 DEF IsSum
<1>4. IsFiniteSet(T) /\ T \subseteq S
  BY FS_RemoveElement
<1>5. IsSum(k, g, T) /\ SumOver(g, T) = k[T]
  <2> HIDE DEF T
  <2> QED
    BY <1>4, SumExists, SumIs
<1>6. h[T] = k[T]
  <2> HIDE DEF h, k, T
  <2> QED
    BY <1>1, <1>4, <1>5, SumUnique
<1> QED
  BY <1>2, <1>3, <1>5, <1>6

(* A subset of S for which something fails, and nothing smaller fails. *)
LEMMA Minimal ==
  ASSUME NEW Z, IsFiniteSet(Z), NEW C, C # {}, \A u \in C : u \subseteq Z
  PROVE  \E u \in C : /\ IsFiniteSet(u) /\ u \subseteq Z
                      /\ \A x \in u : u \ {x} \notin C /\ IsFiniteSet(u \ {x}) /\ u \ {x} \subseteq Z
<1>1. \A u \in C : IsFiniteSet(u)
  BY FS_Subset
<1>2. PICK u \in C : \A v \in C : Cardinality(u) <= Cardinality(v)
  BY <1>1, Smallest
<1>3. ASSUME NEW x \in u PROVE u \ {x} \notin C /\ IsFiniteSet(u \ {x})
  <2>1. IsFiniteSet(u \ {x}) /\ Cardinality(u \ {x}) < Cardinality(u)
    BY <1>1, Removed
  <2>2. Cardinality(u \ {x}) \in Nat /\ Cardinality(u) \in Nat
    BY <1>1, <2>1, FS_CardinalityType
  <2> QED
    BY <1>2, <2>1, <2>2
<1> QED
  BY <1>1, <1>2, <1>3

LEMMA SumNat ==
  ASSUME NEW S, IsFiniteSet(S), NEW g, \A i \in S : g[i] \in Nat
  PROVE  \A u \in SUBSET S : SumOver(g, u) \in Nat
<1> DEFINE C == {u \in SUBSET S : SumOver(g, u) \notin Nat}
<1> SUFFICES ASSUME C # {} PROVE FALSE
  OBVIOUS
<1>1. PICK u \in C : /\ IsFiniteSet(u) /\ u \subseteq S
                     /\ \A x \in u : u \ {x} \notin C /\ IsFiniteSet(u \ {x}) /\ u \ {x} \subseteq S
  <2>1. \A u \in C : u \subseteq S
    OBVIOUS
  <2> HIDE DEF C
  <2> QED
    BY <2>1, Minimal
<1>2. CASE u = {}
  <2>1. SumOver(g, {}) = 0
    BY FS_EmptySet, SumSteps
  <2>2. SumOver(g, u) \notin Nat
    BY <1>1
  <2> QED
    BY <1>2, <2>1, <2>2
<1>3. CASE u # {}
  <2> DEFINE x == First(u)
  <2>1. x \in u
    BY <1>3, FirstIn
  <2>2. SumOver(g, u \ {x}) \in Nat /\ g[x] \in Nat
    BY <1>1, <2>1
  <2>3. SumOver(g, u) = g[x] + SumOver(g, u \ {x})
    BY <1>1, <1>3, SumSteps
  <2> QED
    BY <1>1, <2>2, <2>3
<1> QED
  BY <1>2, <1>3

(* Any element may be the one that is taken out. *)
LEMMA SumTake ==
  ASSUME NEW S, IsFiniteSet(S), NEW g, \A i \in S : g[i] \in Nat
  PROVE  \A u \in SUBSET S : \A x \in u : SumOver(g, u) = g[x] + SumOver(g, u \ {x})
<1> DEFINE C == {u \in SUBSET S : \E x \in u : SumOver(g, u) # g[x] + SumOver(g, u \ {x})}
<1> SUFFICES ASSUME C # {} PROVE FALSE
  OBVIOUS
<1>1. PICK u \in C : /\ IsFiniteSet(u) /\ u \subseteq S
                     /\ \A x \in u : u \ {x} \notin C /\ IsFiniteSet(u \ {x}) /\ u \ {x} \subseteq S
  <2>1. \A u \in C : u \subseteq S
    OBVIOUS
  <2> HIDE DEF C
  <2> QED
    BY <2>1, Minimal
<1>2. PICK x \in u : SumOver(g, u) # g[x] + SumOver(g, u \ {x})
  BY <1>1
<1> DEFINE y == First(u)
           v == u \ {x, y}
<1>3. y \in u /\ SumOver(g, u) = g[y] + SumOver(g, u \ {y})
  BY <1>1, FirstIn, SumSteps
<1>4. x # y
  BY <1>2, <1>3
<1>5. SumOver(g, u \ {y}) = g[x] + SumOver(g, v)
  <2>1. u \ {y} \notin C /\ u \ {y} \in SUBSET S /\ x \in u \ {y} /\ (u \ {y}) \ {x} = v
    BY <1>1, <1>3, <1>4
  <2> HIDE DEF y, v
  <2> QED
    BY <2>1
<1>6. SumOver(g, u \ {x}) = g[y] + SumOver(g, v)
  <2>1. u \ {x} \notin C /\ u \ {x} \in SUBSET S /\ y \in u \ {x} /\ (u \ {x}) \ {y} = v
    BY <1>1, <1>3, <1>4
  <2> HIDE DEF y, v
  <2> QED
    BY <2>1
<1>7. g[x] \in Nat /\ g[y] \in Nat /\ SumOver(g, v) \in Nat
  <2>1. v \in SUBSET S
    BY <1>1
  <2> HIDE DEF v, y
  <2> QED
    BY <1>1, <1>2, <1>3, <2>1, SumNat
<1> HIDE DEF y, v
<1> QED
  BY <1>2, <1>3, <1>5, <1>6, <1>7

(* Of two disjoint sets. *)
LEMMA SumUnion ==
  ASSUME NEW S, IsFiniteSet(S), NEW g, \A i \in S : g[i] \in Nat,
         NEW A \in SUBSET S, NEW B \in SUBSET S, A \cap B = {}
  PROVE  SumOver(g, A \cup B) = SumOver(g, A) + SumOver(g, B)
<1> DEFINE C == {u \in SUBSET B : SumOver(g, A \cup u) # SumOver(g, A) + SumOver(g, u)}
<1> SUFFICES ASSUME C # {} PROVE FALSE
  OBVIOUS
<1>0. IsFiniteSet(B) /\ \A u \in SUBSET S : SumOver(g, u) \in Nat
  BY FS_Subset, SumNat
<1>1. PICK u \in C : /\ IsFiniteSet(u) /\ u \subseteq B
                     /\ \A x \in u : u \ {x} \notin C /\ IsFiniteSet(u \ {x}) /\ u \ {x} \subseteq B
  <2>1. \A u \in C : u \subseteq B
    OBVIOUS
  <2> HIDE DEF C
  <2> QED
    BY <1>0, <2>1, Minimal
<1>2. SumOver(g, A \cup u) # SumOver(g, A) + SumOver(g, u) /\ u \in SUBSET S /\ A \cup u \in SUBSET S
  BY <1>1
<1>3. u # {}
  <2>1. A \cup {} = A /\ SumOver(g, {}) = 0
    BY FS_EmptySet, SumSteps
  <2>2. SumOver(g, A) \in Nat
    BY <1>0
  <2>3. SumOver(g, A) = SumOver(g, A) + 0
    BY <2>2
  <2> HIDE DEF C
  <2> QED
    BY <1>2, <2>1, <2>3
<1>4. PICK x : x \in u
  BY <1>3
<1> DEFINE v == u \ {x}
<1>5. v \notin C /\ v \in SUBSET B /\ v \in SUBSET S
  BY <1>1, <1>2, <1>4
<1>6. SumOver(g, A \cup v) = SumOver(g, A) + SumOver(g, v)
  <2> HIDE DEF v
  <2> QED
    BY <1>5
<1>7. SumOver(g, u) = g[x] + SumOver(g, v)
  BY <1>2, <1>4, SumTake
<1>8. SumOver(g, A \cup u) = g[x] + SumOver(g, A \cup v)
  <2>1. (A \cup u) \ {x} = A \cup v /\ x \in A \cup u
    BY <1>1, <1>4
  <2>2. SumOver(g, A \cup u) = g[x] + SumOver(g, (A \cup u) \ {x})
    BY <1>2, <2>1, SumTake
  <2> QED
    BY <2>1, <2>2
<1>9. g[x] \in Nat /\ SumOver(g, v) \in Nat /\ SumOver(g, A) \in Nat
  BY <1>0, <1>2, <1>4, <1>5
<1> HIDE DEF v
<1> QED
  BY <1>2, <1>6, <1>7, <1>8, <1>9

(* A sum is zero exactly when all it adds is. *)
LEMMA SumZero ==
  ASSUME NEW S, IsFiniteSet(S), NEW g, \A i \in S : g[i] \in Nat
  PROVE  SumOver(g, S) = 0 <=> \A i \in S : g[i] = 0
<1>0. \A u \in SUBSET S : SumOver(g, u) \in Nat
  BY SumNat
<1>1. ASSUME SumOver(g, S) = 0, NEW i \in S PROVE g[i] = 0
  <2>1. SumOver(g, S) = g[i] + SumOver(g, S \ {i})
    BY SumTake
  <2>2. SumOver(g, S \ {i}) \in Nat /\ g[i] \in Nat
    BY <1>0
  <2> QED
    BY <1>1, <2>1, <2>2
<1>2. ASSUME \A i \in S : g[i] = 0 PROVE SumOver(g, S) = 0
  <2> DEFINE C == {u \in SUBSET S : SumOver(g, u) # 0}
  <2> SUFFICES ASSUME C # {} PROVE FALSE
    OBVIOUS
  <2>1. PICK u \in C : /\ IsFiniteSet(u) /\ u \subseteq S
                       /\ \A x \in u : u \ {x} \notin C /\ IsFiniteSet(u \ {x}) /\ u \ {x} \subseteq S
    <3>1. \A u \in C : u \subseteq S
      OBVIOUS
    <3> HIDE DEF C
    <3> QED
      BY <3>1, Minimal
  <2>2. u # {} /\ SumOver(g, u) # 0
    BY <2>1, SumSteps
  <2>3. PICK x : x \in u
    BY <2>2
  <2>4. SumOver(g, u) = g[x] + SumOver(g, u \ {x})
    BY <2>1, <2>3, SumTake
  <2>5. SumOver(g, u \ {x}) = 0 /\ g[x] = 0
    BY <1>2, <2>1, <2>3
  <2> QED
    BY <2>2, <2>4, <2>5
<1> QED
  BY <1>1, <1>2

(* Induction over the subsets of a finite set, for a set of them.          *)
LEMMA Inductive ==
  ASSUME NEW Z, IsFiniteSet(Z), NEW D, {} \in D,
         \A u \in SUBSET Z : \A x \in u : u \ {x} \in D => u \in D
  PROVE  SUBSET Z \subseteq D
<1> DEFINE C == (SUBSET Z) \ D
<1> SUFFICES ASSUME C # {} PROVE FALSE
  OBVIOUS
<1>1. \A u \in C : u \subseteq Z
  OBVIOUS
<1>2. PICK u \in C : /\ IsFiniteSet(u) /\ u \subseteq Z
                     /\ \A x \in u : u \ {x} \notin C /\ IsFiniteSet(u \ {x}) /\ u \ {x} \subseteq Z
  <2>1. IsFiniteSet(Z) /\ C # {}
    OBVIOUS
  <2> HIDE DEF C
  <2> QED
    BY ONLY <1>1, <2>1, Minimal
<1>3. u # {} /\ u \in SUBSET Z /\ u \notin D
  OBVIOUS
<1>4. PICK x : x \in u
  BY <1>3
<1>5. u \ {x} \in D
  BY <1>2, <1>3, <1>4
<1> QED
  BY <1>3, <1>4, <1>5

(* Inequalities add up. *)
LEMMA SumScaled ==
  ASSUME NEW S, IsFiniteSet(S), NEW a \in Nat, NEW b \in Nat,
         NEW g, \A i \in S : g[i] \in Nat, NEW h, \A i \in S : h[i] \in Nat,
         \A i \in S : a * g[i] >= b * h[i]
  PROVE  a * SumOver(g, S) >= b * SumOver(h, S)
<1> DEFINE D == {u \in SUBSET S : a * SumOver(g, u) >= b * SumOver(h, u)}
<1>0. \A u \in SUBSET S : SumOver(g, u) \in Nat /\ SumOver(h, u) \in Nat
  BY SumNat
<1>1. {} \in D
  <2>1. SumOver(g, {}) = 0 /\ SumOver(h, {}) = 0
    BY FS_EmptySet, SumSteps
  <2>2. a * 0 >= b * 0
    OBVIOUS
  <2> QED
    BY <2>1, <2>2
<1>2. ASSUME NEW u \in SUBSET S, NEW x \in u, u \ {x} \in D
      PROVE  u \in D
  <2> DEFINE G == SumOver(g, u \ {x})
             H == SumOver(h, u \ {x})
  <2>1. SumOver(g, u) = g[x] + G /\ SumOver(h, u) = h[x] + H
    BY SumTake
  <2>2. G \in Nat /\ H \in Nat /\ g[x] \in Nat /\ h[x] \in Nat
    BY <1>0
  <2>3. a * G >= b * H /\ a * g[x] >= b * h[x]
    BY <1>2
  <2> HIDE DEF G, H, D
  <2>4. \A c, y, z \in Nat : c * (y + z) = c * y + c * z /\ c * y \in Nat
    OBVIOUS
  <2>5. a * (g[x] + G) = a * g[x] + a * G /\ b * (h[x] + H) = b * h[x] + b * H
    BY <2>2, <2>4
  <2>6. a * g[x] \in Nat /\ a * G \in Nat /\ b * h[x] \in Nat /\ b * H \in Nat
    BY <2>2
  <2>7. a * g[x] + a * G >= b * h[x] + b * H
    BY <2>3, <2>6
  <2>8. a * SumOver(g, u) >= b * SumOver(h, u)
    BY <2>1, <2>5, <2>7
  <2> QED
    BY <2>8 DEF D
<1>3. SUBSET S \subseteq D
  <2> HIDE DEF D
  <2> QED
    BY <1>1, <1>2, Inductive
<1>4. S \in D
  BY <1>3
<1> QED
  BY <1>4

(* Summing group by group is summing. *)
Having(I, key, V) == {i \in I : key[i] \in V}

Subtotals(G, F, g, I, key) == \A f \in F : G[f] = SumOver(g, Having(I, key, {f}))

LEMMA SumGroups ==
  ASSUME NEW I, IsFiniteSet(I), NEW g, \A i \in I : g[i] \in Nat, NEW key,
         NEW F, IsFiniteSet(F), NEW G,
         Subtotals(G, F, g, I, key)
  PROVE  SumOver(G, F) = SumOver(g, Having(I, key, F))
<1> DEFINE C == {u \in SUBSET F : SumOver(G, u) # SumOver(g, Having(I, key, u))}
<1> SUFFICES ASSUME C # {} PROVE FALSE
  OBVIOUS
<1>0. \A u \in SUBSET I : SumOver(g, u) \in Nat
  BY SumNat
<1>1. \A f \in F : G[f] \in Nat
  <2>1. \A V : Having(I, key, V) \in SUBSET I
    BY DEF Having
  <2> QED
    BY <1>0, <2>1 DEF Subtotals
<1>2. PICK u \in C : /\ IsFiniteSet(u) /\ u \subseteq F
                     /\ \A x \in u : u \ {x} \notin C /\ IsFiniteSet(u \ {x}) /\ u \ {x} \subseteq F
  <2>1. \A u \in C : u \subseteq F
    OBVIOUS
  <2> HIDE DEF C
  <2> QED
    BY <2>1, Minimal
<1>3. SumOver(G, u) # SumOver(g, Having(I, key, u))
  BY <1>2
<1>4. u # {}
  <2>1. Having(I, key, {}) = {}
    BY DEF Having
  <2>2. SumOver(G, {}) = 0 /\ SumOver(g, {}) = 0
    BY FS_EmptySet, SumSteps
  <2> QED
    BY <1>3, <2>1, <2>2
<1>5. PICK x : x \in u
  BY <1>4
<1> DEFINE v == u \ {x}
           A == Having(I, key, v)
           B == Having(I, key, {x})
<1>6. SumOver(G, u) = G[x] + SumOver(G, v)
  BY <1>1, <1>2, <1>5, SumTake
<1>7. SumOver(G, v) = SumOver(g, A)
  <2>1. v \notin C /\ v \in SUBSET F
    BY <1>2, <1>5
  <2> HIDE DEF v
  <2> QED
    BY <2>1
<1>8. G[x] = SumOver(g, B)
  BY <1>2, <1>5 DEF Subtotals
<1>9. /\ Having(I, key, u) = A \cup B
      /\ A \cap B = {} /\ A \in SUBSET I /\ B \in SUBSET I
  BY <1>5 DEF Having
<1> HIDE DEF v, A, B
<1>10. SumOver(g, A \cup B) = SumOver(g, A) + SumOver(g, B)
  BY <1>9, SumUnion
<1>11. SumOver(g, A) \in Nat /\ SumOver(g, B) \in Nat
  BY <1>0, <1>9
<1>12. SumOver(G, u) = SumOver(g, B) + SumOver(g, A)
  BY <1>6, <1>7, <1>8
<1>13. SumOver(G, u) # SumOver(g, A) + SumOver(g, B)
  BY <1>3, <1>9, <1>10
<1> QED
  BY <1>11, <1>12, <1>13

(* Equal summands, equal sums. *)
LEMMA SumSame ==
  ASSUME NEW S, IsFiniteSet(S), NEW g, NEW h, \A i \in S : g[i] = h[i],
         \A i \in S : g[i] \in Nat
  PROVE  SumOver(g, S) = SumOver(h, S)
<1>1. \A i \in S : h[i] \in Nat
  OBVIOUS
<1>2. /\ \A i \in S : 1 * g[i] >= 1 * h[i]
      /\ \A i \in S : 1 * h[i] >= 1 * g[i]
  BY <1>1
<1>3. /\ 1 * SumOver(g, S) >= 1 * SumOver(h, S)
      /\ 1 * SumOver(h, S) >= 1 * SumOver(g, S)
  BY <1>1, <1>2, SumScaled
<1>4. SumOver(g, S) \in Nat /\ SumOver(h, S) \in Nat
  BY <1>1, SumNat
<1> QED
  BY <1>3, <1>4

-----------------------------------------------------------------------------
(* What a profile says does not depend on counting it file by file.        *)
LEMMA ProfileFacts ==
  ASSUME NEW p \in Profiles
  PROVE  /\ IsFiniteSet(Lines(p)) /\ IsFiniteSet(FilesOf(p))
         /\ \A i \in Lines(p) : /\ p[i].stmts \in Nat
                                /\ StmtsOf(p)[i] = p[i].stmts /\ StmtsOf(p)[i] \in Nat
                                /\ CoveredOf(p)[i] \in Nat
         /\ \A f \in FilesOf(p) : Total(p, f) \in Nat /\ Covered(p, f) \in Nat
<1>1. p \in Seq(Block \cup {Junk})
  BY TestRunAssumption
<1>2. IsFiniteSet(Lines(p))
  <2>1. IsFiniteSet(1..Len(p)) /\ DOMAIN p = 1..Len(p)
    BY <1>1, FS_Interval
  <2> QED
    BY <2>1, FS_Subset DEF Lines
<1>3. IsFiniteSet(FilesOf(p))
  <2> DEFINE files == [i \in Lines(p) |-> p[i].file]
  <2>1. files \in Surjection(Lines(p), FilesOf(p))
    BY DEF FilesOf, Surjection
  <2> QED
    BY <1>2, <2>1, FS_Surjection
<1>4. ASSUME NEW i \in Lines(p) PROVE p[i].stmts \in Nat
  <2>1. p[i] \in Block
    BY <1>1 DEF Lines
  <2> QED
    BY <2>1 DEF Block
<1>5. \A i \in Lines(p) : StmtsOf(p)[i] = p[i].stmts /\ StmtsOf(p)[i] \in Nat /\ CoveredOf(p)[i] \in Nat
  BY <1>4 DEF StmtsOf, CoveredOf
<1>6. \A f : LinesOf(p, f) \in SUBSET Lines(p)
  BY DEF LinesOf
<1>7. /\ \A u \in SUBSET Lines(p) : SumOver(StmtsOf(p), u) \in Nat
      /\ \A u \in SUBSET Lines(p) : SumOver(CoveredOf(p), u) \in Nat
  BY <1>2, <1>5, SumNat
<1>8. \A f \in FilesOf(p) : Total(p, f) \in Nat /\ Covered(p, f) \in Nat
  BY <1>6, <1>7 DEF Total, Covered
<1> QED
  BY <1>2, <1>3, <1>4, <1>5, <1>8

(* The files of a profile share its blocks out among them. *)
LEMMA SumFiles ==
  ASSUME NEW p \in Profiles, NEW g, \A i \in Lines(p) : g[i] \in Nat
  PROVE  SumOver([f \in FilesOf(p) |-> SumOver(g, LinesOf(p, f))], FilesOf(p)) = SumOver(g, Lines(p))
<1> DEFINE key == [i \in Lines(p) |-> p[i].file]
           F == FilesOf(p)
           L == Lines(p)
           G == [f \in F |-> SumOver(g, LinesOf(p, f))]
<1>1. \A f : LinesOf(p, f) = Having(L, key, {f})
  BY DEF LinesOf, Having
<1>2. L = Having(L, key, F)
  BY DEF FilesOf, Having
<1>3. Subtotals(G, F, g, L, key)
  BY <1>1 DEF Subtotals
<1>4. IsFiniteSet(L) /\ IsFiniteSet(F)
  BY ProfileFacts
<1>5. \A i \in L : g[i] \in Nat
  OBVIOUS
<1> HIDE DEF key, F, L, G
<1>6. SumOver(G, F) = SumOver(g, Having(L, key, F))
  BY ONLY <1>3, <1>4, <1>5, SumGroups
<1>7. SumOver(G, F) = SumOver(g, L)
  BY <1>2, <1>6
<1> QED
  BY <1>7 DEF F, L, G

LEMMA AllStatementsIs ==
  ASSUME NEW p \in Profiles
  PROVE  AllStatements(p) = Statements(p, Lines(p))
<1>1. \A i \in Lines(p) : StmtsOf(p)[i] \in Nat
  BY ProfileFacts
<1>2. SumOver([f \in FilesOf(p) |-> SumOver(StmtsOf(p), LinesOf(p, f))], FilesOf(p))
        = SumOver(StmtsOf(p), Lines(p))
  BY <1>1, SumFiles
<1> QED
  BY <1>2 DEF AllStatements, Statements, Total

LEMMA AllCoveredIs ==
  ASSUME NEW p \in Profiles
  PROVE  AllCovered(p) = Statements(p, Counted(p))
<1> DEFINE L == Lines(p)
           A == Counted(p)
           B == L \ A
           c == CoveredOf(p)
           s == StmtsOf(p)
<1>1. IsFiniteSet(L) /\ A \in SUBSET L /\ B \in SUBSET L /\ A \cap B = {} /\ L = A \cup B
  BY ProfileFacts DEF Counted
<1>2. \A i \in L : c[i] \in Nat /\ s[i] \in Nat
  BY ProfileFacts
<1>3. (\A i \in A : c[i] = s[i]) /\ (\A i \in B : c[i] = 0)
  BY DEF Counted, CoveredOf, StmtsOf
<1>4. AllCovered(p) = SumOver(c, L)
  <2>1. SumOver([f \in FilesOf(p) |-> SumOver(c, LinesOf(p, f))], FilesOf(p)) = SumOver(c, L)
    <3> HIDE DEF c
    <3> QED
      BY <1>2, SumFiles
  <2> QED
    BY <2>1 DEF AllCovered, Covered
<1>5. Statements(p, Counted(p)) = SumOver(s, A)
  BY DEF Statements
<1> HIDE DEF L, A, B, c, s
<1>6. IsFiniteSet(A) /\ IsFiniteSet(B)
  BY <1>1, FS_Subset
<1>7. SumOver(c, L) = SumOver(c, A) + SumOver(c, B)
  BY <1>1, <1>2, SumUnion
<1>8. SumOver(c, B) = 0
  <2>1. \A i \in B : c[i] \in Nat
    BY <1>3
  <2> QED
    BY <1>3, <1>6, <2>1, SumZero
<1>9. SumOver(c, A) = SumOver(s, A)
  BY <1>1, <1>2, <1>3, <1>6, SumSame
<1>10. SumOver(c, A) \in Nat
  BY <1>1, <1>2, SumNat
<1> QED
  BY <1>4, <1>5, <1>7, <1>8, <1>9, <1>10

(* The code's verdict on the coverage is the one counted over the blocks. *)
LEMMA PassesIs ==
  ASSUME profile \in Profiles \cup {NoProfile}
  PROVE  Passes <=> EnoughCovered
<1>1. CASE profile = NoProfile
  BY <1>1 DEF Passes, EnoughCovered, Measured
<1>2. CASE profile # NoProfile
  <2>1. profile \in Profiles
    BY <1>2
  <2>2. /\ AllStatements(profile) = Statements(profile, Lines(profile))
        /\ AllCovered(profile) = Statements(profile, Counted(profile))
    BY <2>1, AllStatementsIs, AllCoveredIs
  <2>3. /\ IsFiniteSet(Lines(profile))
        /\ \A i \in Lines(profile) : /\ profile[i].stmts \in Nat
                                     /\ StmtsOf(profile)[i] = profile[i].stmts
    BY <2>1, ProfileFacts
  <2>4. /\ SumOver(StmtsOf(profile), Lines(profile)) = 0 <=> \A i \in Lines(profile) : StmtsOf(profile)[i] = 0
        /\ SumOver(StmtsOf(profile), Lines(profile)) \in Nat
    BY <2>3, SumZero, SumNat
  <2>5. AllStatements(profile) > 0 <=> \E i \in Lines(profile) : profile[i].stmts > 0
    <3>1. AllStatements(profile) \in Nat
          /\ (AllStatements(profile) = 0 <=> \A i \in Lines(profile) : profile[i].stmts = 0)
      BY <2>2, <2>3, <2>4 DEF Statements
    <3> QED
      BY <2>3, <3>1
  <2>6. Measured <=> \E i \in Lines(profile) : profile[i].stmts > 0
    BY <1>2, <2>5 DEF Measured
  <2> QED
    BY <1>2, <2>2, <2>6 DEF Passes, EnoughCovered, statementPasses
<1> QED
  BY <1>1, <1>2

(* Files that pass one by one pass together. *)
LEMMA FilesPass ==
  ASSUME NEW p \in Profiles, \A f \in FilesOf(p) : FilePasses(p, f)
  PROVE  statementPasses(p)
<1> DEFINE G == [f \in FilesOf(p) |-> Covered(p, f)]
           H == [f \in FilesOf(p) |-> Total(p, f)]
<1>1. Threshold \in Nat /\ 100 \in Nat
  BY TestRunAssumption
<1>2. \A f \in FilesOf(p) : G[f] \in Nat /\ H[f] \in Nat
  BY ProfileFacts
<1>3. ASSUME NEW f \in FilesOf(p) PROVE 100 * G[f] >= Threshold * H[f]
  <2>1. G[f] = Covered(p, f) /\ H[f] = Total(p, f)
    OBVIOUS
  <2>2. FilePasses(p, f) /\ G[f] \in Nat /\ H[f] \in Nat
    BY <1>2
  <2> HIDE DEF G, H
  <2>3. CASE H[f] > 0
    BY <2>1, <2>2, <2>3 DEF FilePasses
  <2>4. CASE H[f] = 0
    BY <1>1, <2>2, <2>4
  <2> QED
    BY <2>2, <2>3, <2>4
<1>4. IsFiniteSet(FilesOf(p))
  BY ProfileFacts
<1>5. 100 * SumOver(G, FilesOf(p)) >= Threshold * SumOver(H, FilesOf(p))
  <2> HIDE DEF G, H
  <2> QED
    BY <1>1, <1>2, <1>3, <1>4, SumScaled
<1> QED
  BY <1>5 DEF statementPasses, AllCovered, AllStatements

-----------------------------------------------------------------------------
(* The exit status is zero exactly when no test failed and, where coverage *)
(* is measured, enough was covered, counted over the blocks of the profile *)
(* and not file by file as the code counts.                                *)
THEOREM ExitsWithVerdict == Spec => []VerdictIsTests
<1>1. Inv => VerdictIsTests
  <2> SUFFICES ASSUME Inv, pc = "exited"
               PROVE  code = 0 <=> (\A t \in Tests : test[t] # "failed") /\ (cover => EnoughCovered)
    BY DEF VerdictIsTests
  <2>1. Passes <=> EnoughCovered
    BY PassesIs DEF Inv, Results
  <2>2. rc = IF \E t \in Tests : test[t] = "failed" THEN 1 ELSE 0
    BY DEF Inv, Results
  <2>3. code = IF cover /\ rc = 0 /\ ~Passes THEN 1 ELSE rc
    BY DEF Inv, Results
  <2> QED
    BY <2>1, <2>2, <2>3
<1> QED
  BY Invariance, <1>1, PTL

(* A run that fails by the coverage of its profile alone names a file that *)
(* is short of the threshold: files that pass one by one pass together.    *)
THEOREM NamesAFile == Spec => []BlamesAFile
<1>1. Inv => BlamesAFile
  <2> SUFFICES ASSUME Inv, pc = "exited", rc = 0, code = 1, Measured
               PROVE  \E f \in FilesOf(profile) : ~FilePasses(profile, f)
    BY DEF BlamesAFile
  <2>1. ~Passes /\ profile \in Profiles
    BY DEF Inv, Results, Measured
  <2>2. ~statementPasses(profile)
    BY <2>1 DEF Passes
  <2> QED
    BY <2>1, <2>2, FilesPass
<1> QED
  BY Invariance, <1>1, PTL
=============================================================================
