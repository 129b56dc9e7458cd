-------------------------- MODULE ListHooksProofs --------------------------
(***************************************************************************)
(* Proofs about ListHooks, for every set of requests, IDs and tools.       *)
(***************************************************************************)
EXTENDS ListHooks, TLAPS

(* The map holds, under its own ID, the entry of a request that has not    *)
(* succeeded and whose span is still open.                                 *)
MapInv ==
  \A i \in RequestIds : listStarts[i] # Nobody =>
    /\ id[listStarts[i]] = i
    /\ pc[listStarts[i]] \in {"before", "listed", "failed"}
    /\ ended[listStarts[i]] = 0

(* The entry under the ID of a request in flight is not an earlier one's. *)
OrderInv ==
  /\ \A r \in InFlight : listStarts[id[r]] \in {Nobody, r} \cup after[r]
  /\ LatencyNotInflated

(* A request that shares its ID with nobody finds its entry. *)
AloneInv ==
  /\ \A r \in alone \cap InFlight :
       /\ listStarts[id[r]] = r
       /\ \A q \in InFlight : id[q] = id[r] => q = r
  /\ AloneIsCounted

SpanInv ==
  /\ EndedOnce
  /\ \A r \in Requests : pc[r] = "new" => ended[r] = 0
  /\ \A r \in Requests : pc[r] # "done" => counted[r] = {}

ToolInv ==
  /\ registry = next
  /\ ~installing => library = next

Inv == TypeOK /\ MapInv /\ OrderInv /\ AloneInv /\ SpanInv /\ ToolInv

-----------------------------------------------------------------------------
(* The initial state has an empty map. *)
LEMMA InitInv == Init => Inv
<1> SUFFICES ASSUME Init PROVE Inv
  OBVIOUS
<1>1. TypeOK
  BY DEF Init, TypeOK
<1>2. MapInv
  BY DEF Init, MapInv
<1>3. OrderInv
  BY DEF Init, OrderInv, LatencyNotInflated, InFlight
<1>4. AloneInv
  BY DEF Init, AloneInv, AloneIsCounted, InFlight
<1>5. SpanInv /\ ToolInv
  BY DEF Init, SpanInv, EndedOnce, ToolInv
<1> QED
  BY <1>1, <1>2, <1>3, <1>4, <1>5 DEF Inv

(* A step that touches neither map nor requests keeps what is said of them. *)
LEMMA ReloadStep ==
  ASSUME Inv, (\E tools \in SUBSET Tools : Swap(tools)) \/ SetTools \/ UNCHANGED vars
  PROVE  Inv'
<1>1. UNCHANGED <<pc, id, result, hookVars, pastVars>>
  BY DEF Swap, SetTools, vars
<1>2. TypeOK' /\ ToolInv'
  BY <1>1 DEF Swap, SetTools, vars, toolVars, Inv, TypeOK, ToolInv, hookVars, pastVars
<1> QED
  BY <1>1, <1>2 DEF Inv, MapInv, OrderInv, LatencyNotInflated, AloneInv, AloneIsCounted,
       SpanInv, EndedOnce, InFlight, hookVars, pastVars

(* The before hook overwrites what was there with a younger entry. *)
LEMMA BeforeStep ==
  ASSUME Inv, NEW r \in Requests, BeforeListTools(r)
  PROVE  Inv'
<1> USE DEF BeforeListTools, Store, Inv, toolVars
<1>1. TypeOK'
  BY DEF TypeOK
<1>2. MapInv'
  BY ListHooksAssumption DEF TypeOK, MapInv, SpanInv
<1>3. OrderInv'
  BY ListHooksAssumption DEF TypeOK, OrderInv, LatencyNotInflated, InFlight
<1>4. AloneInv'
  <2>1. AloneIsCounted'
    BY DEF TypeOK, AloneInv, AloneIsCounted, Sharing, InFlight
  <2>2. ASSUME NEW q \in (alone \cap InFlight)'
        PROVE  /\ listStarts'[id'[q]] = q
               /\ \A p \in InFlight' : id'[p] = id'[q] => p = q
    BY <2>2 DEF TypeOK, AloneInv, Sharing, InFlight
  <2> QED
    BY <2>1, <2>2 DEF AloneInv
<1>5. SpanInv' /\ ToolInv'
  BY DEF TypeOK, SpanInv, EndedOnce, ToolInv
<1> QED
  BY <1>1, <1>2, <1>3, <1>4, <1>5

(* Listing, and failing to. *)
LEMMA ListStep ==
  ASSUME Inv, NEW r \in Requests, List(r) \/ ListFails(r)
  PROVE  Inv'
<1> USE DEF List, ListFails, Inv, toolVars, hookVars, pastVars
<1>1. TypeOK'
  BY DEF TypeOK, SpanInv
<1>2. MapInv'
  BY ListHooksAssumption DEF TypeOK, MapInv
<1>3. OrderInv'
  BY DEF TypeOK, OrderInv, LatencyNotInflated, InFlight
<1>4. AloneInv'
  BY DEF TypeOK, AloneInv, AloneIsCounted, InFlight
<1>5. SpanInv' /\ ToolInv'
  BY DEF TypeOK, SpanInv, EndedOnce, ToolInv
<1> QED
  BY <1>1, <1>2, <1>3, <1>4, <1>5

(* The after hook takes the entry out of the map and ends its span. *)
LEMMA AfterStep ==
  ASSUME Inv, NEW r \in Requests, AfterListTools(r)
  PROVE  Inv'
<1> USE DEF AfterListTools, LoadAndDelete, Inv, toolVars, pastVars
<1> DEFINE e == listStarts[id[r]]
<1>0. e \in Requests => id[e] = id[r] /\ ended[e] = 0 /\ pc[e] \in {"before", "listed", "failed"}
  BY ListHooksAssumption DEF TypeOK, MapInv
<1>1. TypeOK'
  BY DEF TypeOK
<1>2. MapInv'
  BY <1>0, ListHooksAssumption DEF TypeOK, MapInv
<1>3. OrderInv'
  BY ListHooksAssumption DEF TypeOK, OrderInv, LatencyNotInflated, InFlight
<1>4. AloneInv'
  <2>1. ASSUME NEW q \in alone, pc'[q] \in {"recording", "done"}
        PROVE  entry'[q] = q /\ ended'[q] = 1
    BY <2>1, <1>0, ListHooksAssumption DEF TypeOK, AloneInv, AloneIsCounted, InFlight
  <2>2. ASSUME NEW q \in (alone \cap InFlight)'
        PROVE  /\ listStarts'[id'[q]] = q
               /\ \A p \in InFlight' : id'[p] = id'[q] => p = q
    BY <2>2 DEF TypeOK, AloneInv, InFlight
  <2> QED
    BY <2>1, <2>2 DEF AloneInv, AloneIsCounted
<1>5. SpanInv' /\ ToolInv'
  BY <1>0 DEF TypeOK, SpanInv, EndedOnce, ToolInv
<1> QED
  BY <1>1, <1>2, <1>3, <1>4, <1>5

(* Counting the tools leaves the map alone. *)
LEMMA RecordStep ==
  ASSUME Inv, NEW r \in Requests, RecordToolsListed(r)
  PROVE  Inv'
<1> USE DEF RecordToolsListed, getRecipesByNames, Inv, toolVars, pastVars
<1>1. TypeOK'
  BY DEF TypeOK
<1>2. MapInv'
  BY ListHooksAssumption DEF TypeOK, MapInv
<1>3. OrderInv'
  BY DEF TypeOK, OrderInv, LatencyNotInflated, InFlight
<1>4. AloneInv'
  BY DEF TypeOK, AloneInv, AloneIsCounted, InFlight
<1>5. SpanInv' /\ ToolInv'
  BY DEF TypeOK, SpanInv, EndedOnce, ToolInv
<1> QED
  BY <1>1, <1>2, <1>3, <1>4, <1>5

(* The invariant the theorems rest on. *)
THEOREM Invariance == Spec => []Inv
<1>1. Inv /\ [Next]_vars => Inv'
  BY BeforeStep, ListStep, AfterStep, RecordStep, ReloadStep DEF Next, Request
<1> QED
  BY <1>1, InitInv, PTL DEF Spec

-----------------------------------------------------------------------------
(* However sessions reuse each other's IDs, no span is ended twice. *)
THEOREM SpansEndOnce == Spec => []EndedOnce
<1>1. Inv => EndedOnce
  BY DEF Inv, SpanInv
<1> QED
  BY <1>1, Invariance, PTL

(* Only requests in flight and failed ones have entries in the map. *)
THEOREM OnlyFailuresLeak == Spec => []NothingLeaks
<1>1. Inv => NothingLeaks
  BY DEF Inv, MapInv, NothingLeaks
<1> QED
  BY <1>1, Invariance, PTL

(* A request alone under its ID is counted, once, with its own entry. *)
THEOREM LoneRequestsAreCounted == Spec => []AloneIsCounted
<1>1. Inv => AloneIsCounted
  BY DEF Inv, AloneInv
<1> QED
  BY <1>1, Invariance, PTL

(* No latency is measured from before the request it is recorded for. *)
THEOREM LatenciesAreNotInflated == Spec => []LatencyNotInflated
<1>1. Inv => LatencyNotInflated
  BY DEF Inv, OrderInv
<1> QED
  BY <1>1, Invariance, PTL

(* The variables of the hooks keep their types. *)
THEOREM TypeCorrect == Spec => []TypeOK
<1>1. Inv => TypeOK
  BY DEF Inv
<1> QED
  BY <1>1, Invariance, PTL

(* A listed tool goes uncounted only when a reload has removed it. *)
THEOREM UncountedAreRemoved == Spec => UncountedOnlyIfRemoved
<1> DEFINE A == \A r \in Requests : RecordToolsListed(r) =>
                  \A t \in result[r] \ counted'[r] :
                    t \notin library \/ (installing /\ t \notin next)
<1>1. Inv => A
  <2> SUFFICES ASSUME Inv, NEW r \in Requests, RecordToolsListed(r),
                      NEW t \in result[r] \ counted'[r]
               PROVE  t \notin library \/ (installing /\ t \notin next)
    OBVIOUS
  <2>1. t \notin registry
    BY DEF RecordToolsListed, getRecipesByNames, Inv, TypeOK
  <2> QED
    BY <2>1 DEF Inv, ToolInv
<1>2. Inv => [A]_vars
  BY <1>1
<1> QED
  BY <1>2, Invariance, PTL DEF UncountedOnlyIfRemoved
=============================================================================
