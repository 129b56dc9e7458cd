------------------------------ MODULE ListHooks ------------------------------
(***************************************************************************)
(* The accounting of tools/list in ToolServer.New (pkg/server/server.go).  *)
(* The MCP library calls BeforeListTools, lists the tools of its table and *)
(* calls AfterListTools with the result; when the listing fails (a cursor  *)
(* that does not decode) there is no second call.  The two hooks meet in   *)
(* listStarts, a map from JSON-RPC request ID to the span and start time   *)
(* of a request.  An ID is unique within one session, and all sessions     *)
(* share the map.  RecordToolsListed then counts the listed tools that the *)
(* registry still has, while a reload may replace registry and table.      *)
(***************************************************************************)
EXTENDS Integers, FiniteSets

CONSTANTS
  Requests,     \* tools/list requests, of all sessions
  RequestIds,   \* their JSON-RPC IDs
  Tools,        \* names of tools
  Nobody        \* no request

ASSUME ListHooksAssumption == Nobody \notin Requests

VARIABLES
  pc,           \* pc[r]: how far request r has come
  id,           \* id[r]: its ID, once it has arrived
  result,       \* result[r]: the tools sent to its client
  entry,        \* entry[r]: the request whose entry its after hook took
  listStarts,   \* the map: ID |-> the request whose entry it holds
  ended,        \* ended[r]: how often the span of r was ended
  counted,      \* counted[r]: the tools of r added to make_mcp_tools_listed
  after,        \* requests that arrived after r, in r's lifetime or later
  alone,        \* requests never in flight together with one of the same ID
  registry,     \* the tools ToolServer's registry has
  library,      \* those the MCP library serves
  next,         \* those a reload under way installs
  installing    \* it has given them to one of the two

hookVars == <<listStarts, entry, ended, counted>>
pastVars == <<after, alone>>
toolVars == <<registry, library, next, installing>>
vars == <<pc, id, result, hookVars, pastVars, toolVars>>

InFlight == {r \in Requests : pc[r] \in {"before", "listed"}}
Sharing(i) == {r \in InFlight : id[r] = i}

TypeOK ==
  /\ pc \in [Requests -> {"new", "before", "listed", "recording", "done", "failed"}]
  /\ id \in [Requests -> RequestIds]
  /\ result \in [Requests -> SUBSET Tools]
  /\ entry \in [Requests -> Requests \cup {Nobody}]
  /\ listStarts \in [RequestIds -> Requests \cup {Nobody}]
  /\ ended \in [Requests -> Nat]
  /\ after \in [Requests -> SUBSET Requests]
  /\ alone \subseteq Requests
  /\ counted \in [Requests -> SUBSET Tools]
  /\ \A r \in Requests : counted[r] \subseteq result[r]
  /\ registry \subseteq Tools /\ library \subseteq Tools /\ next \subseteq Tools
  /\ installing \in BOOLEAN

Init ==
  /\ pc = [r \in Requests |-> "new"]
  /\ id \in [Requests -> RequestIds]
  /\ result = [r \in Requests |-> {}]
  /\ entry = [r \in Requests |-> Nobody]
  /\ listStarts = [i \in RequestIds |-> Nobody]
  /\ ended = [r \in Requests |-> 0]
  /\ counted = [r \in Requests |-> {}]
  /\ after = [r \in Requests |-> {}]
  /\ alone = Requests
  /\ registry \in SUBSET Tools
  /\ library = registry /\ next = registry /\ installing = FALSE

-----------------------------------------------------------------------------
(* What the hooks do to the map.  Mutants: an entry that is there stays    *)
(* there; an entry that is loaded stays there.                             *)
StoreOnce(r) ==
  listStarts' = [listStarts EXCEPT ![id[r]] = IF @ = Nobody THEN r ELSE @]

LoadOnly(r) ==
  /\ entry' = [entry EXCEPT ![r] = listStarts[id[r]]]
  /\ UNCHANGED listStarts

Store(r) == listStarts' = [listStarts EXCEPT ![id[r]] = r]

LoadAndDelete(r) ==
  /\ entry' = [entry EXCEPT ![r] = listStarts[id[r]]]
  /\ listStarts' = [listStarts EXCEPT ![id[r]] = Nobody]

BeforeListTools(r) ==
  /\ pc[r] = "new"
  /\ pc' = [pc EXCEPT ![r] = "before"]
  /\ Store(r)
  /\ after' = [q \in Requests |-> IF pc[q] = "new" THEN after[q] ELSE after[q] \cup {r}]
  /\ alone' = IF Sharing(id[r]) = {} THEN alone ELSE alone \ (Sharing(id[r]) \cup {r})
  /\ UNCHANGED <<id, result, entry, ended, counted, toolVars>>

(* The library's part. *)
List(r) ==
  /\ pc[r] = "before"
  /\ pc' = [pc EXCEPT ![r] = "listed"]
  /\ result' = [result EXCEPT ![r] = library]
  /\ UNCHANGED <<id, hookVars, pastVars, toolVars>>

ListFails(r) ==
  /\ pc[r] = "before"
  /\ pc' = [pc EXCEPT ![r] = "failed"]
  /\ UNCHANGED <<id, result, hookVars, pastVars, toolVars>>

(* The after hook ends the span of the entry it finds and counts the       *)
(* request; without an entry it records the bytes only.                    *)
AfterListTools(r) ==
  /\ pc[r] = "listed"
  /\ LoadAndDelete(r)
  /\ LET e == listStarts[id[r]] IN
       /\ ended' = IF e = Nobody THEN ended ELSE [ended EXCEPT ![e] = @ + 1]
       /\ pc' = [pc EXCEPT ![r] = IF e = Nobody THEN "done" ELSE "recording"]
  /\ UNCHANGED <<id, result, counted, pastVars, toolVars>>

(* The recipes getRecipesByNames finds, in one read of the registry. *)
getRecipesByNames(names) == names \cap registry

RecordToolsListed(r) ==
  /\ pc[r] = "recording"
  /\ counted' = [counted EXCEPT ![r] = getRecipesByNames(result[r])]
  /\ pc' = [pc EXCEPT ![r] = "done"]
  /\ UNCHANGED <<id, result, entry, ended, listStarts, pastVars, toolVars>>

(* Mutant: the library is updated, the registry is not. *)
SwapLibrary(tools) ==
  /\ ~installing
  /\ library' = tools
  /\ next' = tools
  /\ installing' = TRUE
  /\ UNCHANGED <<pc, id, result, hookVars, pastVars, registry>>

(* A reload: the registry, then the library's table. *)
Swap(tools) ==
  /\ ~installing
  /\ registry' = tools
  /\ next' = tools
  /\ installing' = TRUE
  /\ UNCHANGED <<pc, id, result, hookVars, pastVars, library>>

SetTools ==
  /\ installing
  /\ library' = next
  /\ installing' = FALSE
  /\ UNCHANGED <<pc, id, result, hookVars, pastVars, registry, next>>

Request(r) ==
  BeforeListTools(r) \/ List(r) \/ ListFails(r) \/ AfterListTools(r) \/ RecordToolsListed(r)

Next ==
  \/ \E r \in Requests : Request(r)
  \/ \E tools \in SUBSET Tools : Swap(tools)
  \/ SetTools

Spec == Init /\ [][Next]_vars

-----------------------------------------------------------------------------
(* However many requests share an ID, no span is ended twice. *)
EndedOnce == \A r \in Requests : ended[r] <= 1

(* What listStarts still holds is of requests in flight, or of requests    *)
(* that failed: no request that succeeded leaves an entry behind, even one *)
(* whose own entry another request took.                                   *)
NothingLeaks ==
  \A i \in RequestIds : listStarts[i] # Nobody => pc[listStarts[i]] \in {"before", "listed", "failed"}

(* A request that shares its ID with no other in flight is counted once it *)
(* succeeds, with its own start and span, whatever entries failed requests *)
(* of that ID have left.                                                   *)
AloneIsCounted ==
  \A r \in alone : pc[r] \in {"recording", "done"} => entry[r] = r /\ ended[r] = 1

(* Requests of one ID may take each other's entries, but never that of an  *)
(* earlier one: no latency is recorded longer than the request took.       *)
LatencyNotInflated ==
  \A r \in Requests : entry[r] # Nobody => entry[r] \in {r} \cup after[r]

(* A tool sent to a client is left out of make_mcp_tools_listed only       *)
(* because a reload, finished or under way, has removed it.                *)
UncountedOnlyIfRemoved ==
  [][\A r \in Requests : RecordToolsListed(r) =>
       \A t \in result[r] \ counted'[r] : t \notin library \/ (installing /\ t \notin next)]_vars
=============================================================================
