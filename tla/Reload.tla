------------------------------- MODULE Reload -------------------------------
(***************************************************************************)
(* Live reload.  run in cmd/mcp-server/main.go parses the Makefiles, makes *)
(* the ToolServer of pkg/server, and only then has the files watched; its  *)
(* watchLoop takes announced paths from the change feed, loads the         *)
(* configuration and the Makefiles, and has the ToolServer replace its     *)
(* registry and the tools the MCP library serves.                          *)
(*                                                                         *)
(* Concurrent with it: editors saving the files, the watcher (the change   *)
(* feed it implements, over the table of watches fsnotify keeps), clients  *)
(* that list tools and react to list_changed, one tool call that passes    *)
(* from the MCP library to handleToolCall, and the cancellation of the     *)
(* server's context.  Files are read one at a time, and the registry, the  *)
(* library's table and the clients are updated one after the other.        *)
(*                                                                         *)
(* A watch is on the inode a path had when it was added.  A save that      *)
(* writes the file is reported; one that gives the path another inode, or  *)
(* none, ends the watch with a Remove event, which shouldHandle discards;  *)
(* one that renames the file away ends it with a Rename event, at which    *)
(* the watcher's loop adds the path again if there is a file by then.      *)
(*                                                                         *)
(* A text is what a Makefile may hold and parse says what ParseMakefile    *)
(* makes of it; a configuration is what loadConfig and the CLI overrides   *)
(* merge to.                                                               *)
(***************************************************************************)
EXTENDS Integers, Sequences, FiniteSets, SequencesExt

CONSTANTS
  Makefiles,    \* paths of Makefiles
  ConfigPath,   \* the --config argument, as given
  ConfigFile,   \* the same path as the watcher announces it, cleaned
  Texts,        \* contents of a Makefile
  Missing,      \* no such file
  Configs,      \* contents of the configuration file: [list, opts]
  BadConfig,    \* a configuration file that does not load
  Ids,          \* recipe IDs
  Bodies,       \* all else a recipe's annotations say
  Groups,       \* risk and hint combinations, the gauge's label sets
  parse,        \* parse[text, opts]: [valid, recipes]
  FeedCap,      \* capacity of the watcher's event channel (16 in the code)
  Clients,      \* connected sessions
  Saves,        \* how editors save: in place, by replacement, by moving away
  MaxEdits,     \* bound: edits of files
  NoJob, NoCall

Recipe == [id : Ids, body : Bodies, group : Groups, file : Makefiles]

(* A load under way; a call that has not been answered. *)
Jobs == [next : Configs, done : Nat, merged : Seq(Recipe), valid : BOOLEAN]
Calls == [id : Ids, state : {"accepted", "running", "refused"}]

ASSUME ReloadAssumption ==
  /\ Configs \subseteq [list : Seq(Makefiles), opts : {x[2] : x \in DOMAIN parse}]
  /\ DOMAIN parse = Texts \X {c.opts : c \in Configs}
  /\ \A x \in DOMAIN parse :
       /\ parse[x].valid \in BOOLEAN
       /\ parse[x].recipes \in Seq([id : Ids, body : Bodies, group : Groups])
  /\ Missing \notin Texts /\ BadConfig \notin Configs
  /\ FeedCap \in Nat \ {0} /\ MaxEdits \in Nat
  /\ Saves \subseteq {"write", "replace", "moveAway"}
  /\ {ConfigFile, ConfigPath} \cap Makefiles = {}
  /\ NoJob \notin Jobs /\ NoCall \notin Calls

VARIABLES
  files,        \* text of each Makefile
  configFile,   \* contents of the configuration file
  owed, feed, open, stranded,   \* the change feed
  watched,      \* paths whose inode fsnotify watches
  moved,        \* paths with an unread Rename event
  unseen,       \* paths whose last change fell in a gap of the watching
  cfg,          \* *cfg, the configuration in force
  serverCfg,    \* the copy of it that ToolServer keeps
  pc,           \* where run, then watchLoop, stands
  job,          \* the configuration to load, how many of its Makefiles are
                \* parsed, the merged result
  recipes,      \* registry.recipes, by ID
  mcpTools,     \* the tools the MCP library serves, by ID
  gauge,        \* make_mcp_tools_registered
  notices,      \* clients with an unread list_changed
  stale,        \* clients whose last list is not what the library serves
  call,         \* a tool call, once the library has accepted it
  ctxDone,      \* the server's context is cancelled
  edits

fileVars == <<files, configFile, edits>>
feedVars == <<owed, feed, open, stranded>>
watchVars == <<feedVars, watched, moved, unseen>>
tableVars == <<recipes, mcpTools, gauge>>
clientVars == <<notices, stale, call>>
vars == <<fileVars, watchVars, cfg, serverCfg, pc, job, tableVars, clientVars, ctxDone>>

Paths == Makefiles \cup {ConfigFile}

Watch == INSTANCE ChangeFeed WITH Cap <- FeedCap

-----------------------------------------------------------------------------
(* Parsing and indexing. *)

(* A parsed recipe, tagged with the file it came from. *)
Tag(f, r) == [id |-> r.id, body |-> r.body, group |-> r.group, file |-> f]

TagOf(f, text, opts) ==
  LET rs == parse[text, opts].recipes IN [i \in DOMAIN rs |-> Tag(f, rs[i])]
Tagged(f, opts) == TagOf(f, files[f], opts)

(* buildServerTools and the library both index by ID: the last one wins. *)
Index(rs) ==
  [id \in {rs[i].id : i \in DOMAIN rs} |->
     rs[CHOOSE i \in DOMAIN rs : rs[i].id = id /\ \A j \in DOMAIN rs : rs[j].id = id => j <= i]]

InGroup(rs, g) == Cardinality({i \in DOMAIN rs : rs[i].group = g})

(* Mutant: a group that has a value keeps it. *)
RecordedOnce(old, rs) ==
  [g \in Groups |-> IF old[g] > 0 THEN old[g] ELSE InGroup(rs, g)]

(* RecordToolsRegistered writes the groups that occur, and only those. *)
Recorded(old, rs) ==
  [g \in Groups |-> IF InGroup(rs, g) > 0 THEN InGroup(rs, g) ELSE old[g]]

(* The tools configuration c asks for, and whether they can be loaded. *)
Merged(c) == FlattenSeq([i \in DOMAIN c.list |-> Tagged(c.list[i], c.opts)])
Wanted(c) == Index(Merged(c))
Loadable(c) ==
  \A i \in DOMAIN c.list :
    files[c.list[i]] # Missing /\ parse[files[c.list[i]], c.opts].valid

-----------------------------------------------------------------------------
TypeOK ==
  /\ files \in [Makefiles -> Texts \cup {Missing}]
  /\ configFile \in Configs \cup {BadConfig}
  /\ owed \in SUBSET Paths
  /\ feed \in Seq(Paths) /\ Len(feed) <= FeedCap
  /\ open \in BOOLEAN /\ stranded \in BOOLEAN
  /\ watched \subseteq Paths /\ moved \subseteq Paths /\ unseen \subseteq Paths
  /\ cfg \in Configs /\ serverCfg \in Configs
  /\ pc \in {"boot", "watch", "failed",
             "select", "parse", "setTools", "notify", "record", "returned"}
  /\ job = NoJob <=> pc \in {"watch", "failed", "select", "returned"}
  /\ job # NoJob => job \in Jobs /\ job.done <= Len(job.next.list)
  /\ \A t \in {recipes, mcpTools} : DOMAIN t \subseteq Ids /\ \A id \in DOMAIN t : t[id] \in Recipe
  /\ gauge \in [Groups -> Nat]
  /\ notices \subseteq Clients /\ stale \subseteq Clients
  /\ call \in Calls \cup {NoCall}
  /\ ctxDone \in BOOLEAN
  /\ edits \in 0..MaxEdits

Job(c) == [next |-> c, done |-> 0, merged |-> <<>>, valid |-> TRUE]

(* run() has loaded a configuration that names a Makefile, and has parsed  *)
(* none yet.                                                               *)
Init ==
  /\ files \in [Makefiles -> Texts \cup {Missing}]
  /\ configFile \in {c \in Configs : c.list # <<>>}
  /\ Watch!FeedInit
  /\ watched = {} /\ moved = {} /\ unseen = {}
  /\ cfg = configFile
  /\ serverCfg = cfg
  /\ pc = "boot"
  /\ job = Job(cfg)
  /\ recipes = <<>>
  /\ mcpTools = <<>>
  /\ gauge = [g \in Groups |-> 0]
  /\ notices = {}
  /\ stale = {}
  /\ call = NoCall
  /\ ctxDone = FALSE
  /\ edits = 0

-----------------------------------------------------------------------------
(* The environment: editors, the watcher, cancellation. *)

(* The first parse of p is still to come. *)
StillToRead(p) ==
  pc = "boot" /\ p # ConfigFile /\ \A i \in 1..job.done : job.next.list[i] # p

(* Where a change goes unnoticed: a save that ends the watch, one before   *)
(* there is a watch, and one of a file the server was not started with.    *)
Gap(p, how) ==
  \/ how # "write"
  \/ pc \in {"boot", "watch"}
  \/ \A i \in DOMAIN serverCfg.list : serverCfg.list[i] # p

(* What a save of p does to its watch and who is told of it. *)
Touch(p, how) ==
  LET told == how = "write" /\ p \in watched /\ open IN
  /\ IF told THEN Watch!Note(p) ELSE UNCHANGED feedVars
  /\ watched' = IF how = "write" THEN watched ELSE watched \ {p}
  /\ moved' = IF how = "moveAway" /\ p \in watched THEN moved \cup {p} ELSE moved
  /\ unseen' = IF told \/ StillToRead(p) THEN unseen \ {p}
               ELSE IF Gap(p, how) THEN unseen \cup {p} ELSE unseen

EditMakefile(f, text, how) ==
  /\ pc # "failed"
  /\ edits < MaxEdits
  /\ files[f] = Missing => how = "replace"
  /\ text = Missing => how # "write" /\ files[f] # Missing
  /\ how = "moveAway" => text = Missing
  /\ edits' = edits + 1
  /\ files' = [files EXCEPT ![f] = text]
  /\ Touch(f, how)
  /\ UNCHANGED <<configFile, cfg, serverCfg, pc, job, tableVars, clientVars, ctxDone>>

EditConfig(c, how) ==
  /\ pc # "failed"
  /\ edits < MaxEdits
  /\ how = "moveAway" => c = BadConfig
  /\ edits' = edits + 1
  /\ configFile' = c
  /\ Touch(ConfigFile, how)
  /\ UNCHANGED <<files, cfg, serverCfg, pc, job, tableVars, clientVars, ctxDone>>

(* The watcher's loop reads the Rename event: it adds the path again, which *)
(* fails unless a file is back, and records the change either way.          *)
LoopRename(p) ==
  /\ open
  /\ p \in moved
  /\ moved' = moved \ {p}
  /\ \E there \in IF p \in Makefiles THEN {files[p] # Missing} ELSE {TRUE, configFile # BadConfig} :
       watched' = IF there THEN watched \cup {p} ELSE watched
  /\ Watch!Note(p)
  /\ unseen' = unseen \ {p}
  /\ UNCHANGED <<fileVars, cfg, serverCfg, pc, job, tableVars, clientVars, ctxDone>>

Announce(p) ==
  /\ Watch!Announce(p)
  /\ UNCHANGED <<fileVars, watched, moved, unseen, cfg, serverCfg, pc, job, tableVars, clientVars, ctxDone>>

(* A flush has put a path back that the full channel refused, and armed    *)
(* nothing for it (Watcher's NoLostWakeup and RetriedAfterFull).           *)
Strand ==
  /\ Watch!Strand
  /\ UNCHANGED <<fileVars, watched, moved, unseen, cfg, serverCfg, pc, job, tableVars, clientVars, ctxDone>>

Cancel ==
  /\ ~ctxDone
  /\ ctxDone' = TRUE
  /\ UNCHANGED <<fileVars, watchVars, cfg, serverCfg, pc, job, tableVars, clientVars>>

-----------------------------------------------------------------------------
(* Start-up: run parses, ToolServer.New fills the empty tables, and then   *)
(* the files are watched.  Only after that are clients served.             *)

Parsing == pc \in {"boot", "parse"}

Parsed(ok) == job # NoJob /\ job.done = Len(job.next.list) /\ job.valid = ok

Abandon == pc' = (IF pc = "boot" THEN "failed" ELSE "select") /\ job' = NoJob

New ==
  /\ pc = "boot"
  /\ Parsed(TRUE)
  /\ recipes' = Index(job.merged)
  /\ mcpTools' = recipes'
  /\ gauge' = Recorded(gauge, job.merged)
  /\ pc' = "watch"
  /\ job' = NoJob
  /\ UNCHANGED <<fileVars, watchVars, cfg, serverCfg, clientVars, ctxDone>>

WatchPaths == {cfg.list[i] : i \in DOMAIN cfg.list} \cup {ConfigFile}

(* Mutant: only the first Makefile is watched. *)
NewWatcherFirst ==
  /\ pc = "watch"
  /\ watched' = {cfg.list[1], ConfigFile}
  /\ pc' = "select"
  /\ UNCHANGED <<fileVars, feedVars, moved, unseen, cfg, serverCfg, job, tableVars, clientVars,
                 ctxDone>>

(* watcher.New fails when a file has gone, or fsnotify is out of watches. *)
NewWatcher ==
  /\ pc = "watch"
  /\ \/ /\ \A f \in WatchPaths \cap Makefiles : files[f] # Missing
        /\ watched' = WatchPaths
        /\ pc' = "select"
     \/ pc' = "failed" /\ UNCHANGED watched
  /\ UNCHANGED <<fileVars, feedVars, moved, unseen, cfg, serverCfg, job, tableVars, clientVars,
                 ctxDone>>

-----------------------------------------------------------------------------
(* watchLoop and ToolServer.Reload. *)

StartJob(next) == pc' = "parse" /\ job' = Job(next)

TakeEvent ==
  /\ pc = "select"
  /\ Watch!Take
  /\ IF Head(feed) # ConfigPath THEN StartJob(cfg)
     ELSE IF configFile = BadConfig THEN UNCHANGED <<pc, job>>
     ELSE StartJob(configFile)
  /\ UNCHANGED <<fileVars, watched, moved, unseen, cfg, serverCfg, tableVars, clientVars,
                 ctxDone>>

(* Mutant: an invalid Makefile is skipped, and the rest is loaded. *)
ParseSkipsInvalid ==
  /\ Parsing
  /\ job.done < Len(job.next.list)
  /\ LET f == job.next.list[job.done + 1] IN
       IF files[f] = Missing THEN Abandon
       ELSE /\ job' = [job EXCEPT !.done = @ + 1,
                                  !.merged = IF parse[files[f], job.next.opts].valid
                                             THEN @ \o Tagged(f, job.next.opts) ELSE @]
            /\ UNCHANGED pc
  /\ UNCHANGED <<fileVars, watchVars, cfg, serverCfg, tableVars, clientVars, ctxDone>>

(* One round of ParseMakefiles, at start-up and in a reload. *)
ParseMakefilePath ==
  /\ Parsing
  /\ job.done < Len(job.next.list)
  /\ LET f == job.next.list[job.done + 1] IN
       IF files[f] = Missing THEN Abandon
       ELSE /\ job' = [job EXCEPT !.done = @ + 1,
                                  !.merged = @ \o Tagged(f, job.next.opts),
                                  !.valid = @ /\ parse[files[f], job.next.opts].valid]
            /\ UNCHANGED pc
  /\ UNCHANGED <<fileVars, watchVars, cfg, serverCfg, tableVars, clientVars, ctxDone>>

(* Mutant: the rejected job is left behind. *)
RejectUnfinished ==
  /\ Parsing
  /\ Parsed(FALSE)
  /\ pc' = "select"
  /\ UNCHANGED <<fileVars, watchVars, cfg, serverCfg, job, tableVars, clientVars, ctxDone>>

Reject ==
  /\ Parsing
  /\ Parsed(FALSE)
  /\ Abandon
  /\ UNCHANGED <<fileVars, watchVars, cfg, serverCfg, tableVars, clientVars, ctxDone>>

(* Mutant: the library is updated before the registry. *)
SwapLibraryFirst ==
  /\ pc = "parse"
  /\ Parsed(TRUE)
  /\ mcpTools' = Index(job.merged)
  /\ pc' = "setTools"
  /\ UNCHANGED <<fileVars, watchVars, cfg, serverCfg, job, recipes, gauge, clientVars, ctxDone>>

Swap ==
  /\ pc = "parse"
  /\ Parsed(TRUE)
  /\ recipes' = Index(job.merged)
  /\ pc' = "setTools"
  /\ UNCHANGED <<fileVars, watchVars, cfg, serverCfg, job, mcpTools, gauge, clientVars, ctxDone>>

SetTools ==
  /\ pc = "setTools"
  /\ mcpTools' = Index(job.merged)
  /\ stale' = IF mcpTools' = mcpTools THEN stale ELSE Clients
  /\ pc' = "notify"
  /\ UNCHANGED <<fileVars, watchVars, cfg, serverCfg, job, recipes, gauge, notices, call, ctxDone>>

(* Mutant: nobody is told. *)
NotifyNobody ==
  /\ pc = "notify"
  /\ pc' = "record"
  /\ UNCHANGED <<fileVars, watchVars, cfg, serverCfg, job, tableVars, clientVars, ctxDone>>

Notify ==
  /\ pc = "notify"
  /\ notices' = Clients
  /\ pc' = "record"
  /\ UNCHANGED <<fileVars, watchVars, cfg, serverCfg, job, tableVars, stale, call, ctxDone>>

Record ==
  /\ pc = "record"
  /\ gauge' = Recorded(gauge, job.merged)
  /\ cfg' = job.next
  /\ Abandon
  /\ UNCHANGED <<fileVars, watchVars, serverCfg, recipes, mcpTools, clientVars, ctxDone>>

(* run() has returned: the deferred Close of the watcher may shut the feed. *)
Return ==
  /\ pc = "select"
  /\ ctxDone
  /\ pc' = "returned"
  /\ \/ Watch!Shut
     \/ UNCHANGED feedVars
  /\ UNCHANGED <<fileVars, watched, moved, unseen, cfg, serverCfg, job, tableVars, clientVars, ctxDone>>

-----------------------------------------------------------------------------
(* Clients. *)

Serving == pc \notin {"boot", "watch", "failed"}

ListTools(c) ==
  /\ c \in notices
  /\ notices' = notices \ {c}
  /\ stale' = stale \ {c}
  /\ UNCHANGED <<fileVars, watchVars, cfg, serverCfg, pc, job, tableVars, call, ctxDone>>

(* The library finds the tool in its table and starts the handler. *)
Accept(id) ==
  /\ Serving
  /\ call = NoCall
  /\ id \in DOMAIN mcpTools
  /\ call' = [id |-> id, state |-> "accepted"]
  /\ UNCHANGED <<fileVars, watchVars, cfg, serverCfg, pc, job, tableVars, notices, stale, ctxDone>>

(* handleToolCall looks the recipe up in the registry. *)
GetRecipe ==
  /\ call # NoCall
  /\ call.state = "accepted"
  /\ call' = [call EXCEPT !.state = IF call.id \in DOMAIN recipes THEN "running" ELSE "refused"]
  /\ UNCHANGED <<fileVars, watchVars, cfg, serverCfg, pc, job, tableVars, notices, stale, ctxDone>>

Answer ==
  /\ call # NoCall
  /\ call.state # "accepted"
  /\ call' = NoCall
  /\ UNCHANGED <<fileVars, watchVars, cfg, serverCfg, pc, job, tableVars, notices, stale, ctxDone>>

-----------------------------------------------------------------------------
Watcher == Strand \/ \E p \in Paths : LoopRename(p) \/ Announce(p)

Environment ==
  \/ \E f \in Makefiles, text \in Texts \cup {Missing}, how \in Saves : EditMakefile(f, text, how)
  \/ \E c \in Configs \cup {BadConfig}, how \in Saves : EditConfig(c, how)
  \/ Watcher
  \/ Cancel

watchLoop ==
  TakeEvent \/ ParseMakefilePath \/ Reject \/ Swap \/ SetTools \/ Notify \/ Record \/ Return

run == New \/ NewWatcher \/ watchLoop

Client ==
  \/ \E c \in Clients : ListTools(c)
  \/ \E id \in Ids : Accept(id)
  \/ GetRecipe
  \/ Answer

Next == Environment \/ run \/ Client

Spec == Init /\ [][Next]_vars

(* The watcher reads its events and announces what it owes while there is  *)
(* room and nothing is stranded (Watcher's ChangesAnnounced), run and      *)
(* watchLoop run, and clients list when told to.                           *)
FairSpec ==
  /\ Spec
  /\ WF_vars(\E p \in Paths : LoopRename(p))
  /\ WF_vars(\E p \in Paths : Announce(p))
  /\ WF_vars(run)
  /\ \A c \in Clients : WF_vars(ListTools(c))

-----------------------------------------------------------------------------
Installing == pc \in {"setTools", "notify", "record"}

(* The registry is never behind the library: they differ only between the  *)
(* two steps of Reload, while the registry holds what is being installed.  *)
RegistryAhead == recipes = mcpTools \/ (pc = "setTools" /\ recipes = Index(job.merged))

(* A call the library accepted is refused only because a reload, finished  *)
(* or under way, has removed its tool: a tool that is there before and     *)
(* after a reload is callable throughout.                                  *)
RefusedOnlyIfRemoved ==
  [][GetRecipe /\ call'.state = "refused"
       => call.id \notin DOMAIN mcpTools \/ (pc = "setTools" /\ call.id \notin DOMAIN Index(job.merged))]_vars

(* t is what configuration c makes of one valid text for each Makefile it  *)
(* lists.                                                                  *)
FromValid(t, c) ==
  \E read \in [DOMAIN c.list -> Texts] :
    /\ \A i \in DOMAIN c.list : parse[read[i], c.opts].valid
    /\ t = Index(FlattenSeq([i \in DOMAIN c.list |-> TagOf(c.list[i], read[i], c.opts)]))

(* Nothing an invalid Makefile contains is ever served, nor anything read  *)
(* together with it: what is served is all that one valid text of every    *)
(* Makefile of the configuration in force defines, under its options.      *)
OnlyValidated == Serving => FromValid(mcpTools, IF pc \in {"notify", "record"} THEN job.next ELSE cfg)

(* Between reloads the gauge counts every registered tool under the labels *)
(* it has now, whatever the reloads before moved from one group to another *)
(* (duplicates and groups that have vanished may make it higher).          *)
GaugeCovers ==
  pc \in {"watch", "select"} =>
    \A g \in Groups : gauge[g] >= Cardinality({id \in DOMAIN recipes : recipes[id].group = g})

(* The server did not start, or is told to end. *)
Over == pc = "failed" \/ ctxDone

(* Whose last change watchLoop will not hear of before the next one. *)
Missed == unseen \cup (IF stranded THEN owed ELSE {})

(* When edits stop, the tools served become those the files now describe   *)
(* under the configuration in force, if they can be loaded at all, unless  *)
(* one of its Makefiles was last changed where nobody looks: between its   *)
(* first parse and its watch, by or after a save that ended the watch, or  *)
(* although it was not on the list the server started with; or unless its  *)
(* change is stranded in the watcher.                                      *)
Converges ==
  <>Over \/ <>[](Loadable(cfg) /\ Missed \cap WatchPaths \subseteq {ConfigFile}
                   => mcpTools = Wanted(cfg) /\ recipes = mcpTools)

(* Every client that lists when notified ends up with the current list.    *)
ClientsConverge == <>Over \/ <>[](stale = {})

-----------------------------------------------------------------------------
(* What the documentation says and the code does not do. *)

(* Architecture.md, configuration reload: a change of delimiter re-parses  *)
(* all Makefiles with the new one, so the configuration on disk is the one *)
(* in force once it can be loaded and nothing changes any more.            *)
ConfigTakesEffect ==
  <>Over \/ <>[](configFile # BadConfig /\ Loadable(configFile) /\ Missed = {}
                   => cfg = configFile)

(* watcher.go:113: a file that an atomic save replaces is watched again.   *)
ReplacedIsWatched ==
  <>Over \/ <>[](\A p \in WatchPaths \cap Makefiles : files[p] # Missing => p \in watched)
=============================================================================
