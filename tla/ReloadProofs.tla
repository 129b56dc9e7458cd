---------------------------- MODULE ReloadProofs ---------------------------
(***************************************************************************)
(* Proofs about Reload, for every set of Makefiles, texts, configurations, *)
(* clients and edits, and whatever parsing makes of a text.                *)
(***************************************************************************)
EXTENDS Reload, FiniteSetTheorems, SequenceTheorems, TLAPS

(* A set of natural numbers has a least element. *)
LEMMA Least ==
  ASSUME NEW S \in SUBSET Nat, S # {}
  PROVE  \E n \in S : \A k \in S : n <= k
<1>1. \E n \in S : \A k \in S : <<k, n>> \notin OpToRel(<, Nat)
  BY NatLessThanWellFounded, WFMin
<1>2. PICK n \in S : \A k \in S : ~(k < n)
  BY <1>1 DEF OpToRel
<1> QED
  BY <1>2

(* A set of indices has a last one. *)
LEMMA LastIndex ==
  ASSUME NEW n \in Nat, NEW I \in SUBSET (1..n), I # {}
  PROVE  \E i \in I : \A j \in I : j <= i
<1> DEFINE S == {n - i : i \in I}
<1>1. S \in SUBSET Nat /\ S # {}
  <2>1. \A i \in I : i \in 1..n /\ n - i \in Nat
    OBVIOUS
  <2> QED
    BY <2>1
<1>2. PICK k \in S : \A x \in S : k <= x
  BY <1>1, Least
<1>3. PICK i \in I : k = n - i
  BY <1>2
<1>4. ASSUME NEW j \in I PROVE j <= i
  <2>1. n - i <= n - j
    BY <1>2, <1>3
  <2> QED
    BY <2>1
<1> QED
  BY <1>3, <1>4

(* An index has, for each ID that occurs, a recipe of that ID.             *)
LEMMA Indexed ==
  ASSUME NEW rs \in Seq(Recipe)
  PROVE  /\ DOMAIN Index(rs) = {rs[i].id : i \in DOMAIN rs}
         /\ DOMAIN Index(rs) \subseteq Ids
         /\ \A id \in DOMAIN Index(rs) :
              \E i \in DOMAIN rs : rs[i].id = id /\ Index(rs)[id] = rs[i] /\ rs[i] \in Recipe
<1>1. Len(rs) \in Nat /\ DOMAIN rs = 1..Len(rs) /\ \A i \in DOMAIN rs : rs[i] \in Recipe
  OBVIOUS
<1>2. ASSUME NEW id \in {rs[i].id : i \in DOMAIN rs}
      PROVE  \E i \in DOMAIN rs : rs[i].id = id /\ Index(rs)[id] = rs[i]
  <2> DEFINE I == {i \in DOMAIN rs : rs[i].id = id}
             Later(i) == rs[i].id = id /\ \A j \in DOMAIN rs : rs[j].id = id => j <= i
  <2>1. I # {} /\ I \in SUBSET (1..Len(rs))
    BY <1>1, <1>2
  <2>2. \E i \in I : \A j \in I : j <= i
    BY <1>1, <2>1, LastIndex
  <2>3. \E i \in DOMAIN rs : Later(i)
    BY <2>2
  <2>4. Index(rs)[id] = rs[CHOOSE i \in DOMAIN rs : Later(i)]
    BY <1>2 DEF Index
  <2> QED
    BY <2>3, <2>4
<1>3. DOMAIN Index(rs) = {rs[i].id : i \in DOMAIN rs}
  BY DEF Index
<1> QED
  BY <1>1, <1>2, <1>3 DEF Recipe

(* Recording installs values that count every ID of the index. *)
LEMMA RecordedFacts ==
  ASSUME NEW rs \in Seq(Recipe), NEW old \in [Groups -> Nat]
  PROVE  /\ Recorded(old, rs) \in [Groups -> Nat]
         /\ \A g \in Groups :
              Recorded(old, rs)[g] >=
                Cardinality({id \in DOMAIN Index(rs) : Index(rs)[id].group = g})
<1>0. \A id \in DOMAIN Index(rs) : \E i \in DOMAIN rs : rs[i].id = id /\ Index(rs)[id] = rs[i]
  BY Indexed
<1>1. ASSUME NEW g \in Groups
      PROVE  /\ InGroup(rs, g) \in Nat
             /\ Cardinality({id \in DOMAIN Index(rs) : Index(rs)[id].group = g}) <= InGroup(rs, g)
  <2> DEFINE I == {i \in DOMAIN rs : rs[i].group = g}
             D == {id \in DOMAIN Index(rs) : Index(rs)[id].group = g}
             At(id, i) == rs[i].id = id /\ Index(rs)[id] = rs[i]
             f == [id \in D |-> CHOOSE i \in I : At(id, i)]
  <2>1. Len(rs) \in Nat /\ I \subseteq 1..Len(rs)
    OBVIOUS
  <2>2. IsFiniteSet(I)
    BY <2>1, FS_Interval, FS_Subset
  <2>3. Cardinality(I) \in Nat
    BY <2>2, FS_CardinalityType
  <2>4. ASSUME NEW id \in D PROVE f[id] \in I /\ rs[f[id]].id = id
    <3>1. \E i \in I : At(id, i)
      BY <1>0
    <3>2. f[id] = CHOOSE i \in I : At(id, i)
      OBVIOUS
    <3> HIDE DEF f, I
    <3> QED
      BY <3>1, <3>2
  <2>5. f \in [D -> I]
    BY <2>4
  <2> HIDE DEF f, I, D
  <2>6. \A a, b \in D : f[a] = f[b] => a = b
    BY <2>4
  <2>7. f \in Injection(D, I)
    BY <2>5, <2>6 DEF Injection, IsInjective
  <2>8. Cardinality(D) <= Cardinality(I)
    BY <2>2, <2>7, FS_Injection
  <2> QED
    BY <2>3, <2>8 DEF I, D, InGroup
<1>2. ASSUME NEW g \in Groups, InGroup(rs, g) = 0
      PROVE  Cardinality({id \in DOMAIN Index(rs) : Index(rs)[id].group = g}) = 0
  <2> DEFINE I == {i \in DOMAIN rs : rs[i].group = g}
  <2>1. IsFiniteSet(I)
    <3>1. Len(rs) \in Nat /\ I \subseteq 1..Len(rs)
      OBVIOUS
    <3> QED
      BY <3>1, FS_Interval, FS_Subset
  <2>2. I = {}
    BY <1>2, <2>1, FS_EmptySet DEF InGroup
  <2>3. {id \in DOMAIN Index(rs) : Index(rs)[id].group = g} = {}
    BY <1>0, <2>2
  <2> QED
    BY <2>3, FS_EmptySet
<1>3. Recorded(old, rs) \in [Groups -> Nat]
  BY <1>1 DEF Recorded
<1>4. ASSUME NEW g \in Groups
      PROVE  Recorded(old, rs)[g] >=
               Cardinality({id \in DOMAIN Index(rs) : Index(rs)[id].group = g})
  <2>1. Recorded(old, rs)[g] = IF InGroup(rs, g) > 0 THEN InGroup(rs, g) ELSE old[g]
    BY DEF Recorded
  <2> QED
    BY <1>1, <1>2, <2>1
<1> QED
  BY <1>3, <1>4

-----------------------------------------------------------------------------
(* The types, in the groups of variables that actions share. *)
FilesOK ==
  /\ files \in [Makefiles -> Texts \cup {Missing}]
  /\ configFile \in Configs \cup {BadConfig}
  /\ edits \in 0..MaxEdits

WatchOK ==
  /\ owed \in SUBSET Paths
  /\ feed \in Seq(Paths) /\ Len(feed) <= FeedCap
  /\ open \in BOOLEAN /\ stranded \in BOOLEAN
  /\ watched \subseteq Paths /\ moved \subseteq Paths /\ unseen \subseteq Paths

LoopOK ==
  /\ cfg \in Configs /\ serverCfg \in Configs
  /\ pc \in {"boot", "watch", "failed",
             "select", "parse", "setTools", "notify", "record", "returned"}
  /\ job = NoJob <=> pc \in {"watch", "failed", "select", "returned"}
  /\ job # NoJob => job \in Jobs /\ job.done <= Len(job.next.list)

IsTable(t) == DOMAIN t \subseteq Ids /\ \A id \in DOMAIN t : t[id] \in Recipe

TablesOK == IsTable(recipes) /\ IsTable(mcpTools) /\ gauge \in [Groups -> Nat]

ClientsOK ==
  /\ notices \subseteq Clients /\ stale \subseteq Clients
  /\ call \in Calls \cup {NoCall}
  /\ ctxDone \in BOOLEAN

Types == FilesOK /\ WatchOK /\ LoopOK /\ TablesOK /\ ClientsOK

LEMMA TypesAreTypes == Types => TypeOK
BY DEF Types, TypeOK, FilesOK, WatchOK, LoopOK, TablesOK, ClientsOK, IsTable

(* The assumptions on the constants, in the form the steps use them. *)
LEMMA Limits ==
  /\ FeedCap \in Nat /\ FeedCap > 0 /\ MaxEdits \in Nat
  /\ NoJob \notin Jobs /\ NoCall \notin Calls
BY ReloadAssumption

LEMMA ConfigFacts ==
  ASSUME NEW c \in Configs
  PROVE  /\ c.list \in Seq(Makefiles)
         /\ Len(c.list) \in Nat /\ DOMAIN c.list = 1..Len(c.list)
         /\ \A i \in DOMAIN c.list : c.list[i] \in Makefiles
         /\ Job(c) \in Jobs /\ Job(c) # NoJob
         /\ Job(c).next = c /\ Job(c).done = 0 /\ Job(c).merged = <<>> /\ Job(c).valid
<1>1. c \in [list : Seq(Makefiles), opts : {x[2] : x \in DOMAIN parse}]
  BY ReloadAssumption
<1>2. c.list \in Seq(Makefiles)
  BY <1>1
<1>3. <<>> \in Seq(Recipe)
  OBVIOUS
<1>4. Job(c) \in Jobs
  BY <1>3 DEF Job, Jobs
<1>5. Job(c) # NoJob
  BY <1>4, Limits
<1>6. Job(c).next = c /\ Job(c).done = 0 /\ Job(c).merged = <<>> /\ Job(c).valid
  BY DEF Job
<1>7. /\ Len(c.list) \in Nat /\ DOMAIN c.list = 1..Len(c.list)
      /\ \A i \in DOMAIN c.list : c.list[i] \in Makefiles
  BY <1>2
<1> QED
  BY <1>2, <1>4, <1>5, <1>6, <1>7

LEMMA ParseFacts ==
  ASSUME NEW c \in Configs, NEW t \in Texts
  PROVE  /\ parse[t, c.opts].valid \in BOOLEAN
         /\ parse[t, c.opts].recipes \in Seq([id : Ids, body : Bodies, group : Groups])
<1>1. <<t, c.opts>> \in DOMAIN parse
  BY ReloadAssumption
<1> QED
  BY <1>1, ReloadAssumption

(* What is parsed from a Makefile that is there. *)
LEMMA TaggedFacts ==
  ASSUME FilesOK, NEW c \in Configs, NEW f \in Makefiles, files[f] # Missing
  PROVE  /\ Tagged(f, c.opts) \in Seq(Recipe)
         /\ files[f] \in Texts
         /\ \A k \in DOMAIN Tagged(f, c.opts) :
              /\ Tagged(f, c.opts)[k].file = f
              /\ k \in DOMAIN parse[files[f], c.opts].recipes
              /\ Tagged(f, c.opts)[k] = Tag(f, parse[files[f], c.opts].recipes[k])
<1> DEFINE rs == parse[files[f], c.opts].recipes
<1>1. files[f] \in Texts
  BY DEF FilesOK
<1>2. rs \in Seq([id : Ids, body : Bodies, group : Groups])
  BY <1>1, ParseFacts
<1>3. Tagged(f, c.opts) = [k \in DOMAIN rs |-> Tag(f, rs[k])]
  BY DEF Tagged, TagOf
<1> HIDE DEF rs
<1>4. /\ Len(rs) \in Nat /\ DOMAIN rs = 1..Len(rs)
      /\ \A k \in DOMAIN rs : Tag(f, rs[k]) \in Recipe /\ Tag(f, rs[k]).file = f
  <2>1. /\ Len(rs) \in Nat /\ DOMAIN rs = 1..Len(rs)
        /\ \A k \in DOMAIN rs : rs[k] \in [id : Ids, body : Bodies, group : Groups]
    <3> DEFINE R == [id : Ids, body : Bodies, group : Groups]
    <3>1. rs \in Seq(R)
      BY <1>2
    <3> HIDE DEF R
    <3>2. Len(rs) \in Nat /\ DOMAIN rs = 1..Len(rs) /\ \A k \in DOMAIN rs : rs[k] \in R
      BY <3>1
    <3> QED
      BY <3>2 DEF R
  <2>2. \A r \in [id : Ids, body : Bodies, group : Groups] :
          Tag(f, r) \in Recipe /\ Tag(f, r).file = f
    BY DEF Tag, Recipe
  <2> QED
    BY <2>1, <2>2
<1>5. Tagged(f, c.opts) \in Seq(Recipe)
  BY <1>3, <1>4
<1> QED
  BY <1>1, <1>3, <1>4, <1>5 DEF rs

JobOf(c, d, m, v) == [next |-> c, done |-> d, merged |-> m, valid |-> v]

LEMMA JobFacts ==
  ASSUME NEW c, NEW d, NEW m, NEW v
  PROVE  /\ JobOf(c, d, m, v).next = c /\ JobOf(c, d, m, v).done = d
         /\ JobOf(c, d, m, v).merged = m /\ JobOf(c, d, m, v).valid = v
         /\ c \in Configs /\ d \in Nat /\ m \in Seq(Recipe) /\ v \in BOOLEAN
              => JobOf(c, d, m, v) \in Jobs
BY DEF JobOf, Jobs

(* One round of parsing abandons the job or adds a Makefile's recipes.      *)
LEMMA ParsedFacts ==
  ASSUME Types, ParseMakefilePath
  PROVE  LET f == job.next.list[job.done + 1] IN
           /\ job \in Jobs /\ job.next \in Configs /\ f \in Makefiles
           /\ job.done + 1 \in DOMAIN job.next.list
           /\ \/ Abandon
              \/ /\ files[f] # Missing
                 /\ pc' = pc
                 /\ job' = JobOf(job.next, job.done + 1,
                                 job.merged \o Tagged(f, job.next.opts),
                                 job.valid /\ parse[files[f], job.next.opts].valid)
<1> DEFINE f == job.next.list[job.done + 1]
<1>1. job # NoJob
  BY DEF Types, LoopOK, ParseMakefilePath, Parsing
<1>2. job \in Jobs /\ job.next \in Configs /\ job.done \in Nat /\ job.done < Len(job.next.list)
  BY <1>1 DEF Types, LoopOK, Jobs, ParseMakefilePath
<1>3. DOMAIN job.next.list = 1..Len(job.next.list) /\ Len(job.next.list) \in Nat
      /\ \A i \in DOMAIN job.next.list : job.next.list[i] \in Makefiles
  BY <1>2, ConfigFacts
<1>4. job.done + 1 \in DOMAIN job.next.list /\ f \in Makefiles
  <2>1. job.done + 1 \in 1..Len(job.next.list)
    BY <1>2, <1>3
  <2> QED
    BY <1>3, <2>1
<1>5. job = [next |-> job.next, done |-> job.done, merged |-> job.merged, valid |-> job.valid]
  BY <1>2 DEF Jobs
<1>6. CASE ~Abandon
  <2>1. /\ files[f] # Missing
        /\ job' = [job EXCEPT !.done = @ + 1,
                              !.merged = @ \o Tagged(f, job.next.opts),
                              !.valid = @ /\ parse[files[f], job.next.opts].valid]
        /\ pc' = pc
    BY <1>6 DEF ParseMakefilePath
  <2>2. job' = JobOf(job.next, job.done + 1, job.merged \o Tagged(f, job.next.opts),
                     job.valid /\ parse[files[f], job.next.opts].valid)
    BY <1>5, <2>1 DEF JobOf
  <2> QED
    BY <1>2, <1>4, <2>1, <2>2
<1> QED
  BY <1>2, <1>4, <1>6

LEMMA InitTypes == Init => Types
<1> SUFFICES ASSUME Init PROVE Types
  OBVIOUS
<1>1. FilesOK /\ ClientsOK
  <2>1. 0 \in 0..MaxEdits
    BY Limits
  <2> QED
    BY <2>1 DEF Init, FilesOK, ClientsOK
<1>2. WatchOK
  <2>1. feed = <<>> /\ owed = {} /\ open = TRUE /\ stranded = FALSE
    BY DEF Init, Watch!FeedInit
  <2>2. feed \in Seq(Paths) /\ Len(feed) <= FeedCap
    BY <2>1, Limits
  <2> QED
    BY <2>1, <2>2 DEF Init, WatchOK
<1>3. LoopOK
  <2>1. job = Job(cfg) /\ cfg \in Configs /\ serverCfg = cfg /\ pc = "boot"
    BY DEF Init
  <2>2. /\ job \in Jobs /\ job # NoJob /\ job.done = 0 /\ job.next = cfg
        /\ Len(cfg.list) \in Nat
    BY <2>1, ConfigFacts
  <2> QED
    BY <2>1, <2>2 DEF LoopOK
<1>4. TablesOK
  BY DEF Init, TablesOK, IsTable
<1> QED
  BY <1>1, <1>2, <1>3, <1>4 DEF Types

(* The change feed keeps its types. *)
LEMMA FeedTypes ==
  ASSUME WatchOK, \/ \E p \in Paths : Watch!Note(p) \/ Watch!Announce(p)
                  \/ Watch!Strand \/ Watch!Take \/ Watch!Shut
  PROVE  /\ owed' \in SUBSET Paths
         /\ feed' \in Seq(Paths) /\ Len(feed') <= FeedCap
         /\ open' \in BOOLEAN /\ stranded' \in BOOLEAN
<1>1. CASE \E p \in Paths : Watch!Note(p)
  BY <1>1 DEF WatchOK, Watch!Note
<1>2. CASE \E p \in Paths : Watch!Announce(p)
  BY <1>2, Limits, AppendProperties DEF WatchOK, Watch!Announce
<1>3. CASE Watch!Take
  BY <1>3, Limits, HeadTailProperties DEF WatchOK, Watch!Take
<1>4. CASE Watch!Shut
  BY <1>4 DEF WatchOK, Watch!Shut
<1>5. CASE Watch!Strand
  BY <1>5 DEF WatchOK, Watch!Strand
<1> QED
  BY <1>1, <1>2, <1>3, <1>4, <1>5

LEMMA TouchTypes ==
  ASSUME WatchOK, NEW p \in Paths, NEW how, Touch(p, how)
  PROVE  WatchOK'
<1>1. watched' \subseteq Paths /\ moved' \subseteq Paths /\ unseen' \subseteq Paths
  BY DEF WatchOK, Touch
<1>2. CASE UNCHANGED feedVars
  BY <1>1, <1>2 DEF WatchOK, feedVars
<1>3. CASE Watch!Note(p)
  BY <1>1, <1>3, FeedTypes DEF WatchOK
<1> QED
  BY <1>2, <1>3 DEF Touch

LEMMA EnvironmentTypes ==
  ASSUME Types, Environment
  PROVE  Types'
<1> USE DEF Types
<1>1. ASSUME NEW f \in Makefiles, NEW text \in Texts \cup {Missing}, NEW how \in Saves,
             EditMakefile(f, text, how)
      PROVE  Types'
  <2>1. FilesOK'
    BY <1>1, Limits DEF EditMakefile, FilesOK
  <2>2. WatchOK'
    BY <1>1, TouchTypes DEF EditMakefile, Paths
  <2>3. LoopOK' /\ TablesOK' /\ ClientsOK'
    BY <1>1 DEF EditMakefile, LoopOK, TablesOK, IsTable, ClientsOK, tableVars, clientVars
  <2> QED
    BY <2>1, <2>2, <2>3
<1>2. ASSUME NEW c \in Configs \cup {BadConfig}, NEW how \in Saves, EditConfig(c, how)
      PROVE  Types'
  <2>1. FilesOK'
    BY <1>2, Limits DEF EditConfig, FilesOK
  <2>2. WatchOK'
    BY <1>2, TouchTypes DEF EditConfig, Paths
  <2>3. LoopOK' /\ TablesOK' /\ ClientsOK'
    BY <1>2 DEF EditConfig, LoopOK, TablesOK, IsTable, ClientsOK, tableVars, clientVars
  <2> QED
    BY <2>1, <2>2, <2>3
<1>3. ASSUME NEW p \in Paths, LoopRename(p)
      PROVE  Types'
  <2>1. WatchOK'
    <3>1. watched' \subseteq Paths /\ moved' \subseteq Paths /\ unseen' \subseteq Paths
      BY <1>3 DEF LoopRename, WatchOK
    <3>2. Watch!Note(p)
      BY <1>3 DEF LoopRename
    <3> QED
      BY <3>1, <3>2, FeedTypes DEF WatchOK
  <2>2. FilesOK' /\ LoopOK' /\ TablesOK' /\ ClientsOK'
    BY <1>3 DEF LoopRename, FilesOK, LoopOK, TablesOK, IsTable, ClientsOK, fileVars, tableVars, clientVars
  <2> QED
    BY <2>1, <2>2
<1>4. ASSUME NEW p \in Paths, Announce(p)
      PROVE  Types'
  <2>1. WatchOK'
    BY <1>4, FeedTypes DEF Announce, WatchOK
  <2>2. FilesOK' /\ LoopOK' /\ TablesOK' /\ ClientsOK'
    BY <1>4 DEF Announce, FilesOK, LoopOK, TablesOK, IsTable, ClientsOK, fileVars, tableVars, clientVars
  <2> QED
    BY <2>1, <2>2
<1>5. CASE Cancel
  BY <1>5 DEF Cancel, FilesOK, WatchOK, LoopOK, TablesOK, IsTable, ClientsOK,
              fileVars, watchVars, feedVars, tableVars, clientVars
<1>6. CASE Strand
  <2>1. WatchOK'
    BY <1>6, FeedTypes DEF Strand, WatchOK
  <2>2. FilesOK' /\ LoopOK' /\ TablesOK' /\ ClientsOK'
    BY <1>6 DEF Strand, FilesOK, LoopOK, TablesOK, IsTable, ClientsOK, fileVars, tableVars, clientVars
  <2> QED
    BY <2>1, <2>2
<1> QED
  BY <1>1, <1>2, <1>3, <1>4, <1>5, <1>6 DEF Environment, Watcher

LEMMA ClientTypes ==
  ASSUME Types, Client
  PROVE  Types'
<1> USE DEF Types
<1>1. FilesOK' /\ WatchOK' /\ LoopOK' /\ TablesOK'
  BY DEF Client, ListTools, Accept, GetRecipe, Answer, FilesOK, WatchOK, LoopOK, TablesOK, IsTable,
         fileVars, watchVars, feedVars, tableVars
<1>2. ClientsOK'
  <2> USE DEF ClientsOK
  <2>1. CASE \E c \in Clients : ListTools(c)
    BY <2>1 DEF ListTools
  <2>2. CASE \E id \in Ids : Accept(id)
    BY <2>2 DEF Accept, Calls
  <2>3. CASE GetRecipe
    BY <2>3 DEF GetRecipe, Calls
  <2>4. CASE Answer
    BY <2>4 DEF Answer
  <2> QED
    BY <2>1, <2>2, <2>3, <2>4 DEF Client
<1> QED
  BY <1>1, <1>2

(* An index of recipes is a table of tools. *)
LEMMA IndexIsTable ==
  ASSUME NEW rs \in Seq(Recipe)
  PROVE  IsTable(Index(rs))
BY Indexed DEF IsTable

LEMMA RunTypes ==
  ASSUME Types, run
  PROVE  Types'
<1> USE DEF Types
<1> USE DEF fileVars, watchVars, feedVars, tableVars, clientVars
<1>0. /\ FilesOK /\ WatchOK /\ LoopOK /\ TablesOK /\ ClientsOK
      /\ job # NoJob => job \in Jobs /\ job.merged \in Seq(Recipe) /\ job.next \in Configs
  BY DEF LoopOK, Jobs
<1>1. CASE New
  <2>1. job \in Jobs /\ job.merged \in Seq(Recipe)
    BY <1>0, <1>1 DEF New, Parsed
  <2>2. TablesOK'
    BY <1>0, <1>1, <2>1, IndexIsTable, RecordedFacts DEF New, TablesOK
  <2>3. LoopOK'
    BY <1>0, <1>1 DEF New, LoopOK
  <2> QED
    BY <1>0, <1>1, <2>2, <2>3 DEF New, FilesOK, WatchOK, ClientsOK
<1>2. CASE NewWatcher
  <2>1. WatchPaths \subseteq Paths
    <3>1. \A i \in DOMAIN cfg.list : cfg.list[i] \in Makefiles
      BY <1>0, ConfigFacts DEF LoopOK
    <3> QED
      BY <3>1 DEF WatchPaths, Paths
  <2>2. WatchOK'
    BY <1>0, <1>2, <2>1 DEF NewWatcher, WatchOK
  <2>3. LoopOK'
    BY <1>0, <1>2 DEF NewWatcher, LoopOK
  <2> QED
    BY <1>0, <1>2, <2>2, <2>3 DEF NewWatcher, FilesOK, TablesOK, IsTable, ClientsOK
<1>3. CASE TakeEvent
  <2>1. WatchOK'
    BY <1>0, <1>3, FeedTypes DEF TakeEvent, WatchOK
  <2>2. LoopOK'
    <3>1. CASE UNCHANGED <<pc, job>>
      BY <1>0, <1>3, <3>1 DEF TakeEvent, LoopOK
    <3>2. CASE \E c \in Configs : StartJob(c)
      <4>1. PICK c \in Configs : pc' = "parse" /\ job' = Job(c)
        BY <3>2 DEF StartJob
      <4>2. /\ job' \in Jobs /\ job' # NoJob /\ job'.done = 0 /\ job'.next = c
            /\ Len(c.list) \in Nat
        BY <4>1, ConfigFacts
      <4>3. job'.done <= Len(job'.next.list)
        BY <4>2
      <4> QED
        BY <1>0, <1>3, <4>1, <4>2, <4>3 DEF TakeEvent, LoopOK
    <3>3. configFile \in Configs \/ configFile = BadConfig
      BY <1>0 DEF FilesOK
    <3> QED
      BY <1>0, <1>3, <3>1, <3>2, <3>3 DEF TakeEvent, LoopOK
  <2> QED
    BY <1>0, <1>3, <2>1, <2>2 DEF TakeEvent, FilesOK, TablesOK, IsTable, ClientsOK
<1>4. CASE ParseMakefilePath
  <2>1. LoopOK'
    <3> DEFINE f == job.next.list[job.done + 1]
    <3>0. /\ job \in Jobs /\ job.next \in Configs /\ f \in Makefiles
          /\ job.done + 1 \in DOMAIN job.next.list
          /\ job # NoJob
      BY <1>4, ParsedFacts, Limits
    <3>1. CASE Abandon
      BY <1>0, <1>4, <3>1 DEF ParseMakefilePath, Parsing, Abandon, LoopOK
    <3>2. CASE ~Abandon
      <4>1. /\ files[f] # Missing
            /\ pc' = pc
            /\ job' = JobOf(job.next, job.done + 1,
                            job.merged \o Tagged(f, job.next.opts),
                            job.valid /\ parse[files[f], job.next.opts].valid)
        BY <1>4, <3>2, ParsedFacts
      <4>2. /\ Tagged(f, job.next.opts) \in Seq(Recipe)
            /\ parse[files[f], job.next.opts].valid \in BOOLEAN
        <5>1. Tagged(f, job.next.opts) \in Seq(Recipe) /\ files[f] \in Texts
          BY <1>0, <3>0, <4>1, TaggedFacts
        <5>2. parse[files[f], job.next.opts].valid \in BOOLEAN
          BY <3>0, <5>1, ParseFacts
        <5> QED
          BY <5>1, <5>2
      <4>3. Len(job.next.list) \in Nat /\ DOMAIN job.next.list = 1..Len(job.next.list)
        BY <3>0, ConfigFacts
      <4> HIDE DEF f
      <4>4. /\ job.done \in Nat /\ job.merged \in Seq(Recipe) /\ job.valid \in BOOLEAN
        BY <3>0 DEF Jobs
      <4>5. job.merged \o Tagged(f, job.next.opts) \in Seq(Recipe)
        BY <4>2, <4>4, ConcatProperties
      <4> DEFINE v == job.valid /\ parse[files[f], job.next.opts].valid
                 m == job.merged \o Tagged(f, job.next.opts)
      <4>10. v \in BOOLEAN /\ m \in Seq(Recipe) /\ job' = JobOf(job.next, job.done + 1, m, v)
        BY <4>1, <4>2, <4>4, <4>5
      <4> HIDE DEF v, m
      <4>6. job' \in Jobs /\ job'.next = job.next /\ job'.done = job.done + 1
        BY <3>0, <4>4, <4>10, JobFacts
      <4>7. job'.done <= Len(job'.next.list)
        BY <3>0, <4>3, <4>4, <4>6
      <4>8. job' # NoJob
        BY <4>6, Limits
      <4>9. UNCHANGED <<cfg, serverCfg>>
        BY <1>4 DEF ParseMakefilePath
      <4> QED
        BY <1>0, <3>0, <4>1, <4>6, <4>7, <4>8, <4>9 DEF LoopOK
    <3> QED
      BY <3>1, <3>2
  <2> QED
    BY <1>0, <1>4, <2>1 DEF ParseMakefilePath, FilesOK, WatchOK, TablesOK, IsTable, ClientsOK
<1>5. CASE Reject
  <2>1. LoopOK'
    BY <1>0, <1>5 DEF Reject, Abandon, Parsing, LoopOK
  <2> QED
    BY <1>0, <1>5, <2>1 DEF Reject, FilesOK, WatchOK, TablesOK, IsTable, ClientsOK
<1>6. CASE Swap
  <2>1. job \in Jobs /\ job.merged \in Seq(Recipe)
    BY <1>0, <1>6 DEF Swap, Parsed
  <2>2. TablesOK'
    BY <1>0, <1>6, <2>1, IndexIsTable DEF Swap, TablesOK, IsTable
  <2>3. LoopOK'
    BY <1>0, <1>6 DEF Swap, LoopOK
  <2> QED
    BY <1>0, <1>6, <2>2, <2>3 DEF Swap, FilesOK, WatchOK, ClientsOK
<1>7. CASE SetTools
  <2>1. job.merged \in Seq(Recipe)
    BY <1>0, <1>7 DEF SetTools, LoopOK
  <2>2. TablesOK'
    BY <1>0, <1>7, <2>1, IndexIsTable DEF SetTools, TablesOK, IsTable
  <2>3. LoopOK' /\ ClientsOK'
    BY <1>0, <1>7 DEF SetTools, LoopOK, ClientsOK
  <2> QED
    BY <1>0, <1>7, <2>2, <2>3 DEF SetTools, FilesOK, WatchOK
<1>8. CASE Notify
  <2>1. LoopOK' /\ ClientsOK'
    BY <1>0, <1>8 DEF Notify, LoopOK, ClientsOK
  <2> QED
    BY <1>0, <1>8, <2>1 DEF Notify, FilesOK, WatchOK, TablesOK, IsTable
<1>9. CASE Record
  <2>1. job.merged \in Seq(Recipe) /\ job.next \in Configs
    BY <1>0, <1>9 DEF Record, LoopOK
  <2>2. TablesOK'
    BY <1>0, <1>9, <2>1, RecordedFacts DEF Record, TablesOK, IsTable
  <2>3. LoopOK'
    BY <1>0, <1>9, <2>1 DEF Record, Abandon, LoopOK
  <2> QED
    BY <1>0, <1>9, <2>2, <2>3 DEF Record, FilesOK, WatchOK, ClientsOK
<1>10. CASE Return
  <2>1. WatchOK'
    BY <1>0, <1>10, FeedTypes DEF Return, WatchOK
  <2>2. LoopOK'
    BY <1>0, <1>10 DEF Return, LoopOK
  <2> QED
    BY <1>0, <1>10, <2>1, <2>2 DEF Return, FilesOK, TablesOK, IsTable, ClientsOK
<1> QED
  BY <1>1, <1>2, <1>3, <1>4, <1>5, <1>6, <1>7, <1>8, <1>9, <1>10 DEF run, watchLoop

LEMMA TypesInvariant == Spec => []Types
<1>1. Types /\ [Next]_vars => Types'
  <2> SUFFICES ASSUME Types, [Next]_vars PROVE Types'
    OBVIOUS
  <2>1. CASE UNCHANGED vars
    BY <2>1 DEF Types, FilesOK, WatchOK, LoopOK, TablesOK, IsTable, ClientsOK, vars,
          fileVars, watchVars, feedVars, tableVars, clientVars
  <2> QED
    BY <2>1, EnvironmentTypes, RunTypes, ClientTypes DEF Next
<1> QED
  BY <1>1, InitTypes, PTL DEF Spec

(* Every variable keeps its type: a reload is under way exactly while      *)
(* watchLoop is in it, and the tables hold recipes under IDs.              *)
THEOREM TypeCorrect == Spec => []TypeOK
BY TypesInvariant, TypesAreTypes, PTL

-----------------------------------------------------------------------------
(* The registry and the library differ only between Swap and SetTools, and *)
(* while a job is installed the registry holds what it merged.             *)
TablesAgree ==
  /\ pc # "setTools" => recipes = mcpTools
  /\ Installing => recipes = Index(job.merged)

(* Only a job of which no Makefile failed is installed. *)
InstallsValid ==
  /\ pc = "boot" => job.next = cfg
  /\ Installing => job.valid

(* The gauge lags behind the registry only while a job is installed. *)
Counted(c, t) ==
  \A g \in Groups : c[g] >= Cardinality({id \in DOMAIN t : t[id].group = g})
GaugeCounts == ~Installing => Counted(gauge, recipes)

Inv == TablesAgree /\ InstallsValid /\ GaugeCounts

-----------------------------------------------------------------------------
(* What is left of the invariant by a step that touches none of this. *)
LEMMA SameStep ==
  ASSUME Inv, UNCHANGED <<pc, job, cfg, recipes, mcpTools, gauge>>
  PROVE  Inv'
BY DEF Inv, TablesAgree, InstallsValid, GaugeCounts, Counted, Installing

LEMMA EnvironmentStep ==
  ASSUME Inv, Environment \/ Client \/ UNCHANGED vars
  PROVE  Inv'
<1>1. UNCHANGED <<pc, job, cfg, recipes, mcpTools, gauge>>
  BY DEF Environment, EditMakefile, EditConfig, Watcher, LoopRename, Announce, Strand, Cancel,
         Client, ListTools, Accept, GetRecipe, Answer, vars, tableVars
<1> QED
  BY <1>1, SameStep

(* What the parts of a job are. *)
LEMMA JobParts ==
  ASSUME Types, job # NoJob
  PROVE  job \in Jobs /\ job.merged \in Seq(Recipe) /\ job.next \in Configs
BY DEF Types, LoopOK, Jobs

(* Start-up fills both tables in one step, with no client to see them. *)
LEMMA StartStep ==
  ASSUME Types, Inv, New \/ NewWatcher
  PROVE  Inv'
<1>1. CASE New
  <2>1. /\ pc = "boot" /\ job # NoJob /\ job.valid
        /\ recipes' = Index(job.merged) /\ mcpTools' = recipes'
        /\ gauge' = Recorded(gauge, job.merged)
        /\ pc' = "watch" /\ job' = NoJob /\ cfg' = cfg
    BY <1>1 DEF New, Parsed
  <2>2. /\ job.next = cfg
        /\ job.merged \in Seq(Recipe)
    BY <2>1, JobParts DEF Inv, InstallsValid
  <2>3. TablesAgree' /\ InstallsValid'
    BY <2>1 DEF TablesAgree, InstallsValid, Installing
  <2>4. Counted(Recorded(gauge, job.merged), Index(job.merged))
    BY <2>2, RecordedFacts DEF Counted, Types, TablesOK
  <2>5. GaugeCounts'
    BY <2>1, <2>4 DEF GaugeCounts, Counted
  <2> QED
    BY <2>3, <2>5 DEF Inv
<1>2. CASE NewWatcher
  BY <1>2 DEF NewWatcher, Inv, TablesAgree, InstallsValid, GaugeCounts, Counted,
              Installing, tableVars
<1> QED
  BY <1>1, <1>2

(* A round of parsing is of the same job, or abandons it. *)
LEMMA ParseStep ==
  ASSUME Types, Inv, ParseMakefilePath
  PROVE  Inv'
<1>1. pc \in {"boot", "parse"} /\ UNCHANGED <<cfg, recipes, mcpTools, gauge>>
  BY DEF ParseMakefilePath, Parsing, tableVars
<1>2. CASE Abandon
  <2>1. pc' \in {"failed", "select"} /\ job' = NoJob
    BY <1>2 DEF Abandon
  <2> QED
    BY <1>1, <2>1 DEF Inv, TablesAgree, InstallsValid, GaugeCounts, Counted, Installing
<1>3. CASE ~Abandon
  <2> DEFINE f == job.next.list[job.done + 1]
  <2>1. pc' = pc
    BY <1>3, ParsedFacts
  <2>2. job' = JobOf(job.next, job.done + 1, job.merged \o Tagged(f, job.next.opts),
                     job.valid /\ parse[files[f], job.next.opts].valid)
    BY <1>3, ParsedFacts
  <2>3. job'.next = job.next
    BY <2>2 DEF JobOf
  <2> QED
    BY <1>1, <2>1, <2>3 DEF Inv, TablesAgree, InstallsValid, GaugeCounts, Counted, Installing
<1> QED
  BY <1>2, <1>3

(* The steps of watchLoop: the registry first, the library next. *)
LEMMA LoopStep ==
  ASSUME Types, Inv, watchLoop
  PROVE  Inv'
<1> USE DEF Installing, tableVars
<1>1. CASE TakeEvent
  <2>1. UNCHANGED <<cfg, recipes, mcpTools, gauge>> /\ pc = "select"
    BY <1>1 DEF TakeEvent
  <2>2. CASE UNCHANGED <<pc, job>>
    BY <2>1, <2>2, SameStep
  <2>3. CASE \E c \in Configs : StartJob(c)
    <3>1. PICK c \in Configs : pc' = "parse" /\ job' = Job(c)
      BY <2>3 DEF StartJob
    <3> QED
      BY <2>1, <3>1 DEF Inv, TablesAgree, InstallsValid, GaugeCounts, Counted
  <2>4. configFile \in Configs \cup {BadConfig} /\ cfg \in Configs
    BY DEF Types, FilesOK, LoopOK
  <2> QED
    BY <1>1, <2>2, <2>3, <2>4 DEF TakeEvent
<1>2. CASE ParseMakefilePath
  BY <1>2, ParseStep
<1>3. CASE Reject
  <2>1. /\ UNCHANGED <<cfg, recipes, mcpTools, gauge>> /\ pc \in {"boot", "parse"}
        /\ pc' \in {"failed", "select"} /\ job' = NoJob
    BY <1>3 DEF Reject, Abandon, Parsing
  <2> QED
    BY <2>1 DEF Inv, TablesAgree, InstallsValid, GaugeCounts, Counted
<1>4. CASE Swap
  <2>1. /\ UNCHANGED <<cfg, job, mcpTools, gauge>> /\ pc = "parse" /\ pc' = "setTools"
        /\ job.valid /\ recipes' = Index(job.merged)
    BY <1>4 DEF Swap, Parsed
  <2> QED
    BY <2>1 DEF Inv, TablesAgree, InstallsValid, GaugeCounts
<1>5. CASE SetTools
  <2>1. /\ UNCHANGED <<cfg, job, recipes, gauge>> /\ pc = "setTools" /\ pc' = "notify"
        /\ mcpTools' = Index(job.merged)
    BY <1>5 DEF SetTools
  <2> QED
    BY <2>1 DEF Inv, TablesAgree, InstallsValid, GaugeCounts
<1>6. CASE Notify
  <2>1. UNCHANGED <<cfg, job, recipes, mcpTools, gauge>> /\ pc = "notify" /\ pc' = "record"
    BY <1>6 DEF Notify
  <2> QED
    BY <2>1 DEF Inv, TablesAgree, InstallsValid, GaugeCounts
<1>7. CASE Record
  <2>1. /\ UNCHANGED <<recipes, mcpTools>> /\ pc = "record" /\ pc' = "select" /\ job' = NoJob
        /\ cfg' = job.next /\ gauge' = Recorded(gauge, job.merged)
    BY <1>7 DEF Record, Abandon
  <2>2. recipes = Index(job.merged) /\ job.merged \in Seq(Recipe)
    BY <2>1, JobParts DEF Types, LoopOK, Inv, TablesAgree, InstallsValid
  <2>3. Counted(Recorded(gauge, job.merged), recipes)
    BY <2>2, RecordedFacts DEF Counted, Types, TablesOK
  <2>4. GaugeCounts'
    BY <2>1, <2>3 DEF GaugeCounts, Counted
  <2> QED
    BY <2>1, <2>4 DEF Inv, TablesAgree, InstallsValid
<1>8. CASE Return
  <2>1. UNCHANGED <<cfg, job, recipes, mcpTools, gauge>> /\ pc = "select" /\ pc' = "returned"
    BY <1>8 DEF Return
  <2> QED
    BY <2>1 DEF Inv, TablesAgree, InstallsValid, GaugeCounts, Counted
<1> QED
  BY <1>1, <1>2, <1>3, <1>4, <1>5, <1>6, <1>7, <1>8 DEF watchLoop

LEMMA InitInv == Init => Inv
<1> SUFFICES ASSUME Init PROVE Inv
  OBVIOUS
<1>1. /\ recipes = <<>> /\ mcpTools = <<>> /\ pc = "boot" /\ job = Job(cfg)
      /\ gauge = [g \in Groups |-> 0]
  BY DEF Init
<1>2. TablesAgree /\ InstallsValid
  BY <1>1 DEF TablesAgree, InstallsValid, Installing, Job
<1>3. \A g \in Groups : {id \in DOMAIN recipes : recipes[id].group = g} = {}
  BY <1>1
<1>4. GaugeCounts
  BY <1>1, <1>3, FS_EmptySet DEF GaugeCounts, Counted
<1> QED
  BY <1>2, <1>4 DEF Inv

(* The invariant the rest is proved from. *)
THEOREM Invariance == Spec => []Inv
<1>1. Types /\ Inv /\ [Next]_vars => Inv'
  BY EnvironmentStep, StartStep, LoopStep DEF Next, run
<1> QED
  BY <1>1, InitInv, TypesInvariant, PTL DEF Spec

(* The registry is never behind the library: what the library serves and   *)
(* the registry lacks is being removed by the reload under way.            *)
THEOREM RegistryLeads == Spec => []RegistryAhead
<1>1. Inv => RegistryAhead
  BY DEF Inv, TablesAgree, RegistryAhead, Installing
<1> QED
  BY <1>1, Invariance, PTL

(* Between reloads the gauge counts every registered tool of every group,  *)
(* although a recording leaves the groups that have vanished alone.        *)
THEOREM GaugeCoversTools == Spec => []GaugeCovers
<1>1. Inv => GaugeCovers
  BY DEF Inv, GaugeCounts, Counted, Installing, GaugeCovers
<1> QED
  BY <1>1, Invariance, PTL

(* A call that the library accepted is refused only if a reload removed    *)
(* its tool, however many reloads pass between the two.                    *)
THEOREM RefusalsAreRemovals == Spec => RefusedOnlyIfRemoved
<1> DEFINE A == GetRecipe /\ call'.state = "refused"
                  => \/ call.id \notin DOMAIN mcpTools
                     \/ pc = "setTools" /\ call.id \notin DOMAIN Index(job.merged)
<1>1. Inv => A
  <2> SUFFICES ASSUME Inv, GetRecipe, call'.state = "refused"
               PROVE  \/ call.id \notin DOMAIN mcpTools
                      \/ pc = "setTools" /\ call.id \notin DOMAIN Index(job.merged)
    OBVIOUS
  <2>1. call.id \notin DOMAIN recipes
    BY DEF GetRecipe
  <2> QED
    BY <2>1 DEF Inv, TablesAgree, Installing
<1>2. Inv => [A]_vars
  BY <1>1
<1> QED
  BY <1>2, Invariance, PTL DEF RefusedOnlyIfRemoved

-----------------------------------------------------------------------------
(* What concatenating one sequence more gives: the concatenations of the    *)
(* prefixes, which FlattenSeq defines recursively, exist and agree.         *)
IsFlat(h, ss, m) == h = [i \in 1..m |-> IF i = 1 THEN ss[i] ELSE h[i - 1] \o ss[i]]

(* By the least m without one. *)
LEMMA FlatExists ==
  ASSUME NEW ss, NEW n \in Nat \ {0}
  PROVE  \E h : IsFlat(h, ss, n)
<1> DEFINE C == {m \in Nat \ {0} : ~\E h : IsFlat(h, ss, m)}
<1> SUFFICES ASSUME C # {} PROVE FALSE
  OBVIOUS
<1>1. PICK m \in C : \A k \in C : m <= k
  <2>1. C \in SUBSET Nat
    OBVIOUS
  <2> HIDE DEF C
  <2> QED
    BY <2>1, Least
<1>2. m \in Nat \ {0} /\ ~\E h : IsFlat(h, ss, m)
  BY <1>1
<1>3. CASE m = 1
  <2> DEFINE h == [i \in 1..1 |-> ss[i]]
  <2>1. h = [i \in 1..1 |-> IF i = 1 THEN ss[i] ELSE h[i - 1] \o ss[i]]
    OBVIOUS
  <2>2. IsFlat(h, ss, 1)
    <3> HIDE DEF h
    <3> QED
      BY <2>1 DEF IsFlat
  <2> QED
    BY <1>2, <1>3, <2>2
<1>4. CASE m # 1
  <2>1. m - 1 \in Nat \ {0} /\ m - 1 \notin C
    BY <1>1, <1>2, <1>4
  <2>2. PICK k : IsFlat(k, ss, m - 1)
    BY <2>1
  <2> DEFINE h == [i \in 1..m |-> IF i = m THEN k[m - 1] \o ss[m] ELSE k[i]]
  <2>3. \A i \in 1..(m - 1) : k[i] = IF i = 1 THEN ss[i] ELSE k[i - 1] \o ss[i]
    BY <2>2 DEF IsFlat
  <2>4. h = [i \in 1..m |-> IF i = 1 THEN ss[i] ELSE h[i - 1] \o ss[i]]
    <3>1. ASSUME NEW i \in 1..m
          PROVE  h[i] = IF i = 1 THEN ss[i] ELSE h[i - 1] \o ss[i]
      <4>1. CASE i = m
        <5>1. h[i] = k[m - 1] \o ss[m] /\ i # 1
          BY <1>4, <4>1
        <5>2. h[i - 1] = k[m - 1]
          BY <1>2, <1>4, <4>1
        <5> HIDE DEF h
        <5> QED
          BY <4>1, <5>1, <5>2
      <4>2. CASE i # m
        <5>1. i \in 1..(m - 1)
          BY <1>2, <4>2
        <5>2. h[i] = k[i] /\ (i # 1 => h[i - 1] = k[i - 1])
          BY <1>2, <4>2
        <5> HIDE DEF h
        <5> QED
          BY <2>3, <5>1, <5>2
      <4> QED
        BY <4>1, <4>2
    <3> QED
      BY <3>1
  <2>5. IsFlat(h, ss, m)
    <3> HIDE DEF h
    <3> QED
      BY <2>4 DEF IsFlat
  <2> QED
    BY <1>2, <2>5
<1> QED
  BY <1>3, <1>4

(* By the least index at which they differ. *)
LEMMA FlatUnique ==
  ASSUME NEW ss, NEW rr, NEW n \in Nat, NEW m \in Nat, n <= m,
         \A i \in 1..n : rr[i] = ss[i],
         NEW h, IsFlat(h, rr, n), NEW k, IsFlat(k, ss, m)
  PROVE  \A i \in 1..n : h[i] = k[i]
<1> DEFINE C == {i \in 1..n : h[i] # k[i]}
<1> SUFFICES ASSUME C # {} PROVE FALSE
  OBVIOUS
<1>1. PICK i \in C : \A j \in C : i <= j
  <2>1. C \in SUBSET Nat
    OBVIOUS
  <2> HIDE DEF C
  <2> QED
    BY <2>1, Least
<1>2. i \in 1..n /\ i \in 1..m /\ h[i] # k[i]
  BY <1>1
<1>3. /\ h[i] = IF i = 1 THEN rr[i] ELSE h[i - 1] \o rr[i]
      /\ k[i] = IF i = 1 THEN ss[i] ELSE k[i - 1] \o ss[i]
  BY <1>2 DEF IsFlat
<1>4. i # 1
  BY <1>2, <1>3
<1>5. i - 1 \in 1..n /\ i - 1 \notin C
  BY <1>1, <1>2, <1>4
<1>6. h[i - 1] = k[i - 1]
  BY <1>5
<1> QED
  BY <1>2, <1>3, <1>4, <1>6

LEMMA FlattenIs ==
  ASSUME NEW ss, NEW n \in Nat \ {0}, Len(ss) = n
  PROVE  \E h : IsFlat(h, ss, n) /\ FlattenSeq(ss) = h[n]
<1> DEFINE h == CHOOSE h : IsFlat(h, ss, n)
<1>1. FlattenSeq(ss) = h[n]
  BY DEF FlattenSeq, IsFlat
<1>2. IsFlat(h, ss, n)
  BY FlatExists
<1> HIDE DEF h
<1> QED
  BY <1>1, <1>2

(* ss is rr, of length n, and one sequence more. *)
OneMore(rr, ss, n, last) ==
  /\ n \in Nat /\ Len(rr) = n /\ (n = 0 => rr = <<>>)
  /\ Len(ss) = n + 1 /\ \A i \in 1..n : rr[i] = ss[i]
  /\ ss[n + 1] = last /\ last \in Seq(Recipe)

LEMMA FlattenAppend ==
  ASSUME NEW n, NEW rr, NEW ss, NEW last, OneMore(rr, ss, n, last)
  PROVE  FlattenSeq(ss) = FlattenSeq(rr) \o last
<1> USE DEF OneMore
<1>0. n + 1 \in Nat \ {0} /\ n + 1 \in 1..(n + 1) /\ (n + 1) - 1 = n
  OBVIOUS
<1>1. PICK k : IsFlat(k, ss, n + 1) /\ FlattenSeq(ss) = k[n + 1]
  BY <1>0, FlattenIs
<1>2. k[n + 1] = IF n + 1 = 1 THEN ss[n + 1] ELSE k[n] \o ss[n + 1]
  BY <1>0, <1>1 DEF IsFlat
<1>3. CASE n = 0
  <2>1. FlattenSeq(rr) = <<>>
    BY <1>3 DEF FlattenSeq
  <2>2. <<>> \o ss[n + 1] = ss[n + 1]
    OBVIOUS
  <2> QED
    BY <1>1, <1>2, <1>3, <2>1, <2>2
<1>4. CASE n # 0
  <2>1. PICK h : IsFlat(h, rr, n) /\ FlattenSeq(rr) = h[n]
    BY <1>4, FlattenIs
  <2>2. n <= n + 1 /\ n \in 1..n
    BY <1>4
  <2>3. h[n] = k[n]
    BY <1>0, <1>1, <2>1, <2>2, FlatUnique
  <2>4. n + 1 # 1
    BY <1>4
  <2>5. k[n + 1] = k[n] \o ss[n + 1]
    BY <1>2, <2>4
  <2> QED
    BY <1>1, <2>1, <2>3, <2>5
<1> QED
  BY <1>3, <1>4

-----------------------------------------------------------------------------
(* A Makefile whose last change watchLoop has yet to hear of, or never will. *)
Announced(p) == \E i \in DOMAIN feed : feed[i] = p
Unsettled(p) == p \in owed \/ p \in moved \/ p \in unseen \/ Announced(p)

Settled(c) == \A i \in DOMAIN c.list : ~Unsettled(c.list[i])

(* What reading n texts adds to a job. *)
Pieces(c, read, n) == [i \in 1..n |-> TagOf(c.list[i], read[i], c.opts)]

(* The texts a job has read: those of its files, but for files that are    *)
(* to be read again.                                                       *)
HasRead(read) ==
  /\ job.merged = FlattenSeq(Pieces(job.next, read, job.done))
  /\ job.valid <=> \A i \in 1..job.done : parse[read[i], job.next.opts].valid
  /\ \A i \in 1..job.done :
       read[i] = files[job.next.list[i]] \/ Unsettled(job.next.list[i])

JobRead == job # NoJob => \E read \in [1..job.done -> Texts] : HasRead(read)

(* No change of a file the server was started with goes unnoticed: its     *)
(* inode is watched, or the file is gone, or it has changed in a gap.      *)
NoneMissed ==
  /\ pc # "returned" => open
  /\ pc \notin {"boot", "watch", "failed", "returned"} =>
       \A i \in DOMAIN serverCfg.list :
         LET p == serverCfg.list[i] IN p \in watched \/ p \in unseen \/ files[p] = Missing

Started ==
  /\ pc \in {"boot", "watch"} => cfg = serverCfg
  /\ Installing => job.done = Len(job.next.list)

(* The tools are those of the settled files of the configuration in force, *)
(* also when a reload for another configuration has begun.                 *)
Current(c) == Settled(c) /\ Loadable(c) => mcpTools = Wanted(c)
StayCurrent ==
  pc \in {"watch", "select"} \/ (pc = "parse" /\ job.next # cfg) => Current(cfg)

Quiet == JobRead /\ NoneMissed /\ Started /\ StayCurrent

LEMMA PathFacts == \A f \in Makefiles : f \in Paths /\ f # ConfigFile /\ f # ConfigPath
BY ReloadAssumption DEF Paths

(* What the change feed keeps of a path. *)
LEMMA AnnounceFacts ==
  ASSUME WatchOK, NEW p \in Paths, Watch!Announce(p), NEW q,
         q \in owed \/ Announced(q)
  PROVE  q \in owed' \/ Announced(q)'
<1>1. feed \in Seq(Paths) /\ feed' = Append(feed, p) /\ owed' = owed \ {p}
  BY DEF WatchOK, Watch!Announce
<1>2. /\ Len(feed) \in Nat /\ DOMAIN feed = 1..Len(feed)
      /\ DOMAIN feed' = 1..(Len(feed) + 1)
      /\ feed'[Len(feed) + 1] = p
      /\ \A i \in DOMAIN feed : feed'[i] = feed[i]
  BY <1>1
<1>3. CASE Announced(q)
  <2>1. PICK i \in DOMAIN feed : feed[i] = q
    BY <1>3 DEF Announced
  <2>2. i \in DOMAIN feed' /\ feed'[i] = q
    BY <1>2, <2>1
  <2> QED
    BY <2>2 DEF Announced
<1>4. CASE q \in owed /\ q = p
  <2>1. Len(feed) + 1 \in DOMAIN feed'
    BY <1>2
  <2> QED
    BY <1>2, <1>4, <2>1 DEF Announced
<1>5. CASE q \in owed /\ q # p
  BY <1>1, <1>5
<1> QED
  BY <1>3, <1>4, <1>5

LEMMA TakeFacts ==
  ASSUME WatchOK, Watch!Take, NEW q, q # Head(feed), Announced(q)
  PROVE  Announced(q)'
<1>1. feed \in Seq(Paths) /\ feed # <<>> /\ feed' = Tail(feed)
  BY DEF WatchOK, Watch!Take
<1>2. /\ Len(feed) \in Nat /\ Len(feed) > 0
      /\ DOMAIN feed = 1..Len(feed)
      /\ DOMAIN feed' = 1..(Len(feed) - 1)
      /\ \A i \in 1..(Len(feed) - 1) : feed'[i] = feed[i + 1]
      /\ Head(feed) = feed[1]
  BY <1>1
<1>3. PICK i \in DOMAIN feed : feed[i] = q
  BY DEF Announced
<1>4. i # 1
  BY <1>2, <1>3
<1>5. i - 1 \in DOMAIN feed' /\ feed'[i - 1] = q
  BY <1>2, <1>3, <1>4
<1> QED
  BY <1>5 DEF Announced

(* After a step of the environment a Makefile that is settled was settled  *)
(* before and has not changed, unless its first parse is still to come.    *)
LEMMA EnvironmentKeeps ==
  ASSUME Types, NoneMissed, Environment,
         pc \notin {"failed", "returned"},
         NEW q \in Makefiles, ~StillToRead(q), ~Unsettled(q)'
  PROVE  ~Unsettled(q) /\ files'[q] = files[q]
<1>1. q \in Paths /\ q # ConfigFile
  BY PathFacts
<1>2. ASSUME NEW p \in Paths, NEW how \in Saves, Touch(p, how), p # q
      PROVE  ~Unsettled(q)
  <2>1. feed' = feed /\ owed \subseteq owed'
    BY <1>2 DEF Touch, Watch!Note, feedVars
  <2>2. moved \subseteq moved' /\ unseen \ {p} \subseteq unseen'
    BY <1>2 DEF Touch
  <2> QED
    BY <1>2, <2>1, <2>2 DEF Unsettled, Announced
<1>3. ASSUME NEW f \in Makefiles, NEW text \in Texts \cup {Missing}, NEW how \in Saves,
             EditMakefile(f, text, how)
      PROVE  ~Unsettled(q) /\ files'[q] = files[q]
  <2>1. Touch(f, how) /\ f \in Paths /\ files' = [files EXCEPT ![f] = text]
    BY <1>3, PathFacts DEF EditMakefile
  <2>2. CASE f # q
    <3>1. files'[q] = files[q]
      BY <2>1, <2>2 DEF Types, FilesOK
    <3> QED
      BY <1>2, <2>1, <2>2, <3>1
  <2>3. CASE f = q
    <3>1. ~(how = "write" /\ q \in watched /\ open)
      BY <2>1, <2>3 DEF Touch, Watch!Note, Unsettled
    <3>2. ~Gap(q, how) /\ q \notin unseen
      BY <2>1, <2>3, <3>1 DEF Touch, Unsettled
    <3>3. how = "write" /\ pc \notin {"boot", "watch"}
          /\ \E i \in DOMAIN serverCfg.list : serverCfg.list[i] = q
      BY <3>2 DEF Gap
    <3>4. open /\ (q \in watched \/ q \in unseen \/ files[q] = Missing)
      BY <3>3 DEF NoneMissed
    <3>5. files[q] # Missing
      BY <1>3, <2>3, <3>3 DEF EditMakefile
    <3> QED
      BY <3>1, <3>2, <3>3, <3>4, <3>5
  <2> QED
    BY <2>2, <2>3
<1>4. ASSUME NEW c \in Configs \cup {BadConfig}, NEW how \in Saves, EditConfig(c, how)
      PROVE  ~Unsettled(q) /\ files'[q] = files[q]
  <2>1. Touch(ConfigFile, how) /\ files' = files
    BY <1>4 DEF EditConfig
  <2> QED
    BY <1>1, <1>2, <2>1 DEF Paths
<1>5. ASSUME NEW p \in Paths, LoopRename(p)
      PROVE  ~Unsettled(q) /\ files'[q] = files[q]
  <2>1. /\ owed' = owed \cup {p} /\ feed' = feed
        /\ moved' = moved \ {p} /\ unseen' = unseen \ {p} /\ files' = files
    BY <1>5 DEF LoopRename, Watch!Note, fileVars
  <2> QED
    BY <2>1 DEF Unsettled, Announced
<1>6. ASSUME NEW p \in Paths, Announce(p)
      PROVE  ~Unsettled(q) /\ files'[q] = files[q]
  <2>1. Watch!Announce(p) /\ moved' = moved /\ unseen' = unseen /\ files' = files
    BY <1>6 DEF Announce, fileVars
  <2>2. ~(q \in owed \/ Announced(q))
    BY <2>1, AnnounceFacts DEF Types, Unsettled
  <2> QED
    BY <2>1, <2>2 DEF Unsettled
<1>7. CASE Cancel
  <2>1. UNCHANGED <<owed, feed, moved, unseen, files>>
    BY <1>7 DEF Cancel, watchVars, feedVars, fileVars
  <2> QED
    BY <2>1 DEF Unsettled, Announced
<1>8. CASE Strand
  <2>1. UNCHANGED <<owed, feed, moved, unseen, files>>
    BY <1>8 DEF Strand, Watch!Strand, fileVars
  <2> QED
    BY <2>1 DEF Unsettled, Announced
<1> QED
  BY <1>3, <1>4, <1>5, <1>6, <1>7, <1>8 DEF Environment, Watcher

(* What a configuration asks for depends on the texts of its files only. *)
LEMMA SameFiles ==
  ASSUME NEW c \in Configs, \A i \in DOMAIN c.list : files'[c.list[i]] = files[c.list[i]]
  PROVE  Wanted(c)' = Wanted(c) /\ (Loadable(c)' <=> Loadable(c))
<1>1. \A i \in DOMAIN c.list : Tagged(c.list[i], c.opts)' = Tagged(c.list[i], c.opts)
  BY DEF Tagged
<1>2. [i \in DOMAIN c.list |-> Tagged(c.list[i], c.opts)]'
        = [i \in DOMAIN c.list |-> Tagged(c.list[i], c.opts)]
  BY <1>1
<1>3. Wanted(c)' = Wanted(c)
  BY <1>2 DEF Wanted, Merged
<1> QED
  BY <1>3 DEF Loadable

(* The settled Makefiles are as they were. *)
Kept(q) == ~Unsettled(q)' => ~Unsettled(q) /\ files'[q] = files[q]

LEMMA CurrentKept ==
  ASSUME NEW c \in Configs, Current(c), mcpTools' = mcpTools, \A q \in Makefiles : Kept(q)
  PROVE  Current(c)'
<1> SUFFICES ASSUME Settled(c)', Loadable(c)' PROVE mcpTools = Wanted(c)'
  BY DEF Current
<1>1. \A i \in DOMAIN c.list : ~Unsettled(c.list[i]) /\ files'[c.list[i]] = files[c.list[i]]
  BY ConfigFacts DEF Settled, Kept
<1>2. Wanted(c)' = Wanted(c) /\ Loadable(c)
  BY <1>1, SameFiles
<1> QED
  BY <1>1, <1>2 DEF Current, Settled

LEMMA JobReadKept ==
  ASSUME Types, JobRead, job' = job,
         job # NoJob =>
           \A i \in 1..job.done, q \in Makefiles : q = job.next.list[i] => Kept(q)
  PROVE  JobRead'
<1> SUFFICES ASSUME job # NoJob
             PROVE  \E read \in [1..job.done -> Texts] : HasRead(read)'
  BY DEF JobRead
<1>1. PICK read \in [1..job.done -> Texts] : HasRead(read)
  BY DEF JobRead
<1>2. ASSUME NEW i \in 1..job.done
      PROVE  read[i] = files'[job.next.list[i]] \/ Unsettled(job.next.list[i])'
  <2>1. PICK q \in Makefiles : q = job.next.list[i]
    BY ConfigFacts DEF Types, LoopOK, Jobs
  <2>2. read[i] = files[q] \/ Unsettled(q)
    BY <1>1, <2>1 DEF HasRead
  <2>3. read[i] = files'[q] \/ Unsettled(q)'
    BY <2>1, <2>2 DEF Kept
  <2> QED
    BY <2>1, <2>3 DEF Unsettled, Announced
<1>3. HasRead(read)'
  BY <1>1, <1>2 DEF HasRead
<1> QED
  BY <1>3

(* What all of a job's Makefiles hold, if they are settled. *)
LEMMA AllRead ==
  ASSUME Types, JobRead, job # NoJob, job.done = Len(job.next.list), Settled(job.next)
  PROVE  /\ job.merged = Merged(job.next)
         /\ Loadable(job.next) => job.valid
<1> DEFINE c == job.next
<1>1. PICK read \in [1..job.done -> Texts] : HasRead(read)
  BY DEF JobRead
<1>2. c \in Configs /\ DOMAIN c.list = 1..job.done
  BY ConfigFacts DEF Types, LoopOK, Jobs
<1>3. \A i \in 1..job.done : read[i] = files[c.list[i]]
  BY <1>1, <1>2 DEF HasRead, Settled
<1>4. \A i \in 1..job.done : TagOf(c.list[i], read[i], c.opts) = Tagged(c.list[i], c.opts)
  BY <1>3 DEF Tagged
<1>5. Pieces(c, read, job.done) = [i \in DOMAIN c.list |-> Tagged(c.list[i], c.opts)]
  BY <1>2, <1>4 DEF Pieces
<1>6. job.merged = Merged(c)
  BY <1>1, <1>5 DEF HasRead, Merged
<1>7. ASSUME Loadable(c) PROVE job.valid
  <2>1. \A i \in 1..job.done : parse[read[i], c.opts].valid
    BY <1>2, <1>3, <1>7 DEF Loadable
  <2> QED
    BY <1>1, <2>1 DEF HasRead
<1> QED
  BY <1>6, <1>7

(* Every job begins with nothing read. *)
LEMMA NothingRead ==
  ASSUME NEW c
  PROVE  \E read \in [1..0 -> Texts] : FlattenSeq(Pieces(c, read, 0)) = <<>>
<1> DEFINE read == [i \in 1..0 |-> CHOOSE t : t \in Texts]
<1>1. read \in [1..0 -> Texts]
  OBVIOUS
<1>2. Pieces(c, read, 0) = <<>>
  BY DEF Pieces
<1>3. Len(<<>>) = 0
  OBVIOUS
<1> HIDE DEF read
<1>4. FlattenSeq(Pieces(c, read, 0)) = <<>>
  BY <1>2, <1>3 DEF FlattenSeq
<1> QED
  BY <1>1, <1>4

LEMMA JobStarts ==
  ASSUME NEW c \in Configs, job' = Job(c)
  PROVE  JobRead'
<1>1. /\ job'.next = c /\ job'.done = 0 /\ job'.merged = <<>> /\ job'.valid
      /\ 1..0 = {}
  BY ConfigFacts
<1>2. PICK read \in [1..0 -> Texts] : FlattenSeq(Pieces(c, read, 0)) = <<>>
  BY NothingRead
<1>3. HasRead(read)'
  BY <1>1, <1>2 DEF HasRead
<1> QED
  BY <1>1, <1>3 DEF JobRead

LEMMA PiecesAppend ==
  ASSUME NEW c, NEW n \in Nat, NEW read, NEW next, \A i \in 1..n : next[i] = read[i],
         NEW ts, ts \in Seq(Recipe), ts = TagOf(c.list[n + 1], next[n + 1], c.opts)
  PROVE  OneMore(Pieces(c, read, n), Pieces(c, next, n + 1), n, ts)
<1> DEFINE rr == Pieces(c, read, n)
           ss == Pieces(c, next, n + 1)
<1>1. Len(rr) = n /\ (n = 0 => rr = <<>>) /\ Len(ss) = n + 1
  BY DEF Pieces
<1>2. \A i \in 1..n : rr[i] = ss[i]
  BY DEF Pieces
<1>3. n + 1 \in 1..(n + 1)
  OBVIOUS
<1>4. ss[n + 1] = ts
  BY <1>3 DEF Pieces
<1> HIDE DEF rr, ss
<1>5. OneMore(rr, ss, n, ts)
  BY <1>1, <1>2, <1>4 DEF OneMore
<1> QED
  BY <1>5 DEF rr, ss

(* A round of parsing reads one text more. *)
LEMMA OneMoreRead ==
  ASSUME Types, JobRead, ParseMakefilePath
  PROVE  JobRead'
<1> DEFINE f == job.next.list[job.done + 1]
           c == job.next
           n == job.done
           ts == Tagged(f, c.opts)
<1>1. /\ job \in Jobs /\ c \in Configs /\ f \in Makefiles
      /\ n \in Nat /\ n + 1 \in DOMAIN c.list /\ job # NoJob
  BY ParsedFacts, Limits DEF Jobs
<1>2. UNCHANGED <<files, owed, feed, moved, unseen>>
  BY DEF ParseMakefilePath, fileVars, watchVars, feedVars
<1>3. CASE Abandon
  BY <1>3 DEF Abandon, JobRead
<1>4. CASE ~Abandon
  <2>1. /\ files[f] # Missing
        /\ job' = JobOf(c, n + 1, job.merged \o ts,
                        job.valid /\ parse[files[f], c.opts].valid)
    BY <1>4, ParsedFacts
  <2>2. PICK read \in [1..n -> Texts] : HasRead(read)
    BY <1>1 DEF JobRead
  <2>3. ts \in Seq(Recipe) /\ files[f] \in Texts
    BY <1>1, <2>1, TaggedFacts DEF Types
  <2> DEFINE v == job.valid /\ parse[files[f], c.opts].valid
             m == job.merged \o ts
             d == n + 1
  <2>4. job'.next = c /\ job'.done = n + 1 /\ job'.merged = job.merged \o ts /\ job'.valid = v
    <3>1. job' = JobOf(c, d, m, v)
      BY <2>1
    <3> HIDE DEF v, m, d
    <3>2. job'.next = c /\ job'.done = d /\ job'.merged = m /\ job'.valid = v
      BY <3>1, JobFacts
    <3> QED
      BY <3>2 DEF m, d
  <2>5. PICK next \in [1..(n + 1) -> Texts] :
          /\ next[n + 1] = files[f]
          /\ \A i \in 1..n : next[i] = read[i]
          /\ \A i \in 1..(n + 1) : i = n + 1 \/ i \in 1..n
    <3> DEFINE next == [i \in 1..(n + 1) |-> IF i = n + 1 THEN files[f] ELSE read[i]]
    <3>1. /\ next \in [1..(n + 1) -> Texts]
          /\ next[n + 1] = files[f]
          /\ \A i \in 1..n : next[i] = read[i]
          /\ \A i \in 1..(n + 1) : i = n + 1 \/ i \in 1..n
      BY <1>1, <2>3
    <3> HIDE DEF next
    <3> QED
      BY <3>1
  <2>6. FlattenSeq(Pieces(c, next, n + 1)) = FlattenSeq(Pieces(c, read, n)) \o ts
    <3>1. ts = TagOf(c.list[n + 1], next[n + 1], c.opts)
      BY <2>5 DEF Tagged
    <3>2. n \in Nat /\ ts \in Seq(Recipe) /\ \A i \in 1..n : next[i] = read[i]
      BY <1>1, <2>3, <2>5
    <3> DEFINE rr == Pieces(c, read, n)
               ss == Pieces(c, next, n + 1)
    <3>3. OneMore(rr, ss, n, ts)
      <4> HIDE DEF f, c, n, ts
      <4> QED
        BY <3>1, <3>2, PiecesAppend
    <3> HIDE DEF rr, ss, n, ts
    <3>4. FlattenSeq(ss) = FlattenSeq(rr) \o ts
      BY <3>3, FlattenAppend
    <3> QED
      BY <3>4 DEF rr, ss, n, ts
  <2>7. HasRead(next)'
    <3>1. job'.merged = FlattenSeq(Pieces(job'.next, next, job'.done))
      BY <2>2, <2>4, <2>6 DEF HasRead
    <3>2. v <=> \A i \in 1..(n + 1) : parse[next[i], c.opts].valid
      <4>1. job.valid <=> \A i \in 1..n : parse[read[i], c.opts].valid
        BY <2>2 DEF HasRead
      <4>2. /\ n + 1 \in 1..(n + 1) /\ \A i \in 1..n : i \in 1..(n + 1)
        BY <1>1
      <4> HIDE DEF f, n, c
      <4> QED
        BY <2>5, <4>1, <4>2
    <3>3. \A i \in 1..(n + 1) : next[i] = files[c.list[i]] \/ Unsettled(c.list[i])
      BY <2>2, <2>5 DEF HasRead
    <3>4. \A q : Unsettled(q)' <=> Unsettled(q)
      BY <1>2 DEF Unsettled, Announced
    <3> HIDE DEF v
    <3> QED
      BY <1>2, <2>4, <3>1, <3>2, <3>3, <3>4 DEF HasRead
  <2>8. next \in [1..job'.done -> Texts]
    BY <2>4, <2>5
  <2> QED
    BY <2>7, <2>8 DEF JobRead
<1> QED
  BY <1>3, <1>4

LEMMA EnvironmentQuiet ==
  ASSUME Types, Quiet, Environment
  PROVE  Quiet'
<1>1. UNCHANGED <<pc, job, cfg, serverCfg, mcpTools>>
  BY DEF Environment, EditMakefile, EditConfig, Watcher, LoopRename, Announce, Strand, Cancel, tableVars
<1>2. ASSUME pc \notin {"failed", "returned"}, NEW q \in Makefiles, ~StillToRead(q)
      PROVE  Kept(q)
  BY <1>2, EnvironmentKeeps DEF Quiet, Kept
<1>3. JobRead'
  <2>1. ASSUME job # NoJob, NEW i \in 1..job.done, NEW q \in Makefiles, q = job.next.list[i]
        PROVE  Kept(q)
    <3>1. pc \notin {"failed", "returned"}
      BY <2>1 DEF Types, LoopOK
    <3>2. ~StillToRead(q)
      BY <2>1 DEF StillToRead
    <3> QED
      BY <1>2, <3>1, <3>2
  <2> QED
    BY <1>1, <2>1, JobReadKept DEF Quiet
<1>4. open' = open
  BY DEF Environment, EditMakefile, EditConfig, Watcher, LoopRename, Announce, Strand, Cancel,
         Touch, Watch!Note, Watch!Announce, Watch!Strand, feedVars, watchVars
<1>5. ASSUME pc \notin {"boot", "watch", "failed", "returned"}, NEW i \in DOMAIN serverCfg.list
      PROVE  LET p == serverCfg.list[i] IN
               p \in watched' \/ p \in unseen' \/ files'[p] = Missing
  <2> DEFINE p == serverCfg.list[i]
  <2>1. p \in Makefiles /\ p # ConfigFile /\ p \in Paths
    BY ConfigFacts, PathFacts DEF Types, LoopOK
  <2>2. p \in watched \/ p \in unseen \/ files[p] = Missing
    BY <1>5 DEF Quiet, NoneMissed
  <2> HIDE DEF p
  <2>3. ASSUME NEW f \in Makefiles, NEW text \in Texts \cup {Missing}, NEW how \in Saves,
               EditMakefile(f, text, how)
        PROVE  p \in watched' \/ p \in unseen' \/ files'[p] = Missing
    <3>1. Touch(f, how) /\ files' = [files EXCEPT ![f] = text]
          /\ (files[f] = Missing => how = "replace")
      BY <2>3 DEF EditMakefile
    <3>2. CASE how = "write"
      <4>1. watched' = watched /\ (f # p /\ p \in unseen => p \in unseen')
        BY <3>1, <3>2 DEF Touch
      <4>2. f # p => files'[p] = files[p]
        BY <2>1, <3>1 DEF Types, FilesOK
      <4>3. f = p /\ p \in unseen /\ p \notin watched => p \in unseen'
        BY <1>5, <3>1, <3>2 DEF Touch, StillToRead
      <4> QED
        BY <2>2, <3>1, <3>2, <4>1, <4>2, <4>3
    <3>3. CASE how # "write"
      <4>1. f = p => p \in unseen'
        BY <1>5, <3>1, <3>3 DEF Touch, StillToRead, Gap
      <4>2. f # p => files'[p] = files[p]
        BY <2>1, <3>1 DEF Types, FilesOK
      <4>3. f # p => (p \in watched => p \in watched') /\ (p \in unseen => p \in unseen')
        BY <3>1, <3>3 DEF Touch
      <4> QED
        BY <2>2, <4>1, <4>2, <4>3
    <3> QED
      BY <3>2, <3>3
  <2>4. ASSUME NEW c \in Configs \cup {BadConfig}, NEW how \in Saves, EditConfig(c, how)
        PROVE  p \in watched' \/ p \in unseen' \/ files'[p] = Missing
    BY <2>1, <2>2, <2>4 DEF EditConfig, Touch
  <2>5. ASSUME NEW r \in Paths, LoopRename(r)
        PROVE  p \in watched' \/ p \in unseen' \/ files'[p] = Missing
    <3>1. files' = files /\ unseen' = unseen \ {r} /\ watched \subseteq watched'
      BY <2>5 DEF LoopRename, fileVars
    <3>2. r = p /\ files[p] # Missing => p \in watched'
      BY <2>1, <2>5 DEF LoopRename
    <3> QED
      BY <2>2, <3>1, <3>2
  <2>6. ASSUME UNCHANGED <<watched, unseen, files>>
        PROVE  p \in watched' \/ p \in unseen' \/ files'[p] = Missing
    BY <2>2, <2>6
  <2>7. (\E r \in Paths : Announce(r)) \/ Strand \/ Cancel => UNCHANGED <<watched, unseen, files>>
    BY DEF Announce, Strand, Cancel, fileVars, watchVars
  <2> QED
    BY <2>3, <2>4, <2>5, <2>6, <2>7 DEF Environment, Watcher, p
<1>6. NoneMissed'
  BY <1>1, <1>4, <1>5 DEF Quiet, NoneMissed
<1>7. Started'
  BY <1>1 DEF Quiet, Started, Installing
<1>8. StayCurrent'
  <2> SUFFICES ASSUME pc \in {"watch", "select"} \/ (pc = "parse" /\ job.next # cfg)
               PROVE  Current(cfg)'
    BY <1>1 DEF StayCurrent
  <2>1. \A q \in Makefiles : Kept(q)
    BY <1>2 DEF StillToRead
  <2>2. Current(cfg) /\ cfg \in Configs /\ mcpTools' = mcpTools
    BY <1>1 DEF Quiet, StayCurrent, Types, LoopOK
  <2> QED
    BY <1>1, <2>1, <2>2, CurrentKept
<1> QED
  BY <1>3, <1>6, <1>7, <1>8 DEF Quiet

(* A step that leaves the files and the watching alone. *)
LEMMA SettledSame ==
  ASSUME UNCHANGED <<files, owed, feed, moved, unseen>>
  PROVE  /\ \A q : Unsettled(q)' <=> Unsettled(q)
         /\ \A c : Settled(c)' <=> Settled(c)
         /\ \A q : Kept(q)
BY DEF Unsettled, Announced, Settled, Kept

(* A step that leaves the files and the loop alone. *)
LEMMA SameQuiet ==
  ASSUME Types, Quiet,
         UNCHANGED <<files, owed, feed, open, watched, moved, unseen, cfg, serverCfg, mcpTools, pc, job>>
  PROVE  Quiet'
<1>1. \A q : Kept(q)
  BY SettledSame
<1>2. JobRead'
  BY <1>1, JobReadKept DEF Quiet
<1>3. Current(cfg) => Current(cfg)'
  BY <1>1, CurrentKept DEF Types, LoopOK
<1> QED
  BY <1>2, <1>3 DEF Quiet, NoneMissed, Started, StayCurrent, Installing

LEMMA StartQuiet ==
  ASSUME Types, Inv, Quiet, New \/ NewWatcher
  PROVE  Quiet'
<1>1. CASE New
  <2>1. /\ pc = "boot" /\ pc' = "watch" /\ job # NoJob /\ job' = NoJob
        /\ job.done = Len(job.next.list) /\ job.next = cfg /\ cfg \in Configs
        /\ mcpTools' = Index(job.merged)
        /\ UNCHANGED <<files, owed, feed, open, watched, moved, unseen, cfg, serverCfg>>
    BY <1>1 DEF New, Parsed, Inv, InstallsValid, Types, LoopOK, fileVars, watchVars, feedVars
  <2>2. Current(cfg)'
    <3> SUFFICES ASSUME Settled(cfg)' PROVE mcpTools' = Wanted(cfg)'
      BY DEF Current
    <3>1. Settled(cfg)
      BY <2>1, SettledSame
    <3>2. job.merged = Merged(cfg)
      BY <2>1, <3>1, AllRead DEF Quiet
    <3>3. Wanted(cfg)' = Wanted(cfg)
      BY <2>1, SameFiles
    <3> QED
      BY <2>1, <3>2, <3>3 DEF Wanted
  <2> QED
    BY <2>1, <2>2 DEF Quiet, JobRead, NoneMissed, Started, StayCurrent, Installing
<1>2. CASE NewWatcher
  <2>1. /\ pc = "watch" /\ pc' \in {"select", "failed"} /\ job' = job /\ job = NoJob
        /\ UNCHANGED <<files, owed, feed, open, moved, unseen, cfg, serverCfg, mcpTools>>
    BY <1>2 DEF NewWatcher, Types, LoopOK, fileVars, feedVars, tableVars
  <2>2. cfg = serverCfg /\ Current(cfg) /\ cfg \in Configs /\ open
    BY <2>1 DEF Quiet, Started, StayCurrent, NoneMissed, Types, LoopOK
  <2>3. Current(cfg)'
    BY <2>1, <2>2, SettledSame, CurrentKept
  <2>4. pc' = "select" => \A i \in DOMAIN cfg.list : cfg.list[i] \in watched'
    BY <1>2 DEF NewWatcher, WatchPaths
  <2>5. NoneMissed'
    BY <2>1, <2>2, <2>4 DEF NoneMissed
  <2> QED
    BY <2>1, <2>3, <2>5 DEF Quiet, JobRead, Started, StayCurrent, Installing
<1> QED
  BY <1>1, <1>2

(* Taking an announcement starts a reload, unless it is of a configuration *)
(* file that does not load.                                                *)
LEMMA TakeQuiet ==
  ASSUME Types, Quiet, TakeEvent
  PROVE  Quiet'
<1>1. /\ pc = "select" /\ job = NoJob /\ Watch!Take /\ WatchOK /\ cfg \in Configs
      /\ UNCHANGED <<files, owed, open, watched, moved, unseen, cfg, serverCfg, mcpTools>>
  BY DEF TakeEvent, Types, LoopOK, Watch!Take, fileVars, tableVars
<1>2. NoneMissed' /\ Started'
  <2>1. pc' \in {"select", "parse"}
    BY <1>1 DEF TakeEvent, StartJob
  <2> QED
    BY <1>1, <2>1 DEF Quiet, NoneMissed, Started, Installing
<1>3. CASE Head(feed) # ConfigPath
  <2>1. pc' = "parse" /\ job' = Job(cfg) /\ job'.next = cfg
    BY <1>1, <1>3, ConfigFacts DEF TakeEvent, StartJob
  <2>2. JobRead'
    BY <1>1, <2>1, JobStarts
  <2>3. StayCurrent'
    BY <1>1, <2>1 DEF StayCurrent
  <2> QED
    BY <1>2, <2>2, <2>3 DEF Quiet
<1>4. CASE Head(feed) = ConfigPath
  <2>1. \A q \in Makefiles : Kept(q)
    BY <1>1, <1>4, PathFacts, TakeFacts DEF Kept, Unsettled
  <2>2. Current(cfg)'
    BY <1>1, <2>1, CurrentKept DEF Quiet, StayCurrent
  <2>3. JobRead'
    <3>1. CASE configFile = BadConfig
      <4>1. job' = NoJob
        BY <1>1, <1>4, <3>1 DEF TakeEvent
      <4> QED
        BY <4>1 DEF JobRead
    <3>2. CASE configFile # BadConfig
      <4>1. job' = Job(configFile) /\ configFile \in Configs
        BY <1>4, <3>2 DEF TakeEvent, StartJob, Types, FilesOK
      <4> QED
        BY <4>1, JobStarts
    <3> QED
      BY <3>1, <3>2
  <2>4. StayCurrent'
    BY <2>2 DEF StayCurrent
  <2> QED
    BY <1>2, <2>3, <2>4 DEF Quiet
<1> QED
  BY <1>3, <1>4

(* A reload that is given up for what a Makefile holds leaves tools behind *)
(* that are not called current: the configuration cannot be loaded.        *)
LEMMA AbandonQuiet ==
  ASSUME Types, Quiet, job # NoJob, pc \in {"boot", "parse"}, Abandon,
         Settled(job.next) => ~Loadable(job.next),
         UNCHANGED <<files, owed, feed, open, watched, moved, unseen, cfg, serverCfg, mcpTools>>
  PROVE  Quiet'
<1>1. /\ job' = NoJob /\ cfg \in Configs
      /\ pc' = IF pc = "boot" THEN "failed" ELSE "select"
  BY DEF Abandon, Types, LoopOK
<1>2. pc = "parse" => Current(cfg)
  <2>1. CASE job.next = cfg
    BY <2>1 DEF Current
  <2>2. CASE job.next # cfg
    BY <2>2 DEF Quiet, StayCurrent
  <2> QED
    BY <2>1, <2>2
<1>3. pc = "parse" => Current(cfg)'
  BY <1>1, <1>2, SettledSame, CurrentKept
<1> QED
  BY <1>1, <1>3 DEF Quiet, JobRead, NoneMissed, Started, StayCurrent, Installing

LEMMA LoopQuiet ==
  ASSUME Types, Types', Inv, Quiet, watchLoop
  PROVE  Quiet'
<1>1. CASE TakeEvent
  BY <1>1, TakeQuiet
<1>2. CASE ParseMakefilePath
  <2> DEFINE f == job.next.list[job.done + 1]
  <2>1. /\ pc \in {"boot", "parse"} /\ job # NoJob /\ job.done + 1 \in DOMAIN job.next.list
        /\ UNCHANGED <<files, owed, feed, open, watched, moved, unseen, cfg, serverCfg, mcpTools>>
    BY <1>2, ParsedFacts, Limits
       DEF ParseMakefilePath, Parsing, fileVars, watchVars, feedVars, tableVars
  <2>2. CASE files[f] = Missing
    <3>1. Abandon
      BY <1>2, <2>2 DEF ParseMakefilePath
    <3>2. ~Loadable(job.next)
      BY <2>1, <2>2 DEF Loadable
    <3> QED
      BY <2>1, <3>1, <3>2, AbandonQuiet
  <2>3. CASE files[f] # Missing
    <3>1. pc' = pc /\ job' # NoJob
      BY <1>2, <2>1, <2>3 DEF ParseMakefilePath, Types, LoopOK
    <3>2. job'.next = job.next
      <4>1. ~Abandon
        BY <3>1 DEF Abandon
      <4>2. job' = JobOf(job.next, job.done + 1, job.merged \o Tagged(f, job.next.opts),
                         job.valid /\ parse[files[f], job.next.opts].valid)
        BY <1>2, <4>1, ParsedFacts
      <4> QED
        BY <4>2 DEF JobOf
    <3>3. JobRead'
      BY <1>2, OneMoreRead DEF Quiet
    <3>4. StayCurrent'
      <4> SUFFICES ASSUME pc = "parse", job.next # cfg PROVE Current(cfg)'
        BY <2>1, <3>1, <3>2 DEF StayCurrent
      <4>1. Current(cfg) /\ cfg \in Configs
        BY DEF Quiet, StayCurrent, Types, LoopOK
      <4> QED
        BY <2>1, <4>1, SettledSame, CurrentKept
    <3> QED
      BY <2>1, <3>1, <3>3, <3>4 DEF Quiet, NoneMissed, Started, Installing
  <2> QED
    BY <2>2, <2>3
<1>3. CASE Reject
  <2>1. /\ pc \in {"boot", "parse"} /\ job # NoJob /\ Abandon
        /\ job.done = Len(job.next.list) /\ ~job.valid
        /\ UNCHANGED <<files, owed, feed, open, watched, moved, unseen, cfg, serverCfg, mcpTools>>
    BY <1>3 DEF Reject, Parsing, Parsed, fileVars, watchVars, feedVars, tableVars
  <2>2. Settled(job.next) => ~Loadable(job.next)
    BY <2>1, AllRead DEF Quiet
  <2> QED
    BY <2>1, <2>2, AbandonQuiet
<1>4. CASE Swap \/ SetTools \/ Notify
  <2>1. /\ pc \in {"parse", "setTools", "notify"} /\ pc' \in {"setTools", "notify", "record"}
        /\ job' = job /\ job # NoJob
        /\ UNCHANGED <<files, owed, feed, open, watched, moved, unseen, cfg, serverCfg>>
    BY <1>4 DEF Swap, SetTools, Notify, Types, LoopOK, fileVars, watchVars, feedVars
  <2>2. job.done = Len(job.next.list)
    BY <1>4 DEF Swap, SetTools, Notify, Parsed, Quiet, Started, Installing
  <2>3. JobRead'
    BY <2>1, SettledSame, JobReadKept DEF Quiet
  <2> QED
    BY <2>1, <2>2, <2>3 DEF Quiet, NoneMissed, Started, StayCurrent, Installing
<1>5. CASE Record
  <2> DEFINE c == job.next
  <2>1. /\ pc = "record" /\ pc' = "select" /\ job # NoJob /\ job' = NoJob
        /\ cfg' = c /\ c \in Configs /\ job.done = Len(c.list)
        /\ UNCHANGED <<files, owed, feed, open, watched, moved, unseen, serverCfg, mcpTools>>
    BY <1>5 DEF Record, Abandon, Quiet, Started, Installing, Types, LoopOK, Jobs,
                fileVars, watchVars, feedVars
  <2>2. mcpTools = Index(job.merged)
    BY <2>1 DEF Inv, TablesAgree, Installing
  <2>3. Settled(c) => mcpTools = Wanted(c)
    BY <2>1, <2>2, AllRead DEF Quiet, Wanted
  <2>4. PICK d \in Configs : d = c
    BY <2>1
  <2>5. Current(d)
    BY <2>3, <2>4 DEF Current
  <2>6. Current(d)'
    BY <2>1, <2>5, SettledSame, CurrentKept
  <2>7. Current(cfg)'
    BY <2>1, <2>4, <2>6
  <2> QED
    BY <2>1, <2>7 DEF Quiet, JobRead, NoneMissed, Started, StayCurrent, Installing
<1>6. CASE Return
  BY <1>6 DEF Return, Types, LoopOK, Quiet, JobRead, NoneMissed, Started, StayCurrent, Installing
<1> QED
  BY <1>1, <1>2, <1>3, <1>4, <1>5, <1>6 DEF watchLoop

LEMMA ClientQuiet ==
  ASSUME Types, Quiet, Client \/ UNCHANGED vars
  PROVE  Quiet'
<1>1. UNCHANGED <<files, owed, feed, open, watched, moved, unseen, cfg, serverCfg, mcpTools, pc, job>>
  BY DEF Client, ListTools, Accept, GetRecipe, Answer, vars, fileVars, watchVars, feedVars, tableVars
<1> QED
  BY <1>1, SameQuiet

LEMMA InitQuiet == Init => Quiet
<1> SUFFICES ASSUME Init PROVE Quiet
  OBVIOUS
<1>1. /\ pc = "boot" /\ open /\ cfg \in Configs /\ serverCfg = cfg /\ job = Job(cfg)
  BY DEF Init, Watch!FeedInit
<1>2. JobRead
  <2>1. /\ job.next = cfg /\ job.done = 0 /\ job.merged = <<>> /\ job.valid
        /\ 1..0 = {}
    BY <1>1, ConfigFacts
  <2>2. PICK read \in [1..0 -> Texts] : FlattenSeq(Pieces(cfg, read, 0)) = <<>>
    BY NothingRead
  <2>3. HasRead(read)
    BY <2>1, <2>2 DEF HasRead
  <2> QED
    BY <2>1, <2>3 DEF JobRead
<1> QED
  BY <1>1, <1>2 DEF Quiet, NoneMissed, Started, StayCurrent, Installing

LEMMA QuietInvariance == Spec => []Quiet
<1>1. Types /\ Types' /\ Inv /\ Quiet /\ [Next]_vars => Quiet'
  BY EnvironmentQuiet, StartQuiet, LoopQuiet, ClientQuiet DEF Next, run
<1> QED
  BY <1>1, InitQuiet, TypesInvariant, Invariance, PTL DEF Spec

(* Whenever the loop rests and no Makefile it serves has a change that is  *)
(* under way or went unseen, the library serves exactly what the files say *)
(* under the configuration in force, if they can be loaded, and so does    *)
(* the registry: whatever was edited during the parsing, however often.    *)
QuietIsCurrent ==
  pc = "select" /\ Settled(cfg) /\ Loadable(cfg) => mcpTools = Wanted(cfg) /\ recipes = mcpTools

THEOREM QuietServesCurrent == Spec => []QuietIsCurrent
<1>1. Inv /\ Quiet => QuietIsCurrent
  BY DEF Inv, TablesAgree, Quiet, StayCurrent, Current, QuietIsCurrent
<1> QED
  BY <1>1, Invariance, QuietInvariance, PTL
-----------------------------------------------------------------------------
(* A finished job of valid Makefiles holds what its configuration makes of *)
(* them.                                                                   *)
LEMMA JobFromValid ==
  ASSUME Types, JobRead, job # NoJob, job.valid, job.done = Len(job.next.list)
  PROVE  FromValid(Index(job.merged), job.next)
<1> DEFINE c == job.next
<1>1. PICK read \in [1..job.done -> Texts] : HasRead(read)
  BY DEF JobRead
<1>2. DOMAIN c.list = 1..job.done
  BY ConfigFacts, JobParts
<1>3. job.merged = FlattenSeq([i \in DOMAIN c.list |-> TagOf(c.list[i], read[i], c.opts)])
  BY <1>1, <1>2 DEF HasRead, Pieces
<1>4. \A i \in DOMAIN c.list : parse[read[i], c.opts].valid
  BY <1>1, <1>2 DEF HasRead
<1> HIDE DEF c
<1>5. FromValid(Index(job.merged), c)
  BY <1>2, <1>3, <1>4 DEF FromValid
<1> QED
  BY <1>5 DEF c

(* Once the tables are filled they are one configuration's. *)
ServedBy == IF pc \in {"notify", "record"} THEN job.next ELSE cfg
ToolsFromValid == pc \notin {"boot", "failed"} => FromValid(mcpTools, ServedBy)

LEMMA InitValid == Init => ToolsFromValid
BY DEF Init, ToolsFromValid

LEMMA RunValid ==
  ASSUME Types, Inv, Quiet, ToolsFromValid, run
  PROVE  ToolsFromValid'
<1>1. CASE New \/ SetTools
  <2>1. /\ job # NoJob /\ job.valid /\ job.done = Len(job.next.list)
        /\ mcpTools' = Index(job.merged) /\ ServedBy' = job.next
    BY <1>1 DEF New, SetTools, Parsed, Types, LoopOK, Inv, InstallsValid, Quiet, Started, Installing,
                ServedBy
  <2>2. FromValid(mcpTools', ServedBy')
    BY <2>1, JobFromValid DEF Quiet
  <2> QED
    BY <2>2 DEF ToolsFromValid, FromValid
<1>2. CASE ~(New \/ SetTools)
  <2>1. mcpTools' = mcpTools
    BY <1>2 DEF run, watchLoop, NewWatcher, TakeEvent, ParseMakefilePath, Reject, Swap, Notify,
                Record, Return, tableVars
  <2>2. pc' \notin {"boot", "failed"} => ServedBy' = ServedBy /\ pc \notin {"boot", "failed"}
    BY <1>2 DEF run, watchLoop, NewWatcher, TakeEvent, ParseMakefilePath, Parsing, StartJob, Reject,
                Swap, Notify, Record, Abandon, Return, ServedBy
  <2> QED
    BY <2>1, <2>2 DEF ToolsFromValid, FromValid
<1> QED
  BY <1>1, <1>2

(* Whatever the order of edits, reads and reloads, the library serves what *)
(* the configuration in force makes of a valid text of every Makefile it   *)
(* lists: an invalid file contributes nothing, and nor do the valid ones   *)
(* that were read with it.                                                 *)
THEOREM ServesOnlyValidated == Spec => []OnlyValidated
<1>1. Types /\ Inv /\ Quiet /\ ToolsFromValid /\ [Next]_vars => ToolsFromValid'
  <2> SUFFICES ASSUME Types, Inv, Quiet, ToolsFromValid, [Next]_vars
               PROVE  ToolsFromValid'
    OBVIOUS
  <2>1. CASE Environment \/ Client \/ UNCHANGED vars
    <3>1. UNCHANGED <<pc, job, cfg, mcpTools>>
      BY <2>1 DEF Environment, EditMakefile, EditConfig, Watcher, LoopRename, Announce, Strand, Cancel,
             Client, ListTools, Accept, GetRecipe, Answer, vars, tableVars
    <3> QED
      BY <3>1 DEF ToolsFromValid, ServedBy, FromValid
  <2> QED
    BY <2>1, RunValid DEF Next
<1>2. ToolsFromValid => OnlyValidated
  BY DEF ToolsFromValid, ServedBy, OnlyValidated, Serving
<1> QED
  BY <1>1, <1>2, InitValid, TypesInvariant, Invariance, QuietInvariance, PTL DEF Spec
=============================================================================
