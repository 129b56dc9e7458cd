---------------------------- MODULE PreCommitProofs --------------------------
(***************************************************************************)
(* Proofs about the hook, for every tree, every edit and every generator,  *)
(* and about what two of the generators print: the labels a program that   *)
(* keeps to the patterns records, and a graph that tells the jobs.         *)
(***************************************************************************)
EXTENDS PreCommit, WellFoundedInduction, TLAPS

(* What a hook has found current, and readable, stays so until the next    *)
(* edit: a generator that changes the tree ends the hook.                  *)
Found ==
  clean =>
    /\ pc \in {"home", "metrics", "ci", "checks"} => tree.sidebar = Pages(tree)
    /\ pc \in {"metrics", "ci", "checks"} => tree.home = Home(tree)
    /\ pc \in {"ci", "checks"} => tree.telemetry = Telemetry(tree) /\ Telemetry(tree) # Broken
    /\ pc = "checks" => tree.ci = CI(tree) /\ CI(tree) # Broken

(* What passed was readable, main.go too: it compiles. *)
Readable ==
  Passed => Broken \notin {Telemetry(tree), CI(tree), tree.metrics, tree.main}

(* No generator touches a source. *)
Sources ==
  /\ DOMAIN tree = Files
  /\ \A f \in {"metrics", "main", "workflows", "written"} : tree[f] \in Contents[f] \cup {Start[f]}

Inv == Found /\ PassMeansCurrent /\ Readable /\ Sources

(* The properties speak of the tree, and of the step, the verdict and the  *)
(* cleanliness of the hook.                                                *)
LEMMA Stutter ==
  ASSUME Inv, UNCHANGED vars
  PROVE  Inv'
BY DEF Inv, Found, PassMeansCurrent, Readable, Sources, Passed, Pages, Home, Telemetry, CI, vars

(* A generator that goes on has changed nothing and found its page         *)
(* current; one that stops has failed the hook.                            *)
LEMMA GenerateStep ==
  ASSUME Inv, NEW step, NEW next, NEW f \in {"sidebar", "home", "telemetry", "ci"}, NEW output,
         Generate(step, next, f, output)
  PROVE  /\ pc = step /\ clean' = clean /\ Sources'
         /\ \/ pc' = next /\ output = tree[f] /\ output # Broken /\ tree' = tree /\ verdict' = verdict
            \/ pc' = "idle" /\ verdict' = "failed"
<1>1. tree' = tree \/ tree' = [tree EXCEPT ![f] = output]
  BY DEF Generate
<1>2. Sources'
  BY <1>1 DEF Inv, Sources, Files
<1> QED
  BY <1>2 DEF Generate

(* A pass is clean and current only after every page was found so. *)
LEMMA HookStep ==
  ASSUME Inv, Hook
  PROVE  Inv'
<1> USE DEF Inv, Found, PassMeansCurrent, Readable, Passed
<1>1. CASE GenSidebar
  <2>1. /\ pc = "sidebar" /\ clean' = clean /\ Sources'
        /\ \/ pc' = "home" /\ Pages(tree) = tree["sidebar"] /\ Pages(tree) # Broken /\ tree' = tree /\ verdict' = verdict
           \/ pc' = "idle" /\ verdict' = "failed"
    BY <1>1, GenerateStep DEF GenSidebar
  <2>2. tree' = tree => Pages(tree)' = Pages(tree)
    OBVIOUS
  <2> QED
    BY <2>1, <2>2
<1>2. CASE GenHome
  <2>1. /\ pc = "home" /\ clean' = clean /\ Sources'
        /\ \/ pc' = "metrics" /\ Home(tree) = tree["home"] /\ Home(tree) # Broken /\ tree' = tree /\ verdict' = verdict
           \/ pc' = "idle" /\ verdict' = "failed"
    BY <1>2, GenerateStep DEF GenHome
  <2> QED
    BY <2>1
<1>3. CASE GenMetricsDoc
  <2>1. /\ pc = "metrics" /\ clean' = clean /\ Sources'
        /\ \/ pc' = "ci" /\ Telemetry(tree) = tree["telemetry"] /\ Telemetry(tree) # Broken /\ tree' = tree /\ verdict' = verdict
           \/ pc' = "idle" /\ verdict' = "failed"
    BY <1>3, GenerateStep DEF GenMetricsDoc
  <2> QED
    BY <2>1
<1>4. CASE GenCIDoc
  <2>1. /\ pc = "ci" /\ clean' = clean /\ Sources'
        /\ \/ pc' = "checks" /\ CI(tree) = tree["ci"] /\ CI(tree) # Broken /\ tree' = tree /\ verdict' = verdict
           \/ pc' = "idle" /\ verdict' = "failed"
    BY <1>4, GenerateStep DEF GenCIDoc
  <2> QED
    BY <2>1
<1>5. CASE Checks
  BY <1>5 DEF Checks, Sources
<1> QED
  BY <1>1, <1>2, <1>3, <1>4, <1>5 DEF Hook

(* The invariant, over a hook interrupted by edits at any step. *)
THEOREM Invariance == Spec => []Inv
<1>1. Init => Inv
  BY PreCommitAssumption DEF Init, Inv, Found, PassMeansCurrent, Readable, Sources, Passed
<1>2. Inv /\ [Next]_vars => Inv'
  <2> SUFFICES ASSUME Inv, [Next]_vars PROVE Inv'
    OBVIOUS
  <2>1. CASE Edit
    BY <2>1 DEF Edit, Inv, Found, PassMeansCurrent, Readable, Sources, Passed
  <2>2. CASE Commit
    BY <2>2 DEF Commit, Inv, Found, PassMeansCurrent, Readable, Sources, Passed
  <2>3. CASE Hook
    BY <2>3, HookStep
  <2>4. CASE UNCHANGED vars
    BY <2>4, Stutter
  <2> QED
    BY <2>1, <2>2, <2>3, <2>4 DEF Next
<1> QED
  BY <1>1, <1>2, PTL DEF Spec

(* A hook that passes on a tree nobody edits meanwhile leaves every page   *)
(* as its generator would make it now, whatever the generators make.       *)
THEOREM PassesAreCurrent == Spec => []PassMeansCurrent
BY Invariance, PTL DEF Inv

-----------------------------------------------------------------------------
(* Why committing again gets through: the hooks the generators may still   *)
(* fail.  A page that appears, or vanishes, can cost the sidebar once more.*)
Generated == {"sidebar", "home", "telemetry", "ci"}

Output(t, g) ==
  IF g = "sidebar" THEN Pages(t) ELSE IF g = "home" THEN Home(t)
  ELSE IF g = "telemetry" THEN Telemetry(t) ELSE CI(t)

Stale(t, f, output) == output # Broken /\ output # t[f]

Weight(t, f, output) ==
  IF ~Stale(t, f, output) THEN 0 ELSE IF t[f] = Missing <=> output = Missing THEN 1 ELSE 2

Left(t) ==
  (IF Stale(t, "sidebar", Pages(t)) THEN 1 ELSE 0) + (IF Stale(t, "home", Home(t)) THEN 1 ELSE 0)
    + Weight(t, "telemetry", Telemetry(t)) + Weight(t, "ci", CI(t))

(* While every generator can read its input. *)
InputsRead(t) == Broken \notin {Home(t), Telemetry(t), CI(t)}

Bounded == Sources /\ fails \in Nat /\ (InputsRead(tree) => fails + Left(tree) <= 6)

(* At most six hooks are left, for any tree. *)
LEMMA LeftSix ==
  ASSUME NEW t
  PROVE  Left(t) \in 0..6
<1>1. /\ Weight(t, "telemetry", Telemetry(t)) \in 0..2
      /\ Weight(t, "ci", CI(t)) \in 0..2
  BY DEF Weight
<1> QED
  BY <1>1 DEF Left

(* A generator's output depends on no page that another one makes, but for *)
(* the sidebar, which depends on which of two pages exist.                 *)
Apart(t, u, g, v) ==
  /\ DOMAIN u = Files
  /\ Home(u) = Home(t) /\ Telemetry(u) = Telemetry(t) /\ CI(u) = CI(t)
  /\ u[g] = v
  /\ \A f \in Generated \ {g} : u[f] = t[f]
  /\ g \in {"sidebar", "home"} => Pages(u) = Pages(t)
  /\ (t[g] = Missing <=> v = Missing) => Pages(u) = Pages(t)

(* Replacing one page leaves the others, and what is made of the sources. *)
LEMMA Replaced ==
  ASSUME NEW t, DOMAIN t = Files, NEW g \in Generated, NEW v
  PROVE  Apart(t, [t EXCEPT ![g] = v], g, v)
<1> DEFINE u == [t EXCEPT ![g] = v]
<1>1. DOMAIN u = Files /\ u[g] = v /\ \A f \in Files \ {g} : u[f] = t[f]
  BY DEF Files, Generated
<1>2. \A f \in {"metrics", "main", "workflows", "ruleset", "templates", "readme", "written"} : u[f] = t[f]
  BY <1>1 DEF Files, Generated
<1>3. Home(u) = Home(t) /\ Telemetry(u) = Telemetry(t) /\ CI(u) = CI(t)
  BY <1>2 DEF Home, Telemetry, CI
<1>4. \A f \in Generated \ {g} : u[f] = t[f]
  BY <1>1 DEF Files, Generated
<1>5. ASSUME \A f \in {"telemetry", "ci"} : u[f] = Missing <=> t[f] = Missing
      PROVE  Pages(u) = Pages(t)
  BY <1>2, <1>5 DEF Pages
<1>6. g \in {"sidebar", "home"} => Pages(u) = Pages(t)
  BY <1>4, <1>5 DEF Generated
<1>7. (t[g] = Missing <=> v = Missing) => Pages(u) = Pages(t)
  BY <1>1, <1>4, <1>5 DEF Generated
<1> QED
  BY <1>1, <1>3, <1>4, <1>6, <1>7 DEF Apart

(* A page that is replaced brings the end nearer by one hook at least. *)
LEMMA FewerLeft ==
  ASSUME NEW t, DOMAIN t = Files, NEW g \in Generated, NEW v,
         v = Output(t, g), v # Broken, v # t[g],
         NEW u, Apart(t, u, g, v)
  PROVE  Left(u) + 1 <= Left(t)
<1>1. CASE g = "sidebar"
  BY <1>1 DEF Left, Weight, Stale, Generated, Output, Apart
<1>2. CASE g = "home"
  BY <1>2 DEF Left, Weight, Stale, Generated, Output, Apart
<1>3. CASE g = "telemetry"
  BY <1>3 DEF Left, Weight, Stale, Generated, Output, Apart
<1>4. CASE g = "ci"
  BY <1>4 DEF Left, Weight, Stale, Generated, Output, Apart
<1> QED
  BY <1>1, <1>2, <1>3, <1>4 DEF Generated

(* A page it can make is made of any input but the broken ones. *)
LEMMA OutputRead ==
  ASSUME Sources, InputsRead(tree), NEW g \in Generated
  PROVE  Output(tree, g) # Broken
<1>1. CASE g = "sidebar"
  <2>1. tree.written \in Contents["written"] \cup {Start["written"]}
    BY DEF Sources
  <2>2. tree.written \subseteq Written
    BY <2>1, PreCommitAssumption
  <2>3. Pages(tree) \in SUBSET (Written \cup {"telemetry", "ci"})
    BY <2>2 DEF Pages
  <2>4. Pages(tree) # Broken
    BY <2>3, PreCommitAssumption
  <2> QED
    BY <1>1, <2>4 DEF Output
<1>2. CASE g # "sidebar"
  BY <1>2 DEF InputsRead, Output, Generated
<1> QED
  BY <1>1, <1>2

(* One generator, whichever it is. *)
LEMMA BoundedStep ==
  ASSUME Bounded, NEW step, NEW next, NEW g \in Generated, NEW v, Generate(step, next, g, v),
         v = Output(tree, g)
  PROVE  Bounded'
<1>1. CASE tree' = tree /\ fails' = fails
  BY <1>1 DEF Bounded, Sources, InputsRead, Left, Stale, Weight, Pages, Home, Telemetry, CI
<1>2. CASE v # tree[g] /\ v # Broken
  <2>1. tree' = [tree EXCEPT ![g] = v] /\ fails' \in {fails + 1, fails}
    BY <1>2 DEF Generate
  <2>2. DOMAIN tree = Files
    BY DEF Bounded, Sources
  <2>3. Apart(tree, tree', g, v)
    BY <2>1, <2>2, Replaced
  <2>4. Left(tree') + 1 <= Left(tree)
    BY <1>2, <2>2, <2>3, FewerLeft
  <2>5. Sources'
    BY <2>1 DEF Bounded, Sources, Files, Generated
  <2>6. Left(tree) \in 0..6 /\ Left(tree') \in 0..6
    BY LeftSix
  <2>7. InputsRead(tree') => InputsRead(tree)
    BY <2>3 DEF Apart, InputsRead
  <2>8. fails' \in Nat /\ (InputsRead(tree') => fails' + Left(tree') <= 6)
    BY <2>1, <2>4, <2>6, <2>7 DEF Bounded
  <2>9. Left(tree)' = Left(tree') /\ InputsRead(tree)' = InputsRead(tree')
    BY DEF Left, Stale, Weight, Pages, Home, Telemetry, CI, InputsRead
  <2> QED
    BY <2>5, <2>8, <2>9 DEF Bounded
<1>3. CASE v = Broken
  <2>1. tree' = tree /\ fails' \in {fails + 1, fails}
    BY <1>3 DEF Generate
  <2>2. ~InputsRead(tree)
    BY <1>3, OutputRead DEF Bounded
  <2>3. InputsRead(tree)' = InputsRead(tree)
    BY <2>1 DEF InputsRead, Home, Telemetry, CI
  <2>4. Sources'
    BY <2>1 DEF Bounded, Sources
  <2> QED
    BY <2>1, <2>2, <2>3, <2>4 DEF Bounded
<1> QED
  BY <1>1, <1>2, <1>3 DEF Generate

(* Committing again gets through: without an edit the generators fail at   *)
(* most six hooks, as long as each of them can read its input; whatever    *)
(* else is in the tree and whatever they make of it.                       *)
THEOREM SixAreEnough == Spec => []SixAttempts
<1>1. Init => Bounded
  <2> SUFFICES ASSUME Init PROVE Bounded
    OBVIOUS
  <2> QED
    BY PreCommitAssumption, LeftSix DEF Init, Bounded, Sources
<1>2. Bounded /\ [Next]_vars => Bounded'
  <2> SUFFICES ASSUME Bounded, [Next]_vars PROVE Bounded'
    OBVIOUS
  <2>1. CASE Edit
    <3>1. Sources' /\ fails' = 0
      BY <2>1 DEF Edit, Bounded, Sources
    <3>2. Left(tree') \in 0..6
      BY LeftSix
    <3>3. Left(tree)' = Left(tree')
      BY DEF Left, Stale, Weight, Pages, Home, Telemetry, CI
    <3> QED
      BY <3>1, <3>2, <3>3 DEF Bounded
  <2>2. CASE UNCHANGED <<tree, fails>>
    BY <2>2 DEF Bounded, Sources, InputsRead, Left, Stale, Weight, Pages, Home, Telemetry, CI
  <2>3. CASE GenSidebar
    BY <2>3, BoundedStep DEF GenSidebar, Generated, Output
  <2>4. CASE GenHome
    BY <2>4, BoundedStep DEF GenHome, Generated, Output
  <2>5. CASE GenMetricsDoc
    BY <2>5, BoundedStep DEF GenMetricsDoc, Generated, Output
  <2>6. CASE GenCIDoc
    BY <2>6, BoundedStep DEF GenCIDoc, Generated, Output
  <2> QED
    BY <2>1, <2>2, <2>3, <2>4, <2>5, <2>6 DEF Next, Hook, Commit, Checks, vars
<1>3. Bounded => SixAttempts
  <2>1. Left(tree) \in 0..6
    BY LeftSix
  <2> QED
    BY <2>1 DEF Bounded, InputsRead, SixAttempts
<1> QED
  BY <1>1, <1>2, <1>3, PTL DEF Spec

-----------------------------------------------------------------------------
(* What a generator prints in a loop is what each round of it prints.      *)
LEMMA Least ==
  ASSUME NEW S \in SUBSET Nat, S # {}
  PROVE  \E n \in S : \A k \in S : n <= k
<1>1. \E n \in S : \A k \in S : <<k, n>> \notin OpToRel(<, Nat)
  BY NatLessThanWellFounded, WFMin
<1>2. PICK n \in S : \A k \in S : ~(k < n)
  BY <1>1 DEF OpToRel
<1> QED
  BY <1>2

(* Max of positions is one of them. *)
LEMMA Greatest ==
  ASSUME NEW n \in Nat, NEW S \in SUBSET (1..n), S # {}
  PROVE  Max(S) \in S
<1> DEFINE D == {n - i : i \in S}
<1>1. D \in SUBSET Nat /\ D # {}
  <2>1. D \in SUBSET Nat
    <3>1. \A i \in S : n - i \in Nat
      OBVIOUS
    <3> QED
      BY <3>1
  <2>2. PICK i \in S : TRUE
    OBVIOUS
  <2>3. n - i \in D
    BY <2>2
  <2> QED
    BY <2>1, <2>3
<1>2. PICK d \in D : \A e \in D : d <= e
  <2> HIDE DEF D
  <2> QED
    BY <1>1, Least
<1>3. PICK j \in S : d = n - j
  BY <1>2
<1>4. ASSUME NEW i \in S PROVE i <= j
  <2>1. n - i \in D
    OBVIOUS
  <2> HIDE DEF D
  <2>2. n - j <= n - i
    BY <1>2, <1>3, <2>1
  <2> QED
    BY <2>2
<1>5. \E x \in S : \A y \in S : x >= y
  <2>1. \A i \in S : j >= i
    BY <1>4
  <2> QED
    BY <2>1
<1> QED
  BY <1>5 DEF Max

IsFlat(h, ss, m) == h = [i \in 1..m |-> IF i = 1 THEN ss[i] ELSE h[i - 1] \o ss[i]]

LEMMA FlatExists ==
  ASSUME NEW ss, NEW n \in Nat \ {0}
  PROVE  \E h : IsFlat(h, ss, n)
<1> DEFINE C == {m \in Nat \ {0} : ~\E h : IsFlat(h, ss, m)}
<1> SUFFICES ASSUME C # {} PROVE FALSE
  OBVIOUS
<1>1. PICK m \in C : \A k \in C : m <= k
  <2>1. C \in SUBSET Nat
    OBVIOUS
  <2> HIDE DEF C
  <2> QED
    BY <2>1, Least
<1>2. m \in Nat \ {0} /\ ~\E h : IsFlat(h, ss, m)
  BY <1>1
<1>3. CASE m = 1
  <2> DEFINE h == [i \in 1..1 |-> ss[i]]
  <2>1. h = [i \in 1..1 |-> IF i = 1 THEN ss[i] ELSE h[i - 1] \o ss[i]]
    OBVIOUS
  <2>2. IsFlat(h, ss, 1)
    <3> HIDE DEF h
    <3> QED
      BY <2>1 DEF IsFlat
  <2> QED
    BY <1>2, <1>3, <2>2
<1>4. CASE m # 1
  <2>1. m - 1 \in Nat \ {0} /\ m - 1 \notin C
    BY <1>1, <1>2, <1>4
  <2>2. PICK k : IsFlat(k, ss, m - 1)
    BY <2>1
  <2> DEFINE h == [i \in 1..m |-> IF i = m THEN k[m - 1] \o ss[m] ELSE k[i]]
  <2>3. \A i \in 1..(m - 1) : k[i] = IF i = 1 THEN ss[i] ELSE k[i - 1] \o ss[i]
    BY <2>2 DEF IsFlat
  <2>4. h = [i \in 1..m |-> IF i = 1 THEN ss[i] ELSE h[i - 1] \o ss[i]]
    <3>1. ASSUME NEW i \in 1..m
          PROVE  h[i] = IF i = 1 THEN ss[i] ELSE h[i - 1] \o ss[i]
      <4>1. CASE i = m
        <5>1. h[i] = k[m - 1] \o ss[m] /\ i # 1
          BY <1>4, <4>1
        <5>2. h[i - 1] = k[m - 1]
          BY <1>2, <1>4, <4>1
        <5> HIDE DEF h
        <5> QED
          BY <4>1, <5>1, <5>2
      <4>2. CASE i # m
        <5>1. i \in 1..(m - 1)
          BY <1>2, <4>2
        <5>2. h[i] = k[i] /\ (i # 1 => h[i - 1] = k[i - 1])
          BY <1>2, <4>2
        <5> HIDE DEF h
        <5> QED
          BY <2>3, <5>1, <5>2
      <4> QED
        BY <4>1, <4>2
    <3> QED
      BY <3>1
  <2>5. IsFlat(h, ss, m)
    <3> HIDE DEF h
    <3> QED
      BY <2>4 DEF IsFlat
  <2> QED
    BY <1>2, <2>5
<1> QED
  BY <1>3, <1>4

(* The elements of a concatenation. *)
LEMMA Concatenated ==
  ASSUME NEW T, NEW s \in Seq(T), NEW t \in Seq(T)
  PROVE  s \o t \in Seq(T) /\ Range(s \o t) = Range(s) \cup Range(t)
<1>1. /\ s \o t \in Seq(T) /\ DOMAIN s = 1..Len(s) /\ DOMAIN t = 1..Len(t)
      /\ DOMAIN (s \o t) = 1..(Len(s) + Len(t))
      /\ Len(s) \in Nat /\ Len(t) \in Nat
  OBVIOUS
<1>2. ASSUME NEW x \in Range(s \o t) PROVE x \in Range(s) \cup Range(t)
  <2>1. PICK i \in 1..(Len(s) + Len(t)) : x = (s \o t)[i]
    BY <1>1, <1>2 DEF Range
  <2>2. CASE i <= Len(s)
    BY <1>1, <2>1, <2>2 DEF Range
  <2>3. CASE i > Len(s)
    <3>1. i - Len(s) \in 1..Len(t) /\ x = t[i - Len(s)]
      BY <1>1, <2>1, <2>3
    <3> QED
      BY <1>1, <3>1 DEF Range
  <2> QED
    BY <1>1, <2>1, <2>2, <2>3
<1>3. ASSUME NEW i \in 1..Len(s) PROVE s[i] \in Range(s \o t)
  <2>1. i \in 1..(Len(s) + Len(t)) /\ (s \o t)[i] = s[i]
    BY <1>1
  <2> QED
    BY <1>1, <2>1 DEF Range
<1>4. ASSUME NEW i \in 1..Len(t) PROVE t[i] \in Range(s \o t)
  <2>1. Len(s) + i \in 1..(Len(s) + Len(t)) /\ (s \o t)[Len(s) + i] = t[i]
    BY <1>1
  <2> QED
    BY <1>1, <2>1 DEF Range
<1>5. Range(s) \cup Range(t) \subseteq Range(s \o t)
  BY <1>1, <1>3, <1>4 DEF Range
<1> QED
  BY <1>1, <1>2, <1>5

Flattened(ss, T, m, s) == s \in Seq(T) /\ Range(s) = UNION {Range(ss[j]) : j \in 1..m}

LEMMA FlatHas ==
  ASSUME NEW T, NEW ss, NEW n \in Nat, \A i \in 1..n : ss[i] \in Seq(T), NEW h, IsFlat(h, ss, n)
  PROVE  \A m \in 1..n : Flattened(ss, T, m, h[m])
<1> DEFINE C == {m \in 1..n : ~Flattened(ss, T, m, h[m])}
<1> SUFFICES ASSUME C # {} PROVE FALSE
  OBVIOUS
<1>1. PICK m \in C : \A k \in C : m <= k
  <2>1. C \in SUBSET Nat
    OBVIOUS
  <2> HIDE DEF C
  <2> QED
    BY <2>1, Least
<1>2. m \in 1..n /\ ~Flattened(ss, T, m, h[m]) /\ h[m] = IF m = 1 THEN ss[m] ELSE h[m - 1] \o ss[m]
  BY <1>1 DEF IsFlat
<1>3. CASE m = 1
  <2>1. h[m] = ss[1] /\ {Range(ss[j]) : j \in 1..1} = {Range(ss[1])}
    BY <1>2, <1>3
  <2> QED
    BY <1>2, <1>3, <2>1 DEF Flattened
<1>4. CASE m # 1
  <2>1. m - 1 \in 1..n /\ m - 1 \notin C
    BY <1>1, <1>2, <1>4
  <2>2. Flattened(ss, T, m - 1, h[m - 1])
    BY <2>1
  <2>3. ss[m] \in Seq(T) /\ h[m - 1] \in Seq(T) /\ h[m] = h[m - 1] \o ss[m]
    BY <1>2, <1>4, <2>2 DEF Flattened
  <2>4. h[m] \in Seq(T) /\ Range(h[m]) = Range(h[m - 1]) \cup Range(ss[m])
    BY <2>3, Concatenated
  <2>5. 1..m = (1..(m - 1)) \cup {m}
    BY <1>2
  <2>6. UNION {Range(ss[j]) : j \in 1..m} = (UNION {Range(ss[j]) : j \in 1..(m - 1)}) \cup Range(ss[m])
    BY <2>5
  <2> QED
    BY <1>2, <2>2, <2>4, <2>6 DEF Flattened
<1> QED
  BY <1>3, <1>4

LEMMA FlattenFacts ==
  ASSUME NEW T, NEW ss \in Seq(Seq(T))
  PROVE  /\ FlattenSeq(ss) \in Seq(T)
         /\ Range(FlattenSeq(ss)) = UNION {Range(ss[i]) : i \in DOMAIN ss}
<1> DEFINE n == Len(ss)
<1>0. n \in Nat /\ DOMAIN ss = 1..n /\ \A i \in 1..n : ss[i] \in Seq(T)
  OBVIOUS
<1>1. CASE n = 0
  <2>1. FlattenSeq(ss) = ss /\ ss = <<>>
    BY <1>1 DEF FlattenSeq
  <2>2. <<>> \in Seq(T) /\ DOMAIN <<>> = {}
    OBVIOUS
  <2> QED
    BY <2>1, <2>2 DEF Range
<1>2. CASE n # 0
  <2> DEFINE h == CHOOSE h : IsFlat(h, ss, n)
  <2>1. FlattenSeq(ss) = h[n]
    BY <1>2 DEF FlattenSeq, IsFlat
  <2>2. IsFlat(h, ss, n)
    BY <1>0, <1>2, FlatExists
  <2>3. Flattened(ss, T, n, h[n])
    <3>1. n \in 1..n
      BY <1>0, <1>2
    <3> HIDE DEF h, n
    <3> QED
      BY <1>0, <2>2, <3>1, FlatHas
  <2> QED
    BY <1>0, <2>1, <2>3 DEF Flattened
<1> QED
  BY <1>1, <1>2

(* A loop that prints at most a line in each round prints the lines of the *)
(* rounds that print.                                                      *)
Lines(n, shows, line) == [k \in 1..n |-> IF shows[k] THEN <<line[k]>> ELSE <<>>]

LEMMA LinesFacts ==
  ASSUME NEW T, NEW n \in Nat, NEW shows, NEW line \in [1..n -> T]
  PROVE  /\ FlattenSeq(Lines(n, shows, line)) \in Seq(T)
         /\ Range(FlattenSeq(Lines(n, shows, line))) = {line[k] : k \in {j \in 1..n : shows[j]}}
<1> DEFINE ss == Lines(n, shows, line)
<1>1. ss \in Seq(Seq(T)) /\ DOMAIN ss = 1..n
  <2>1. \A k \in 1..n : (IF shows[k] THEN <<line[k]>> ELSE <<>>) \in Seq(T)
    OBVIOUS
  <2> QED
    BY <2>1 DEF Lines
<1>2. \A k \in 1..n : Range(ss[k]) = IF shows[k] THEN {line[k]} ELSE {}
  <2> SUFFICES ASSUME NEW k \in 1..n PROVE Range(ss[k]) = IF shows[k] THEN {line[k]} ELSE {}
    OBVIOUS
  <2>1. ss[k] = IF shows[k] THEN <<line[k]>> ELSE <<>>
    BY DEF Lines
  <2>2. DOMAIN <<line[k]>> = {1} /\ <<line[k]>>[1] = line[k] /\ DOMAIN <<>> = {}
    OBVIOUS
  <2>3. Range(<<line[k]>>) = {line[k]} /\ Range(<<>>) = {}
    BY <2>2 DEF Range
  <2> QED
    BY <2>1, <2>3
<1> HIDE DEF ss
<1>3. FlattenSeq(ss) \in Seq(T) /\ Range(FlattenSeq(ss)) = UNION {Range(ss[k]) : k \in 1..n}
  BY <1>1, FlattenFacts
<1>4. UNION {Range(ss[k]) : k \in 1..n} = {line[k] : k \in {j \in 1..n : shows[j]}}
  <2> DEFINE lines == UNION {Range(ss[k]) : k \in 1..n}
             shown == {line[k] : k \in {j \in 1..n : shows[j]}}
             Shown(x) == \E k \in 1..n : shows[k] /\ x = line[k]
  <2>1. \A x : (\E k \in 1..n : x \in Range(ss[k])) <=> Shown(x)
    BY <1>2
  <2>2. \A x : x \in lines <=> \E k \in 1..n : x \in Range(ss[k])
    OBVIOUS
  <2>3. \A x : x \in shown <=> Shown(x)
    OBVIOUS
  <2>4. \A x : x \in lines <=> x \in shown
    <3> HIDE DEF lines, shown, Shown
    <3> QED
      BY <2>1, <2>2, <2>3
  <2> HIDE DEF lines, shown
  <2>5. lines = shown
    BY <2>4, Zenon
  <2> QED
    BY <2>5 DEF lines, shown
<1> QED
  BY <1>3, <1>4 DEF ss

-----------------------------------------------------------------------------
(* Sources that keep to the patterns.  What a function returns.            *)
Returns(g) == UNION {collectAttrKeys(g.body[k]) : k \in At(g, "return", "")}

LEMMA ReturnsKeys ==
  ASSUME NEW g
  PROVE  /\ Returns(g) \subseteq KeysIn(g)
         /\ DOMAIN g.body = At(g, "return", "") => Returns(g) = KeysIn(g)
<1>1. At(g, "return", "") \subseteq DOMAIN g.body
  BY DEF At
<1>2. KeysIn(g) = UNION {collectAttrKeys(g.body[k]) : k \in DOMAIN g.body}
  BY DEF KeysIn, StmtsOf
<1> QED
  BY <1>1, <1>2 DEF Returns

LEMMA CallKept ==
  ASSUME NEW f, NEW extra, KeepsToPatterns(f, extra),
         NEW fn \in FuncsOf(f) \cup FuncsOf(extra), NEW i \in DOMAIN fn.body,
         NEW c \in CallsIn(fn.body[i])
  PROVE  CallIsFollowed(f, extra, fn.body[i], c)
BY Zenon DEF KeepsToPatterns

(* A call that is taken for no helper returns no key. *)
LEMMA NoKeyReturned ==
  ASSUME NEW f, NEW fns, NEW c,
         {g \in Called(fns, c) : KeysIn(g) # {}} = Helpers(f, c), Helpers(f, c) = {}
  PROVE  Returned(fns, c) = {}
<1>1. \A g \in Called(fns, c) : KeysIn(g) = {}
  OBVIOUS
<1>2. \A g \in Called(fns, c) : Returns(g) = {}
  BY <1>1, ReturnsKeys
<1>3. Returned(fns, c) = UNION {Returns(g) : g \in Called(fns, c)}
  BY DEF Returned, Returns
<1> QED
  BY <1>2, <1>3

ReturnedTo(fns, s) == UNION {Returned(fns, c) : c \in CallsIn(s)}

(* What the generator reads off the calls of a statement is what they      *)
(* return.                                                                 *)
LEMMA HelperKeys ==
  ASSUME NEW f \in Seq(Function), NEW extra, KeepsToPatterns(f, extra),
         NEW fn \in FuncsOf(f) \cup FuncsOf(extra), NEW i \in DOMAIN fn.body
  PROVE  collectHelperCallKeys(fn.body[i], buildHelperAttrKeys(f))
           = ReturnedTo(FuncsOf(f) \cup FuncsOf(extra), fn.body[i])
<1> DEFINE s == fn.body[i]
           fns == FuncsOf(f) \cup FuncsOf(extra)
           H == {k \in DOMAIN f : KeysIn(f[k]) # {}}
           at(n) == {k \in H : f[k].name = n}
           names == {f[k].name : k \in H}
           helpers == buildHelperAttrKeys(f)
           found(c) == IF c[2] \in names THEN helpers[c[2]] ELSE {}
<1>1. helpers = [n \in names |-> KeysIn(f[Max(at(n))])]
  BY DEF buildHelperAttrKeys
<1>2. ASSUME NEW c \in CallsIn(s) PROVE found(c) = Returned(fns, c)
  <2>1. /\ {g \in Called(fns, c) : KeysIn(g) # {}} = Helpers(f, c)
        /\ \A g \in Helpers(f, c) : Helpers(f, c) = {g} /\ DOMAIN g.body = At(g, "return", "")
    <3>1. CallIsFollowed(f, extra, s, c)
      <4> HIDE DEF fns, H, at, names, helpers, found
      <4> QED
        BY CallKept, Zenon
    <3> QED
      BY <3>1 DEF CallIsFollowed
  <2>2. CASE c[2] \notin names
    <3>1. Helpers(f, c) = {}
      BY <2>2 DEF Helpers, FuncsOf
    <3>2. Returned(fns, c) = {}
      <4> HIDE DEF fns
      <4> QED
        BY <2>1, <3>1, NoKeyReturned
    <3> QED
      BY <2>2, <3>2
  <2>3. CASE c[2] \in names
    <3> DEFINE m == Max(at(c[2]))
               g == f[m]
    <3>1. m \in at(c[2])
      <4>1. DOMAIN f = 1..Len(f) /\ Len(f) \in Nat
        OBVIOUS
      <4>2. at(c[2]) \in SUBSET (1..Len(f)) /\ at(c[2]) # {}
        BY <2>3, <4>1
      <4> HIDE DEF at
      <4> QED
        BY <4>1, <4>2, Greatest
    <3>2. g \in Helpers(f, c)
      <4> HIDE DEF m
      <4> QED
        BY <3>1 DEF Helpers, FuncsOf
    <3>3. found(c) = KeysIn(g)
      <4> HIDE DEF names, at, helpers
      <4> QED
        BY <1>1, <2>3
    <3> HIDE DEF g, m, fns, found
    <3>4. Helpers(f, c) = {g} /\ DOMAIN g.body = At(g, "return", "")
      BY <2>1, <3>2
    <3>5. Returns(g) = KeysIn(g)
      BY <3>4, ReturnsKeys
    <3>6. g \in Called(fns, c) /\ \A k \in Called(fns, c) : k = g \/ KeysIn(k) = {}
      BY <2>1, <3>4
    <3>7. \A k \in Called(fns, c) : k = g \/ Returns(k) = {}
      BY <3>6, ReturnsKeys
    <3>8. Returned(fns, c) = UNION {Returns(k) : k \in Called(fns, c)}
      BY DEF Returned, Returns
    <3>9. Returned(fns, c) = Returns(g)
      BY <3>6, <3>7, <3>8
    <3> QED
      BY <3>3, <3>5, <3>9
  <2> QED
    BY <2>2, <2>3
<1>3. collectHelperCallKeys(s, helpers) = UNION {helpers[n] : n \in {c[2] : c \in CallsIn(s)} \cap names}
  <2>1. DOMAIN helpers = names
    <3> HIDE DEF names, at, helpers
    <3> QED
      BY <1>1
  <2> HIDE DEF names, helpers
  <2> QED
    BY <2>1 DEF collectHelperCallKeys
<1>4. UNION {helpers[n] : n \in {c[2] : c \in CallsIn(s)} \cap names} = UNION {found(c) : c \in CallsIn(s)}
  <2> HIDE DEF names, helpers, s
  <2>1. ASSUME NEW n \in {c[2] : c \in CallsIn(s)} \cap names
        PROVE  \E c \in CallsIn(s) : found(c) = helpers[n]
    BY <2>1
  <2>2. ASSUME NEW c \in CallsIn(s), found(c) # {}
        PROVE  \E n \in {d[2] : d \in CallsIn(s)} \cap names : helpers[n] = found(c)
    BY <2>2
  <2> HIDE DEF found
  <2> QED
    BY <2>1, <2>2
<1> HIDE DEF s, fns, names, helpers, found
<1>5. UNION {found(c) : c \in CallsIn(s)} = UNION {Returned(fns, c) : c \in CallsIn(s)}
  BY <1>2
<1> QED
  BY <1>3, <1>4, <1>5 DEF s, fns, helpers, ReturnedTo

(* The statement that gives a variable its value is found as the last one. *)
LEMMA HeldIs ==
  ASSUME NEW f \in Seq(Function), NEW extra, KeepsToPatterns(f, extra),
         NEW fn \in FuncsOf(f) \cup FuncsOf(extra), DOMAIN fn.body \subseteq Nat,
         NEW i \in DOMAIN fn.body, fn.body[i].op = "record", NEW e \in ArgsOf(fn.body[i])
  PROVE  varAttrs(fn, buildHelperAttrKeys(f), e.ident) = Held(FuncsOf(f) \cup FuncsOf(extra), fn, i, e.ident)
<1> DEFINE v == e.ident
           fns == FuncsOf(f) \cup FuncsOf(extra)
           helpers == buildHelperAttrKeys(f)
           D == At(fn, "define", v)
           keys(k) == collectAttrKeys(fn.body[k]) \cup collectHelperCallKeys(fn.body[k], helpers)
           defines == {k \in D : keys(k) # {}}
           sets == {j \in D \cup At(fn, "assign", v) : j < i}
<1>1. D \subseteq DOMAIN fn.body /\ \A j \in D : j < i
  <2>1. D \subseteq DOMAIN fn.body
    BY DEF At
  <2> HIDE DEF D
  <2>2. \A j \in At(fn, "define", v) : j < i
    BY DEF KeepsToPatterns
  <2> QED
    BY <2>1, <2>2 DEF D
<1>2. At(fn, "assign", v) = {}
  BY DEF At, KeepsToPatterns
<1>3. \A j \in D : D = {j}
  <2>1. ASSUME NEW j \in D PROVE j \in DOMAIN fn.body /\ fn.body[j].op = "define" /\ fn.body[j].var = v
    BY DEF At
  <2> QED
    BY <2>1 DEF KeepsToPatterns
<1>4. sets = D
  BY <1>1, <1>2
<1>5. \A k \in DOMAIN fn.body : keys(k) = ValueOf(fns, fn.body[k])
  <2>1. ASSUME NEW k \in DOMAIN fn.body
        PROVE  collectHelperCallKeys(fn.body[k], helpers) = ReturnedTo(fns, fn.body[k])
    <3> HIDE DEF v, D, keys, defines, sets
    <3> QED
      BY HelperKeys, ZenonT(60)
  <2> HIDE DEF helpers, fns
  <2> QED
    BY <2>1 DEF ValueOf, ReturnedTo
<1>6. varAttrs(fn, helpers, v) = IF defines = {} THEN {} ELSE keys(Max(defines))
  BY DEF varAttrs
<1>7. Held(fns, fn, i, v) = IF sets = {} THEN {} ELSE ValueOf(fns, fn.body[Max(sets)])
  BY DEF Held
<1>8. CASE D = {}
  <2>1. defines = {} /\ sets = {}
    BY <1>4, <1>8
  <2> QED
    BY <1>6, <1>7, <2>1
<1>9. CASE D # {}
  <2>1. PICK j : j \in D
    BY <1>9
  <2>2. D = {j} /\ j \in Nat
    BY <1>1, <1>3, <2>1
  <2>3. Max({j}) = j
    BY <2>2 DEF Max
  <2>4. Held(fns, fn, i, v) = keys(j)
    <3> HIDE DEF sets, D, keys
    <3> QED
      BY <1>1, <1>4, <1>5, <1>7, <2>1, <2>2, <2>3
  <2>5. CASE keys(j) = {}
    <3>1. defines = {}
      BY <2>2, <2>5
    <3> HIDE DEF keys, defines
    <3> QED
      BY <1>6, <2>4, <2>5, <3>1
  <2>6. CASE keys(j) # {}
    <3>1. defines = {j}
      BY <2>2, <2>6
    <3> HIDE DEF keys, defines
    <3> QED
      BY <1>6, <2>3, <2>4, <3>1
  <2> QED
    BY <2>5, <2>6
<1> QED
  BY <1>8, <1>9

(* A statement that records calls no helper itself. *)
LEMMA LabelsAreRecorded ==
  ASSUME NEW f \in Seq(Function), NEW extra, KeepsToPatterns(f, extra),
         \A fn \in FuncsOf(f) \cup FuncsOf(extra) : DOMAIN fn.body \subseteq Nat, NEW field
  PROVE  Labels(f, extra, field) = Recorded(f, extra, field)
<1> DEFINE helpers == buildHelperAttrKeys(f)
           fns == FuncsOf(f) \cup FuncsOf(extra)
<1>1. ASSUME NEW fn \in fns
      PROVE  extractLabelsFromFunc(fn, helpers, field) = RecordedBy(fns, fn, field)
  <2> DEFINE R == At(fn, "record", field)
             shown(i) == collectAttrKeys(fn.body[i])
                           \cup UNION {varAttrs(fn, helpers, e.ident) : e \in ArgsOf(fn.body[i])}
             meant(i) == ValueOf(fns, fn.body[i]) \cup UNION {Held(fns, fn, i, e.ident) : e \in ArgsOf(fn.body[i])}
  <2>1. ASSUME NEW i \in R PROVE shown(i) = meant(i)
    <3>1. i \in DOMAIN fn.body /\ fn.body[i].op = "record"
      BY DEF At
    <3>2. \A c \in CallsIn(fn.body[i]) : Returned(fns, c) = {}
      <4> SUFFICES ASSUME NEW c \in CallsIn(fn.body[i]) PROVE Returned(fns, c) = {}
        OBVIOUS
      <4>1. /\ {g \in Called(fns, c) : KeysIn(g) # {}} = Helpers(f, c)
            /\ \A g \in Helpers(f, c) : fn.body[i].op = "define"
        <5>1. CallIsFollowed(f, extra, fn.body[i], c)
          <6> HIDE DEF fns, helpers, R, shown, meant
          <6> QED
            BY <3>1, CallKept, Zenon DEF fns
        <5> QED
          BY <5>1 DEF CallIsFollowed
      <4>2. Helpers(f, c) = {}
        BY <3>1, <4>1
      <4> HIDE DEF fns
      <4> QED
        BY <4>1, <4>2, NoKeyReturned
    <3>3. ValueOf(fns, fn.body[i]) = collectAttrKeys(fn.body[i])
      <4> HIDE DEF fns
      <4> QED
        BY <3>2 DEF ValueOf
    <3>4. \A e \in ArgsOf(fn.body[i]) : varAttrs(fn, helpers, e.ident) = Held(fns, fn, i, e.ident)
      BY <3>1, HeldIs
    <3> HIDE DEF helpers, fns
    <3> QED
      BY <3>3, <3>4
  <2>2. extractLabelsFromFunc(fn, helpers, field) = UNION {shown(i) : i \in R}
    BY DEF extractLabelsFromFunc
  <2>3. RecordedBy(fns, fn, field) = UNION {meant(i) : i \in R}
    BY DEF RecordedBy
  <2> HIDE DEF R, shown, meant
  <2> QED
    BY <2>1, <2>2, <2>3
<1>2. Labels(f, extra, field) = UNION {extractLabelsFromFunc(fn, helpers, field) : fn \in fns}
  BY DEF Labels
<1> HIDE DEF helpers
<1> QED
  BY <1>1, <1>2 DEF Recorded

-----------------------------------------------------------------------------
(* The needs of a job are what is parsed of them. *)
LEMMA NeedsAre ==
  ASSUME NEW job, IsNeeds(job.needs), job.needs.kind # "mapping"
  PROVE  /\ Len(parseNeeds(job.needs)) \in Nat
         /\ DOMAIN parseNeeds(job.needs) = 1..Len(parseNeeds(job.needs))
         /\ Range(parseNeeds(job.needs)) = Needed(job)
<1> DEFINE node == job.needs
<1>1. CASE node.kind = "sequence" /\ node.items \in Seq(STRING)
  <2>1. node # Scalar("")
    <3>1. Scalar("").kind = "scalar"
      BY DEF Scalar
    <3> HIDE DEF node
    <3> QED
      BY <1>1, <3>1
  <2>2. parseNeeds(node) = node.items
    BY <1>1, <2>1 DEF parseNeeds, yamlSeqJoin
  <2> QED
    BY <1>1, <2>2 DEF Needed, Range
<1>2. CASE node.kind = "scalar" /\ node = Scalar(node.items[1])
  <2> DEFINE v == node.items[1]
  <2>1. node.items = <<v>>
    BY <1>2 DEF Scalar
  <2>2. Needed(job) = {v} \ {""}
    BY <1>2 DEF Needed
  <2>3. CASE v = ""
    <3>1. parseNeeds(node) = <<>>
      BY <1>2, <2>3 DEF parseNeeds
    <3>2. Len(<<>>) = 0 /\ DOMAIN <<>> = {} /\ 1..0 = {}
      OBVIOUS
    <3> HIDE DEF node, v
    <3>3. Range(<<>>) = {}
      BY <3>2 DEF Range
    <3>4. Needed(job) = {}
      BY <2>2, <2>3
    <3> QED
      BY <3>1, <3>2, <3>3, <3>4 DEF node
  <2>4. CASE v # ""
    <3>1. node # Scalar("")
      <4>1. Scalar("").items[1] = ""
        BY DEF Scalar
      <4> HIDE DEF node
      <4> QED
        BY <2>4, <4>1
    <3>2. parseNeeds(node) = <<v>>
      BY <1>2, <2>1, <3>1 DEF parseNeeds, yamlSeqJoin
    <3> HIDE DEF node, v
    <3>3. Len(<<v>>) = 1 /\ DOMAIN <<v>> = {1} /\ 1..1 = {1} /\ <<v>>[1] = v
      OBVIOUS
    <3>4. Range(<<v>>) = {v}
      BY <3>3 DEF Range
    <3>5. Needed(job) = {v}
      BY <2>2, <2>4
    <3> QED
      BY <3>2, <3>3, <3>4, <3>5 DEF node
  <2> QED
    BY <2>3, <2>4
<1> QED
  BY <1>1, <1>2 DEF IsNeeds

(* The edges of one job. *)
Edge(job, d) == <<mermaidID[d], mermaidID[job.id]>>

LEMMA EdgesOfJob ==
  ASSUME NEW js, IsJobs(js), ValidJobs(js), NEW i \in DOMAIN js,
         NEW T, \A d \in Needed(js[i]) : Edge(js[i], d) \in T
  PROVE  LET edges == FlattenSeq([k \in DOMAIN parseNeeds(js[i].needs) |->
                         IF parseNeeds(js[i].needs)[k] \in Ids(js)
                         THEN <<Edge(js[i], parseNeeds(js[i].needs)[k])>> ELSE <<>>])
         IN  edges \in Seq(T) /\ Range(edges) = {Edge(js[i], d) : d \in Needed(js[i])}
<1> DEFINE needs == parseNeeds(js[i].needs)
           n == Len(needs)
           shows == [k \in 1..n |-> needs[k] \in Ids(js)]
           line == [k \in 1..n |-> Edge(js[i], needs[k])]
           ss == [k \in DOMAIN needs |-> IF needs[k] \in Ids(js) THEN <<Edge(js[i], needs[k])>> ELSE <<>>]
<1>1. n \in Nat /\ DOMAIN needs = 1..n /\ Range(needs) = Needed(js[i])
  BY NeedsAre DEF IsJobs, ValidJobs
<1>2. Needed(js[i]) \subseteq Ids(js)
  BY DEF ValidJobs
<1>3. \A k \in 1..n : needs[k] \in Needed(js[i]) /\ needs[k] \in Ids(js)
  BY <1>1, <1>2 DEF Range
<1>4. line \in [1..n -> T]
  BY <1>3
<1>5. ss = Lines(n, shows, line)
  <2> HIDE DEF needs, n
  <2> QED
    BY <1>1 DEF Lines
<1>6. FlattenSeq(ss) \in Seq(T) /\ Range(FlattenSeq(ss)) = {line[k] : k \in {j \in 1..n : shows[j]}}
  <2> HIDE DEF needs, n, shows, line, ss
  <2> QED
    BY <1>1, <1>4, <1>5, LinesFacts
<1>7. {line[k] : k \in {j \in 1..n : shows[j]}} = {Edge(js[i], needs[k]) : k \in 1..n}
  <2> HIDE DEF needs, n
  <2> QED
    BY <1>3
<1>8. {Edge(js[i], needs[k]) : k \in 1..n} = {Edge(js[i], d) : d \in Needed(js[i])}
  <2>1. Needed(js[i]) = {needs[k] : k \in 1..n}
    BY <1>1 DEF Range
  <2> HIDE DEF needs, n
  <2> QED
    BY <2>1
<1> HIDE DEF n, shows, line
<1> QED
  BY <1>6, <1>7, <1>8

(* The graph tells the nodes and what they wait for. *)
LEMMA GraphTells ==
  ASSUME NEW js, IsJobs(js), ValidJobs(js)
  PROVE  LET g == renderMermaidGraph(parseJobs(js)) IN
           /\ {mermaidID[d] : d \in Ids(js)} = {g.nodes[i][1] : i \in DOMAIN g.nodes}
           /\ Range(g.edges) = Waits(js)
<1> DEFINE jobs == parseJobs(js)
           g == renderMermaidGraph(jobs)
           n == Len(js)
           of(i) == FlattenSeq([k \in DOMAIN parseNeeds(js[i].needs) |->
                         IF parseNeeds(js[i].needs)[k] \in Ids(js)
                         THEN <<Edge(js[i], parseNeeds(js[i].needs)[k])>> ELSE <<>>])
           ss == [i \in DOMAIN js |-> of(i)]
           waits(i) == {Edge(js[i], d) : d \in Needed(js[i])}
           T == UNION {waits(i) : i \in DOMAIN js}
<1>1. /\ DOMAIN jobs = DOMAIN js
      /\ \A i \in DOMAIN js : jobs[i].id = js[i].id /\ jobs[i].needs = parseNeeds(js[i].needs)
  BY DEF parseJobs
<1>2. {jobs[i].id : i \in DOMAIN jobs} = Ids(js)
  <2> HIDE DEF jobs
  <2> QED
    BY <1>1 DEF Ids
<1>3. DOMAIN g.nodes = DOMAIN js /\ \A i \in DOMAIN js : g.nodes[i][1] = mermaidID[js[i].id]
  <2> HIDE DEF jobs
  <2> QED
    BY <1>1 DEF renderMermaidGraph
<1>4. {mermaidID[d] : d \in Ids(js)} = {g.nodes[i][1] : i \in DOMAIN g.nodes}
  <2> HIDE DEF g
  <2> QED
    BY <1>3 DEF Ids
<1>5. g.edges = FlattenSeq(ss)
  <2>1. g.edges = FlattenSeq([i \in DOMAIN jobs |->
                    FlattenSeq([k \in DOMAIN jobs[i].needs |->
                       IF jobs[i].needs[k] \in {jobs[m].id : m \in DOMAIN jobs}
                       THEN << <<mermaidID[jobs[i].needs[k]], mermaidID[jobs[i].id]>> >> ELSE <<>>])])
    <3> HIDE DEF jobs
    <3> QED
      BY DEF renderMermaidGraph
  <2>2. \A i \in DOMAIN js :
          FlattenSeq([k \in DOMAIN jobs[i].needs |->
                       IF jobs[i].needs[k] \in {jobs[m].id : m \in DOMAIN jobs}
                       THEN << <<mermaidID[jobs[i].needs[k]], mermaidID[jobs[i].id]>> >> ELSE <<>>]) = of(i)
    <3> HIDE DEF jobs
    <3> QED
      BY <1>1, <1>2 DEF Edge
  <2> HIDE DEF g, jobs
  <2> QED
    BY <1>1, <2>1, <2>2
<1>6. \A i \in DOMAIN js : of(i) \in Seq(T) /\ Range(of(i)) = waits(i)
  <2> SUFFICES ASSUME NEW i \in DOMAIN js PROVE of(i) \in Seq(T) /\ Range(of(i)) = waits(i)
    OBVIOUS
  <2>1. \A d \in Needed(js[i]) : Edge(js[i], d) \in T
    OBVIOUS
  <2> HIDE DEF T
  <2> QED
    BY <2>1, EdgesOfJob
<1>7. ss \in Seq(Seq(T)) /\ DOMAIN ss = DOMAIN js
  <2> HIDE DEF T, of
  <2> QED
    BY <1>6 DEF IsJobs
<1>8. Range(FlattenSeq(ss)) = UNION {Range(ss[i]) : i \in DOMAIN js}
  <2> HIDE DEF ss, T
  <2> QED
    BY <1>7, FlattenFacts
<1>9. UNION {Range(ss[i]) : i \in DOMAIN js} = UNION {waits(i) : i \in DOMAIN js}
  <2> HIDE DEF of, waits
  <2> QED
    BY <1>6
<1>10. Waits(js) = UNION {waits(i) : i \in DOMAIN js}
  BY DEF Waits, Edge
<1> HIDE DEF g, ss, waits
<1> QED
  BY <1>4, <1>5, <1>8, <1>9, <1>10 DEF g

-----------------------------------------------------------------------------
(* Each instrument has its row in the table of its type. *)
LEMMA PageHas ==
  ASSUME NEW D, NEW instruments \in Seq(D), NEW f, NEW extra, NEW i \in DOMAIN instruments
  PROVE  LET d == instruments[i]
             rows == TelemetryPage(instruments, f, extra)[methodToType(d.method)]
         IN  \E k \in DOMAIN rows : rows[k] = [field |-> d.field, labels |-> Labels(f, extra, d.field)]
<1> DEFINE d == instruments[i]
           type == methodToType(d.method)
           n == Len(instruments)
           shows == [k \in 1..n |-> methodToType(instruments[k].method) = type]
           defs == extractMetricDefs(instruments, type)
           rows == TelemetryPage(instruments, f, extra)[type]
<1>1. n \in Nat /\ DOMAIN instruments = 1..n /\ instruments \in [1..n -> D]
  OBVIOUS
<1>2. defs = FlattenSeq(Lines(n, shows, instruments))
  BY <1>1 DEF extractMetricDefs, Lines
<1>3. Range(defs) = {instruments[k] : k \in {j \in 1..n : shows[j]}}
  <2> HIDE DEF n, shows, defs
  <2> QED
    BY <1>1, <1>2, LinesFacts
<1>4. d \in Range(defs)
  BY <1>1, <1>3
<1>5. PICK k \in DOMAIN defs : defs[k] = d
  BY <1>4 DEF Range
<1>6. type \in {"Counter", "Histogram", "Gauge"}
  BY DEF methodToType
<1>7. rows = [m \in DOMAIN defs |-> [field |-> defs[m].field, labels |-> Labels(f, extra, defs[m].field)]]
  BY <1>6 DEF TelemetryPage
<1> HIDE DEF d, type, defs, rows
<1>8. k \in DOMAIN rows /\ rows[k] = [field |-> d.field, labels |-> Labels(f, extra, d.field)]
  BY <1>5, <1>7
<1> QED
  BY <1>8 DEF d, type, rows

(* The telemetry page of a tree that passed names, for each instrument,    *)
(* the labels the server records it with when it runs, no more and no      *)
(* less, for every program that keeps to the patterns.                     *)
THEOREM LabelsAreDocumented == Spec => []LabelsDocumented
<1>1. Inv => LabelsDocumented
  <2> SUFFICES ASSUME Inv, Passed, KeepsToPatterns(tree.metrics.functions, tree.main),
                      NEW i \in DOMAIN tree.metrics.instruments
               PROVE  LET d == tree.metrics.instruments[i] IN
                        \E k \in DOMAIN tree.telemetry[methodToType(d.method)] :
                          tree.telemetry[methodToType(d.method)][k] =
                            [field |-> d.field, labels |-> Recorded(tree.metrics.functions, tree.main, d.field)]
    BY DEF LabelsDocumented
  <2> DEFINE I == tree.metrics.instruments
             f == tree.metrics.functions
             m == tree.main
             d == I[i]
  <2>1. /\ tree.telemetry = Telemetry(tree) /\ Telemetry(tree) # Broken
        /\ tree.metrics # Broken /\ m # Broken
    BY DEF Inv, PassMeansCurrent, Readable
  <2>2. tree.telemetry = TelemetryPage(I, f, m)
    BY <2>1 DEF Telemetry
  <2>3. I \in Seq([field : STRING, method : STRING]) /\ f \in Seq(Function) /\ m \in Seq(Function)
    BY <2>1, PreCommitAssumption DEF Inv, Sources
  <2>4. \A fn \in FuncsOf(f) \cup FuncsOf(m) : DOMAIN fn.body \subseteq Nat
    <3>1. \A fn \in FuncsOf(f) \cup FuncsOf(m) : fn \in Function
      BY <2>3 DEF FuncsOf
    <3> QED
      BY <3>1 DEF Function
  <2>5. Labels(f, m, d.field) = Recorded(f, m, d.field)
    <3>1. KeepsToPatterns(f, m)
      OBVIOUS
    <3> HIDE DEF f, m, d
    <3> QED
      BY <2>3, <2>4, <3>1, LabelsAreRecorded
  <2>6. LET rows == TelemetryPage(I, f, m)[methodToType(d.method)]
        IN  \E k \in DOMAIN rows : rows[k] = [field |-> d.field, labels |-> Labels(f, m, d.field)]
    <3>1. i \in DOMAIN I
      OBVIOUS
    <3> HIDE DEF I, f, m
    <3> QED
      BY ONLY <2>3, <3>1, PageHas
  <2> QED
    BY <2>2, <2>5, <2>6
<1> QED
  BY Invariance, <1>1, PTL

(* The graph of a tree that passed is that of no workflow with other jobs  *)
(* or other needs: whatever names the jobs have, and however the needs are *)
(* written.                                                                *)
THEOREM GraphsTellJobs == Spec => []GraphTellsJobs
<1>1. Inv => GraphTellsJobs
  <2> DEFINE HasJobs(w) == w # Broken /\ "ci.yml" \in DOMAIN w /\ ValidJobs(w["ci.yml"].jobs)
  <2> SUFFICES ASSUME Inv, Passed, HasJobs(tree.workflows),
                      NEW w \in Contents["workflows"], HasJobs(w),
                      renderMermaidGraph(JobsOf(w, "ci.yml")) = tree.ci.ci
               PROVE  SameJobs(w["ci.yml"].jobs, tree.workflows["ci.yml"].jobs)
    BY DEF GraphTellsJobs
  <2> DEFINE j1 == w["ci.yml"].jobs
             j2 == tree.workflows["ci.yml"].jobs
             g1 == renderMermaidGraph(parseJobs(j1))
             g2 == renderMermaidGraph(parseJobs(j2))
  <2>1. tree.ci = CI(tree) /\ CI(tree) # Broken
    BY DEF Inv, PassMeansCurrent, Readable
  <2>2. tree.ci.ci = renderMermaidGraph(JobsOf(tree.workflows, "ci.yml"))
    BY <2>1 DEF CI, CIPage
  <2>3. g1 = g2
    BY <2>2 DEF JobsOf
  <2>4. IsJobs(j1) /\ IsJobs(j2)
    BY PreCommitAssumption DEF Inv, Sources
  <2>5. /\ {mermaidID[d] : d \in Ids(j1)} = {g1.nodes[i][1] : i \in DOMAIN g1.nodes}
        /\ Range(g1.edges) = Waits(j1)
    BY <2>4, GraphTells
  <2>6. /\ {mermaidID[d] : d \in Ids(j2)} = {g2.nodes[i][1] : i \in DOMAIN g2.nodes}
        /\ Range(g2.edges) = Waits(j2)
    BY <2>4, GraphTells
  <2> HIDE DEF j1, j2, g1, g2
  <2>7. SameJobs(j1, j2)
    BY <2>3, <2>5, <2>6 DEF SameJobs
  <2> QED
    BY <2>7 DEF j1, j2
<1> QED
  BY Invariance, <1>1, PTL
=============================================================================
