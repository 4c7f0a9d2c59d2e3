-------------------------- MODULE RepoPublishProofs --------------------------
(***************************************************************************)
(* Why what a run published stays served, for any releases, any number of  *)
(* runs and any retention: runs of the concurrency group never overlap, so *)
(* the tree a run fetched is the tree it replaces; and what becomes of a   *)
(* run after it published does not change what it was.                     *)
(***************************************************************************)
EXTENDS RepoPublish, FiniteSetTheorems, TLAPS

\* Runs are numbered as they are requested, each for a tag that exists.
RequestInv ==
  \A r \in Runs :
    /\ step[r] = "none" <=> r > requested
    /\ step[r] # "none" => tag[r] \in Tags

\* The concurrency group.
GroupInv ==
  \A r, s \in Runs : step[r] \in Active /\ step[s] \in Active => r = s

\* What a run has in public/: the tree it fetched, then one with its own
\* packages that keeps every noarch package and no more builds than it should.
PublicInv ==
  \A r \in Runs :
    /\ step[r] = "assemble" /\ seeded[r] => public[r] = pages
    /\ step[r] = "publish" =>
         /\ KwinOf[tag[r]] \in public[r].kwin
         /\ tag[r] \in public[r].noarch
         /\ seeded[r] => pages.noarch \subseteq public[r].noarch
         /\ Keep > 0 => Cardinality(public[r].kwin) <= Keep

\* Runs that have published are past that step.
LogInv == \A i \in DOMAIN log : step[log[i]] \in {"attach", "done", "failed"}

IInv == TypeOK /\ RequestInv /\ GroupInv /\ PublicInv /\ LogInv /\ PublishedServed
-----------------------------------------------------------------------------
\* The log, as a sequence of runs.
LEMMA LogFacts ==
  ASSUME TypeOK
  PROVE  /\ log \in Seq(Runs) /\ Len(log) \in Nat /\ DOMAIN log = 1 .. Len(log)
         /\ \A i \in DOMAIN log : log[i] \in Runs
         /\ log # <<>> => Len(log) \in DOMAIN log
<1>1. log \in Seq(Runs)
  BY DEF TypeOK
<1> QED
  BY <1>1

\* Counts are numbers.
LEMMA Numbers ==
  ASSUME TypeOK
  PROVE  /\ requested \in Nat /\ tagged \in Nat /\ Len(KwinOf) \in Nat /\ MaxRuns \in Nat
         /\ Runs \subseteq Nat /\ Tags \subseteq Nat
<1>1. Len(KwinOf) \in Nat
  BY KwinOfAssumption
<1>2. requested \in 0 .. MaxRuns /\ tagged \in 0 .. Len(KwinOf)
  BY DEF TypeOK
<1> QED
  BY <1>1, <1>2, MaxRunsAssumption DEF Runs, Tags

\* Whatever leaves the site alone, and tag and fetch of the runs that have
\* published, leaves published what is published.
LEMMA ServedStable ==
  ASSUME TypeOK, LogInv, PublishedServed, UNCHANGED <<pages, log>>,
         \A r \in Runs : step[r] \in {"attach", "done", "failed"} =>
           /\ step'[r] \in {"attach", "done", "failed"}
           /\ tag'[r] = tag[r] /\ seeded'[r] = seeded[r]
  PROVE  LogInv' /\ PublishedServed'
<1>1. /\ DOMAIN log = 1 .. Len(log) /\ Len(log) \in Nat
      /\ \A i \in DOMAIN log : log[i] \in Runs
      /\ log # <<>> => Len(log) \in DOMAIN log
  BY LogFacts
<1>2. \A i \in DOMAIN log : /\ step'[log[i]] \in {"attach", "done", "failed"}
                            /\ tag'[log[i]] = tag[log[i]] /\ seeded'[log[i]] = seeded[log[i]]
  BY <1>1 DEF LogInv
<1>3. LogInv'
  BY <1>2 DEF LogInv
<1>4. log' # <<>> => KwinOf[tag'[log'[Len(log')]]] \in pages'.kwin
  BY <1>1, <1>2 DEF PublishedServed
<1>5. ASSUME NEW i \in DOMAIN log
      PROVE  \/ tag'[log[i]] \in pages.noarch
             \/ \E j \in (i + 1) .. Len(log) : ~seeded'[log[j]]
  <2>1. CASE tag[log[i]] \in pages.noarch
    BY <1>2, <2>1
  <2>2. CASE \E j \in (i + 1) .. Len(log) : ~seeded[log[j]]
    <3>1. PICK j \in (i + 1) .. Len(log) : ~seeded[log[j]]
      BY <2>2
    <3>2. j \in DOMAIN log
      BY <1>1, <3>1
    <3> QED
      BY <1>2, <3>1, <3>2
  <2> QED
    BY <2>1, <2>2 DEF PublishedServed
<1> QED
  BY <1>3, <1>4, <1>5 DEF PublishedServed

\* What a step of one run does to the steps of all.
LEMMA ProceedFacts ==
  ASSUME TypeOK, NEW r \in Runs, NEW from, NEW to, Proceed(r, from, to)
  PROVE  /\ step[r] = from /\ step'[r] = to
         /\ \A s \in Runs : s # r => step'[s] = step[s]
         /\ to \in Active \cup Ended => step' \in [Runs -> Active \cup Ended \cup {"none", "waiting"}]
BY DEF TypeOK, Proceed

\* The invariant holds at first.
LEMMA InvInit == Init => IInv
<1> SUFFICES ASSUME Init PROVE IInv
  OBVIOUS
<1>1. NoTree \in Trees /\ NoTree.kwin = {}
  BY DEF NoTree, Trees
<1>2. Keep > 0 => Cardinality(pages.kwin) <= Keep
  <2>1. Cardinality({}) = 0
    BY FS_EmptySet
  <2>2. pages.kwin = {}
    BY <1>1 DEF Init
  <2> QED
    BY <2>1, <2>2, KeepAssumption
<1>3. 0 \in 0 .. Len(KwinOf) /\ 0 \in 0 .. MaxRuns
  <2>1. Len(KwinOf) \in Nat
    BY KwinOfAssumption
  <2> QED
    BY <2>1, MaxRunsAssumption
<1>4. TypeOK
  BY <1>1, <1>2, <1>3 DEF Init, TypeOK
<1>5. RequestInv /\ GroupInv /\ PublicInv
  BY MaxRunsAssumption DEF Init, RequestInv, GroupInv, PublicInv, Runs, Active
<1>6. LogInv /\ PublishedServed
  BY DEF Init, LogInv, PublishedServed
<1> QED
  BY <1>4, <1>5, <1>6 DEF IInv

\* A run is requested.
LEMMA RequestStep ==
  ASSUME IInv, NEW t \in Tags, Request(t), tagged' \in 0 .. Len(KwinOf)
  PROVE  IInv'
<1> DEFINE n == requested + 1
<1>1. /\ requested < MaxRuns /\ requested' = n
      /\ tag' = [tag EXCEPT ![n] = t]
      /\ step' = [r \in Runs |-> CASE r = n -> "waiting"
                                   [] step[r] = "waiting" -> "cancelled"
                                   [] OTHER -> step[r]]
      /\ UNCHANGED <<public, seeded, pages, assets, log>>
  BY DEF Request, siteVars
<1>2. /\ requested \in Nat /\ MaxRuns \in Nat /\ n \in Runs /\ n \in 0 .. MaxRuns
      /\ Runs \subseteq Nat
  <2>1. requested \in Nat /\ MaxRuns \in Nat /\ Runs \subseteq Nat
    BY Numbers DEF IInv
  <2> QED
    BY <1>1, <2>1 DEF Runs
<1>3. step[n] = "none"
  BY <1>2 DEF IInv, RequestInv
<1> HIDE DEF n
<1>4. /\ step'[n] = "waiting"
      /\ \A r \in Runs : r # n =>
           \/ step[r] = "waiting" /\ step'[r] = "cancelled"
           \/ step[r] # "waiting" /\ step'[r] = step[r]
  BY <1>1, <1>2, <1>3
<1>5. tag \in [Runs -> Tags \cup {0}] /\ step \in [Runs -> Active \cup Ended \cup {"none", "waiting"}]
  BY DEF IInv, TypeOK
<1>6. tag'[n] = t /\ \A r \in Runs : r # n => tag'[r] = tag[r]
  BY <1>1, <1>2, <1>5
<1>7. TypeOK'
  <2>1. tag' \in [Runs -> Tags \cup {0}]
    BY <1>1, <1>5
  <2>2. step' \in [Runs -> Active \cup Ended \cup {"none", "waiting"}]
    <3>1. \A r \in Runs : step'[r] \in Active \cup Ended \cup {"none", "waiting"}
      BY <1>4, <1>5 DEF Ended
    <3> QED
      BY <1>1, <3>1
  <2> QED
    BY <1>1, <1>2, <2>1, <2>2 DEF IInv, TypeOK
<1>8. RequestInv'
  <2> SUFFICES ASSUME NEW r \in Runs
               PROVE  /\ step'[r] = "none" <=> r > n
                      /\ step'[r] # "none" => tag'[r] \in Tags
    BY <1>1 DEF RequestInv
  <2>1. CASE r = n
    BY <1>2, <1>4, <1>6, <2>1
  <2>2. CASE r # n
    <3>1. r > requested <=> r > n
      BY <1>2, <2>2 DEF n
    <3> QED
      BY <1>4, <1>6, <2>2, <3>1 DEF IInv, RequestInv
  <2> QED
    BY <2>1, <2>2
<1>9. \A r \in Runs : step'[r] \in Active => step[r] = step'[r] /\ r # n
  BY <1>4 DEF Active
<1>10. GroupInv'
  BY <1>9 DEF IInv, GroupInv
<1>11. PublicInv'
  BY <1>1, <1>6, <1>9 DEF IInv, PublicInv, Active
<1>12. LogInv' /\ PublishedServed'
  <2>1. \A r \in Runs : step[r] \in {"attach", "done", "failed"} =>
          /\ step'[r] \in {"attach", "done", "failed"}
          /\ tag'[r] = tag[r] /\ seeded'[r] = seeded[r]
    BY <1>1, <1>3, <1>4, <1>6
  <2> QED
    BY <1>1, <2>1, ServedStable DEF IInv
<1> QED
  BY <1>7, <1>8, <1>10, <1>11, <1>12 DEF IInv

\* A waiting run gets its turn.
LEMMA StartStep ==
  ASSUME IInv, NEW r \in Runs, Start(r)
  PROVE  IInv'
<1>1. /\ step[r] = "waiting" /\ \A s \in Runs : step[s] \notin Active
      /\ step' = [step EXCEPT ![r] = "build"]
      /\ UNCHANGED <<tagged, requested, tag, public, seeded, pages, assets, log>>
  BY DEF Start, siteVars
<1>2. Proceed(r, "waiting", "build")
  BY <1>1 DEF Proceed
<1>3. /\ step'[r] = "build" /\ \A s \in Runs : s # r => step'[s] = step[s]
      /\ step' \in [Runs -> Active \cup Ended \cup {"none", "waiting"}]
  BY <1>2, ProceedFacts DEF IInv, Active
<1>4. TypeOK'
  BY <1>1, <1>3 DEF IInv, TypeOK
<1>5. RequestInv'
  BY <1>1, <1>3 DEF IInv, RequestInv
<1>6. GroupInv'
  BY <1>1, <1>3 DEF GroupInv
<1>7. PublicInv'
  BY <1>1, <1>3 DEF IInv, PublicInv
<1>8. LogInv' /\ PublishedServed'
  BY <1>1, <1>3, ServedStable DEF IInv
<1> QED
  BY <1>4, <1>5, <1>6, <1>7, <1>8 DEF IInv

\* A step of the run that has its turn: what is left to show of it.
LEMMA RunningStep ==
  ASSUME IInv, NEW r \in Runs, NEW from \in Active, NEW to \in Active \cup Ended,
         Proceed(r, from, to), UNCHANGED <<tagged, requested, tag>>
  PROVE  /\ step[r] = from /\ step'[r] = to
         /\ \A s \in Runs : s # r => step'[s] = step[s]
         /\ \A s \in Runs : s # r => step'[s] \notin Active
         /\ step' \in [Runs -> Active \cup Ended \cup {"none", "waiting"}]
         /\ tag[r] \in Tags
         /\ RequestInv' /\ GroupInv'
<1>1. /\ step[r] = from /\ step'[r] = to /\ \A s \in Runs : s # r => step'[s] = step[s]
      /\ step' \in [Runs -> Active \cup Ended \cup {"none", "waiting"}]
  BY ProceedFacts DEF IInv
<1>2. from # "none" /\ to # "none"
  BY DEF Active, Ended
<1>3. \A s \in Runs : s # r => step'[s] \notin Active
  BY <1>1 DEF IInv, GroupInv
<1>4. RequestInv' /\ tag[r] \in Tags
  BY <1>1, <1>2 DEF IInv, RequestInv
<1>5. GroupInv'
  BY <1>3 DEF GroupInv
<1> QED
  BY <1>1, <1>3, <1>4, <1>5

\* Building, attaching to the release and failing leave the site alone.
LEMMA AsideStep ==
  ASSUME IInv, NEW r \in Runs, BuildRpms(r) \/ Attach(r) \/ Fail(r)
  PROVE  IInv'
<1>1. CASE BuildRpms(r)
  <2>1. /\ Proceed(r, "build", "fetch")
        /\ UNCHANGED <<tagged, requested, tag, public, seeded, pages, assets, log>>
    BY <1>1 DEF BuildRpms, siteVars
  <2>2. /\ step[r] = "build" /\ step'[r] = "fetch"
        /\ \A s \in Runs : s # r => step'[s] = step[s]
        /\ step' \in [Runs -> Active \cup Ended \cup {"none", "waiting"}]
        /\ RequestInv' /\ GroupInv'
    BY <2>1, RunningStep DEF Active
  <2>3. TypeOK' /\ PublicInv'
    BY <2>1, <2>2 DEF IInv, TypeOK, PublicInv
  <2>4. LogInv' /\ PublishedServed'
    BY <2>1, <2>2, ServedStable DEF IInv
  <2> QED
    BY <2>2, <2>3, <2>4 DEF IInv
<1>2. CASE Attach(r)
  <2> DEFINE with == [kwin |-> assets[tag[r]].kwin \cup public[r].kwin,
                      noarch |-> assets[tag[r]].noarch \cup public[r].noarch]
  <2>1. /\ Proceed(r, "attach", "done")
        /\ UNCHANGED <<tagged, requested, tag, public, seeded, pages, log>>
        /\ assets' = [assets EXCEPT ![tag[r]] = with]
    BY <1>2 DEF Attach
  <2>2. /\ step[r] = "attach" /\ step'[r] = "done"
        /\ \A s \in Runs : s # r => step'[s] = step[s]
        /\ step' \in [Runs -> Active \cup Ended \cup {"none", "waiting"}]
        /\ tag[r] \in Tags /\ RequestInv' /\ GroupInv'
    BY <2>1, RunningStep DEF Active, Ended
  <2>3. with \in Trees
    BY <2>2 DEF IInv, TypeOK, Trees
  <2> HIDE DEF with
  <2>4. assets' \in [Tags -> Trees]
    BY <2>1, <2>3 DEF IInv, TypeOK
  <2>5. TypeOK' /\ PublicInv'
    BY <2>1, <2>2, <2>4 DEF IInv, TypeOK, PublicInv
  <2>6. LogInv' /\ PublishedServed'
    BY <2>1, <2>2, ServedStable DEF IInv
  <2> QED
    BY <2>2, <2>5, <2>6 DEF IInv
<1>3. CASE Fail(r)
  <2>1. /\ step[r] \in Active /\ Proceed(r, step[r], "failed")
        /\ UNCHANGED <<tagged, requested, tag, public, seeded, pages, assets, log>>
    BY <1>3 DEF Fail, Proceed, siteVars
  <2>2. /\ step'[r] = "failed"
        /\ \A s \in Runs : s # r => step'[s] = step[s]
        /\ step' \in [Runs -> Active \cup Ended \cup {"none", "waiting"}]
        /\ RequestInv' /\ GroupInv'
    BY <2>1, RunningStep DEF Ended
  <2>3. TypeOK' /\ PublicInv'
    BY <2>1, <2>2 DEF IInv, TypeOK, PublicInv
  <2>4. LogInv' /\ PublishedServed'
    BY <2>1, <2>2, ServedStable DEF IInv
  <2> QED
    BY <2>2, <2>3, <2>4 DEF IInv
<1> QED
  BY <1>1, <1>2, <1>3

\* What fetching brings is what is published, or nothing.
LEMMA FetchStep ==
  ASSUME IInv, NEW r \in Runs, FetchPages(r)
  PROVE  IInv'
<1>1. PICK ok \in BOOLEAN :
        /\ seeded' = [seeded EXCEPT ![r] = ok]
        /\ public' = [public EXCEPT ![r] = IF ok THEN pages ELSE NoTree]
  BY DEF FetchPages
<1>2. /\ Proceed(r, "fetch", "assemble")
      /\ UNCHANGED <<tagged, requested, tag, pages, assets, log>>
  BY DEF FetchPages, siteVars
<1>3. /\ step[r] = "fetch" /\ step'[r] = "assemble"
      /\ \A s \in Runs : s # r => step'[s] = step[s] /\ step'[s] \notin Active
      /\ step' \in [Runs -> Active \cup Ended \cup {"none", "waiting"}]
      /\ RequestInv' /\ GroupInv'
  BY <1>2, RunningStep DEF Active
<1>4. pages \in Trees /\ NoTree \in Trees /\ public \in [Runs -> Trees] /\ seeded \in [Runs -> BOOLEAN]
  BY DEF IInv, TypeOK, NoTree, Trees
<1>5. /\ public' \in [Runs -> Trees] /\ seeded' \in [Runs -> BOOLEAN]
      /\ seeded'[r] = ok /\ public'[r] = IF ok THEN pages ELSE NoTree
      /\ \A s \in Runs : s # r => seeded'[s] = seeded[s]
  BY <1>1, <1>4
<1>6. TypeOK'
  BY <1>2, <1>3, <1>5 DEF IInv, TypeOK
<1>7. PublicInv'
  BY <1>2, <1>3, <1>5 DEF PublicInv, Active
<1>8. LogInv' /\ PublishedServed'
  BY <1>2, <1>3, <1>5, ServedStable DEF IInv
<1> QED
  BY <1>3, <1>6, <1>7, <1>8 DEF IInv

\* make-repo.sh adds the run's packages and loses no noarch package.
LEMMA MakeRepoStep ==
  ASSUME IInv, NEW r \in Runs, MakeRepo(r)
  PROVE  IInv'
<1> DEFINE build == KwinOf[tag[r]]
<1>1. PICK kept \in Prune(public[r].kwin, build) :
        public' = [public EXCEPT ![r] = [kwin |-> kept, noarch |-> public[r].noarch \cup {tag[r]}]]
  BY DEF MakeRepo
<1> DEFINE tree == [kwin |-> kept, noarch |-> public[r].noarch \cup {tag[r]}]
<1>2. /\ Proceed(r, "assemble", "publish")
      /\ UNCHANGED <<tagged, requested, tag, seeded, pages, assets, log>>
  BY DEF MakeRepo, siteVars
<1>3. /\ step[r] = "assemble" /\ step'[r] = "publish"
      /\ \A s \in Runs : s # r => step'[s] = step[s] /\ step'[s] \notin Active
      /\ step' \in [Runs -> Active \cup Ended \cup {"none", "waiting"}]
      /\ tag[r] \in Tags /\ RequestInv' /\ GroupInv'
  BY <1>2, RunningStep DEF Active
<1>4. public[r] \in Trees /\ build \in Builds /\ public \in [Runs -> Trees]
  BY <1>3 DEF IInv, TypeOK, Builds
<1>5. kept \subseteq public[r].kwin \cup {build}
  BY <1>1 DEF Prune
<1>6. build \in kept
  BY <1>1 DEF Prune
<1>7. Keep > 0 => Cardinality(kept) <= Keep
  <2> SUFFICES ASSUME Keep > 0 PROVE Cardinality(kept) <= Keep
    OBVIOUS
  <2> DEFINE all == public[r].kwin \cup {build}
  <2>1. \/ Cardinality(all) <= Keep /\ kept = all
        \/ Cardinality(kept) = Keep
    <3> HIDE DEF build
    <3> QED
      BY <1>1, KeepAssumption DEF Prune
  <2> QED
    BY <2>1, KeepAssumption
<1>8. tree \in Trees
  BY <1>3, <1>4, <1>5 DEF Trees
<1>9. public'[r] = tree /\ public' \in [Runs -> Trees]
  <2> HIDE DEF tree
  <2>1. public' = [public EXCEPT ![r] = tree]
    BY <1>1 DEF tree
  <2> QED
    BY <1>4, <1>8, <2>1
<1>10. TypeOK'
  BY <1>2, <1>3, <1>9 DEF IInv, TypeOK
<1>11. PublicInv'
  <2>1. seeded[r] => pages.noarch \subseteq tree.noarch
    BY <1>3 DEF IInv, PublicInv
  <2>2. /\ KwinOf[tag[r]] \in tree.kwin /\ tag[r] \in tree.noarch
        /\ Keep > 0 => Cardinality(tree.kwin) <= Keep
    BY <1>6, <1>7
  <2> HIDE DEF tree, build
  <2> QED
    BY <1>2, <1>3, <1>9, <2>1, <2>2 DEF PublicInv, Active
<1>12. LogInv' /\ PublishedServed'
  BY <1>2, <1>3, ServedStable DEF IInv
<1> QED
  BY <1>3, <1>10, <1>11, <1>12 DEF IInv

\* The push: the run becomes the last that published, and its tree, which
\* holds what the others published if it was fetched, is what is served.
LEMMA PublishStep ==
  ASSUME IInv, NEW r \in Runs, Publish(r)
  PROVE  IInv'
<1> DEFINE n == Len(log) + 1
<1>1. /\ Proceed(r, "publish", "attach")
      /\ pages' = public[r] /\ log' = Append(log, r)
      /\ UNCHANGED <<tagged, requested, tag, public, seeded, assets>>
  BY DEF Publish
<1>2. /\ step[r] = "publish" /\ step'[r] = "attach"
      /\ \A s \in Runs : s # r => step'[s] = step[s] /\ step'[s] \notin Active
      /\ step' \in [Runs -> Active \cup Ended \cup {"none", "waiting"}]
      /\ tag[r] \in Tags /\ RequestInv' /\ GroupInv'
  BY <1>1, RunningStep DEF Active
<1>3. /\ KwinOf[tag[r]] \in pages'.kwin /\ tag[r] \in pages'.noarch
      /\ seeded[r] => pages.noarch \subseteq pages'.noarch
      /\ Keep > 0 => Cardinality(pages'.kwin) <= Keep
  BY <1>1, <1>2 DEF IInv, PublicInv
<1>4. /\ log' \in Seq(Runs) /\ Len(log) \in Nat /\ Len(log') = n
      /\ DOMAIN log = 1 .. Len(log) /\ DOMAIN log' = 1 .. n
      /\ log'[n] = r /\ \A i \in DOMAIN log : log'[i] = log[i] /\ log[i] \in Runs
  <2>1. log \in Seq(Runs) /\ Len(log) \in Nat /\ DOMAIN log = 1 .. Len(log)
        /\ \A i \in DOMAIN log : log[i] \in Runs
    BY LogFacts DEF IInv
  <2> QED
    BY <1>1, <2>1
<1>5. TypeOK'
  <2>1. pages' \in Trees
    BY <1>1 DEF IInv, TypeOK
  <2> QED
    BY <1>1, <1>2, <1>3, <1>4, <2>1 DEF IInv, TypeOK
<1>6. PublicInv'
  BY <1>2 DEF PublicInv, Active
<1>7. LogInv'
  <2> SUFFICES ASSUME NEW i \in 1 .. n
               PROVE  step'[log'[i]] \in {"attach", "done", "failed"}
    BY <1>4 DEF LogInv
  <2>1. CASE i = n
    BY <1>2, <1>4, <2>1
  <2>2. CASE i # n
    <3>1. i \in DOMAIN log /\ log[i] \in Runs /\ log'[i] = log[i]
      BY <1>4, <2>2
    <3> QED
      BY <1>2, <3>1 DEF IInv, LogInv
  <2> QED
    BY <2>1, <2>2
<1>8. PublishedServed'
  <2>1. KwinOf[tag'[log'[Len(log')]]] \in pages'.kwin
    BY <1>1, <1>3, <1>4
  <2>2. ASSUME NEW i \in 1 .. n
        PROVE  \/ tag[log'[i]] \in pages'.noarch
               \/ \E j \in (i + 1) .. n : ~seeded[log'[j]]
    <3>1. CASE i = n
      BY <1>3, <1>4, <3>1
    <3>2. CASE i # n
      <4>1. i \in DOMAIN log /\ log'[i] = log[i] /\ n \in (i + 1) .. n
        BY <1>4, <3>2
      <4>2. CASE ~seeded[r]
        BY <1>4, <4>1, <4>2
      <4>3. CASE seeded[r]
        <5>1. CASE tag[log[i]] \in pages.noarch
          BY <1>3, <4>1, <4>3, <5>1
        <5>2. CASE \E j \in (i + 1) .. Len(log) : ~seeded[log[j]]
          <6>1. PICK j \in (i + 1) .. Len(log) : ~seeded[log[j]]
            BY <5>2
          <6>2. j \in (i + 1) .. n /\ j \in DOMAIN log
            BY <1>4, <4>1, <6>1
          <6> QED
            BY <1>4, <6>1, <6>2
        <5> QED
          BY <4>1, <5>1, <5>2 DEF IInv, PublishedServed
      <4> QED
        BY <4>2, <4>3
    <3> QED
      BY <3>1, <3>2
  <2> QED
    BY <1>1, <1>4, <2>1, <2>2 DEF PublishedServed
<1> QED
  BY <1>2, <1>5, <1>6, <1>7, <1>8 DEF IInv

\* Every step keeps the invariant.
LEMMA InvStep ==
  ASSUME IInv, [Next]_vars
  PROVE  IInv'
<1>1. CASE CutRelease
  <2>1. tagged < Len(KwinOf) /\ tagged' = tagged + 1 /\ Request(tagged')
    BY <1>1 DEF CutRelease
  <2>2. tagged \in Nat /\ Len(KwinOf) \in Nat
    BY Numbers DEF IInv
  <2>3. tagged' \in Tags /\ tagged' \in 0 .. Len(KwinOf)
    BY <2>1, <2>2 DEF Tags
  <2>4. \A t : t = tagged' => Request(t)
    BY <2>1
  <2>5. PICK t \in Tags : t = tagged'
    BY <2>3
  <2> QED
    BY <2>3, <2>4, <2>5, RequestStep
<1>2. CASE \E t \in Tags : RunByHand(t)
  <2>1. PICK t \in Tags : Request(t) /\ tagged' = tagged
    BY <1>2 DEF RunByHand
  <2>2. tagged' \in 0 .. Len(KwinOf)
    BY <2>1 DEF IInv, TypeOK
  <2> QED
    BY <2>1, <2>2, RequestStep
<1>3. ASSUME NEW r \in Runs, RunStep(r) \/ Fail(r)
      PROVE  IInv'
  BY <1>3, StartStep, AsideStep, FetchStep, MakeRepoStep, PublishStep DEF RunStep
<1>4. CASE UNCHANGED vars
  BY <1>4 DEF vars, IInv, TypeOK, RequestInv, GroupInv, PublicInv, LogInv, PublishedServed
<1> QED
  BY <1>1, <1>2, <1>3, <1>4 DEF Next

\* The invariant holds of every behaviour.
LEMMA Invariance == Spec => []IInv
<1>1. IInv /\ [Next]_vars => IInv'
  BY InvStep
<1> QED
  BY InvInit, <1>1, PTL DEF Spec

\* Every variable keeps its type, and no published tree exceeds the retention.
THEOREM TypeCorrect == Spec => []TypeOK
<1>1. IInv => TypeOK
  BY DEF IInv
<1> QED
  BY Invariance, <1>1, PTL

\* For any releases, runs and retention: the last run that published is
\* served, and so are all noarch packages, as far as fetching worked.
THEOREM StaysPublished == Spec => []PublishedServed
<1>1. IInv => PublishedServed
  BY DEF IInv
<1> QED
  BY Invariance, <1>1, PTL
=============================================================================
