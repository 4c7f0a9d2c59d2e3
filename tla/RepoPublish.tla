----------------------------- MODULE RepoPublish -----------------------------
(***************************************************************************)
(* How a release reaches the dnf repository: runs of release.yml, one per  *)
(* release that release-please.yml cuts or per request by hand, each of    *)
(* which fetches the tree published on gh-pages, adds what it built, prunes *)
(* it (scripts/make-repo.sh) and pushes it back in place of the old one.   *)
(*                                                                         *)
(* A tag is its number, and so are the noarch packages it builds.  The     *)
(* kwin build of a tag has a number of its own: the version of kwin does   *)
(* not move with every release.  A tree is the kwin builds and the noarch  *)
(* packages in it; the four kwin subpackages are always built, signed and  *)
(* pruned together, and createrepo_c describes whatever is there.          *)
(***************************************************************************)
EXTENDS Naturals, Sequences, FiniteSets

CONSTANTS
  KwinOf,   \* the kwin build of each tag
  Keep,     \* make-repo.sh: how many kwin builds are retained
  MaxRuns   \* how many runs are requested (bounds the model)

ASSUME KwinOfAssumption == KwinOf \in Seq(Nat)
ASSUME KeepAssumption == Keep \in Nat
ASSUME MaxRunsAssumption == MaxRuns \in Nat

Tags == 1 .. Len(KwinOf)
Runs == 1 .. MaxRuns

VARIABLES
  tagged,     \* releases cut so far: the tags 1 .. tagged exist
  requested,  \* runs requested so far, numbered in that order
  step,       \* of each run: what it does next, or how it ended
  tag,        \* of each run: the tag it builds
  public,     \* of each run: its directory public/
  seeded,     \* of each run: public/ holds what was published
  pages,      \* the tree on gh-pages
  assets,     \* the RPMs attached to each release
  log         \* history: the runs that published, in that order

runVars  == <<step, tag, public, seeded>>
siteVars == <<pages, assets, log>>
vars == <<tagged, requested, step, tag, public, seeded, pages, assets, log>>

NoTree == [kwin |-> {}, noarch |-> {}]

Active == {"build", "fetch", "assemble", "publish", "attach"}
Ended  == {"done", "failed", "cancelled"}

Init ==
  /\ tagged = 0 /\ requested = 0
  /\ step = [r \in Runs |-> "none"]
  /\ tag = [r \in Runs |-> 0]
  /\ public = [r \in Runs |-> NoTree]
  /\ seeded = [r \in Runs |-> FALSE]
  /\ pages = NoTree
  /\ assets = [t \in Tags |-> NoTree]
  /\ log = <<>>
-----------------------------------------------------------------------------
(***************************************************************************)
(* Requests.  The concurrency group lets one run proceed; of those that    *)
(* wait GitHub keeps the newest and cancels the others.                    *)
(***************************************************************************)

Request(t) ==
  /\ requested < MaxRuns
  /\ requested' = requested + 1
  /\ tag' = [tag EXCEPT ![requested + 1] = t]
  /\ step' = [r \in Runs |-> CASE r = requested + 1 -> "waiting"
                               [] step[r] = "waiting" -> "cancelled"
                               [] OTHER -> step[r]]
  /\ UNCHANGED <<public, seeded, siteVars>>

\* release-please.yml cuts a release and calls release.yml with its tag.
CutRelease ==
  /\ tagged < Len(KwinOf)
  /\ tagged' = tagged + 1
  /\ Request(tagged')

\* workflow_dispatch with an existing tag.
RunByHand(t) ==
  /\ t <= tagged
  /\ Request(t)
  /\ UNCHANGED tagged

\* Mutant: no concurrency group.
StartAtOnce(r) ==
  /\ step[r] = "waiting"
  /\ step' = [step EXCEPT ![r] = "build"]
  /\ UNCHANGED <<tagged, requested, tag, public, seeded, siteVars>>

\* The group is free.
Start(r) ==
  /\ step[r] = "waiting"
  /\ \A other \in Runs : step[other] \notin Active
  /\ step' = [step EXCEPT ![r] = "build"]
  /\ UNCHANGED <<tagged, requested, tag, public, seeded, siteVars>>
-----------------------------------------------------------------------------
(***************************************************************************)
(* The steps of a run.                                                     *)
(***************************************************************************)

Proceed(r, from, to) ==
  /\ step[r] = from
  /\ step' = [step EXCEPT ![r] = to]

BuildRpms(r) ==
  /\ Proceed(r, "build", "fetch")
  /\ UNCHANGED <<tagged, requested, tag, public, seeded, siteVars>>

\* git fetch and git checkout into public/.  Both have "|| true": where they
\* fail the run goes on with an empty directory.
FetchPages(r) ==
  /\ Proceed(r, "fetch", "assemble")
  /\ \E ok \in BOOLEAN :
       /\ seeded' = [seeded EXCEPT ![r] = ok]
       /\ public' = [public EXCEPT ![r] = IF ok THEN pages ELSE NoTree]
  /\ UNCHANGED <<tagged, requested, tag, siteVars>>

\* Mutant: one build too many is kept.
PruneOffByOne(fetched, fresh) ==
  {kept \in SUBSET (fetched \cup {fresh}) :
     /\ fresh \in kept
     /\ IF Cardinality(fetched \cup {fresh}) <= Keep + 1 THEN kept = fetched \cup {fresh}
        ELSE Cardinality(kept) = Keep + 1}

\* The sets of kwin builds that pruning by modification time may leave.  The
\* build of this run has just been copied and is the newest.  The others have
\* the times at which git wrote them in this run, all in one checkout, and in
\* one tick of the clock or in any two: their order is open.
Prune(fetched, fresh) ==
  {kept \in SUBSET (fetched \cup {fresh}) :
     IF Keep = 0 \/ Cardinality(fetched \cup {fresh}) <= Keep THEN kept = fetched \cup {fresh}
     ELSE fresh \in kept /\ Cardinality(kept) = Keep}

\* make-repo.sh: place the RPMs, prune the kwin builds, describe and sign.
MakeRepo(r) ==
  /\ Proceed(r, "assemble", "publish")
  /\ \E kept \in Prune(public[r].kwin, KwinOf[tag[r]]) :
       public' = [public EXCEPT ![r] = [kwin |-> kept, noarch |-> @.noarch \cup {tag[r]}]]
  /\ UNCHANGED <<tagged, requested, tag, seeded, siteVars>>

\* The forced orphan push: gh-pages becomes public/.
Publish(r) ==
  /\ Proceed(r, "publish", "attach")
  /\ pages' = public[r]
  /\ log' = Append(log, r)
  /\ UNCHANGED <<tagged, requested, tag, public, seeded, assets>>

\* gh release upload --clobber of every RPM in public/.
Attach(r) ==
  /\ Proceed(r, "attach", "done")
  /\ assets' = [assets EXCEPT ![tag[r]] =
                  [kwin |-> @.kwin \cup public[r].kwin, noarch |-> @.noarch \cup public[r].noarch]]
  /\ UNCHANGED <<tagged, requested, tag, public, seeded, pages, log>>

\* A step fails, and with it the run.
Fail(r) ==
  /\ step[r] \in Active
  /\ step' = [step EXCEPT ![r] = "failed"]
  /\ UNCHANGED <<tagged, requested, tag, public, seeded, siteVars>>

RunStep(r) ==
  \/ Start(r) \/ BuildRpms(r) \/ FetchPages(r) \/ MakeRepo(r) \/ Publish(r) \/ Attach(r)

Next ==
  \/ CutRelease
  \/ \E t \in Tags : RunByHand(t)
  \/ \E r \in Runs : RunStep(r) \/ Fail(r)

Spec == Init /\ [][Next]_vars
-----------------------------------------------------------------------------
(***************************************************************************)
(* Properties.                                                             *)
(***************************************************************************)

Published == {log[i] : i \in DOMAIN log}
Builds == {KwinOf[t] : t \in Tags}
Trees == [kwin : SUBSET Builds, noarch : SUBSET Tags]

\* Every variable holds a value of its kind; make-repo.sh's retention bounds
\* every published tree.
TypeOK ==
  /\ tagged \in 0 .. Len(KwinOf) /\ requested \in 0 .. MaxRuns
  /\ step \in [Runs -> Active \cup Ended \cup {"none", "waiting"}]
  /\ tag \in [Runs -> Tags \cup {0}]
  /\ public \in [Runs -> Trees] /\ seeded \in [Runs -> BOOLEAN]
  /\ pages \in Trees /\ assets \in [Tags -> Trees]
  /\ log \in Seq(Runs)
  /\ Keep > 0 => Cardinality(pages.kwin) <= Keep

\* The run that published last is served, with its kwin build and its noarch
\* packages; and retention keeps "all noarch": those of every run that ever
\* published stay served, across failed, cancelled and repeated runs, as long
\* as no later run published without having fetched the tree.
PublishedServed ==
  /\ log # <<>> => KwinOf[tag[log[Len(log)]]] \in pages.kwin
  /\ \A i \in DOMAIN log :
       \/ tag[log[i]] \in pages.noarch
       \/ \E j \in (i + 1) .. Len(log) : ~seeded[log[j]]

\* The newest builds are kept: what was published and is served no more is
\* older than everything that still is, by the run that built it last.
LastBuilt(b) ==
  LET at == {i \in DOMAIN log : KwinOf[tag[log[i]]] = b} IN
  CHOOSE i \in at : \A j \in at : j <= i

NewestKept ==
  (\A r \in Published : seeded[r]) =>
    \A b \in {KwinOf[tag[r]] : r \in Published} \ pages.kwin :
      \A k \in pages.kwin : LastBuilt(k) > LastBuilt(b)
=============================================================================
