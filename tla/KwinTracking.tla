---------------------------- MODULE KwinTracking ----------------------------
(***************************************************************************)
(* How the packaging follows RHEL 10's minor releases: the weekly run of   *)
(* kwin-rhel-minor-watch.yml, which opens a tracking issue while EPEL has  *)
(* no branch for the latest minor and a pull request once it has, and the  *)
(* people who merge, close, and move main by hand with rebase-kwin.sh, to  *)
(* any branch EPEL has or to a commit.  Nothing keeps two runs apart.      *)
(*                                                                         *)
(* A minor is its number; so are EPEL's branch for it, the branch pushed   *)
(* for it, its pull request and its issue.  0 stands for what is no minor: *)
(* the empty string, and a commit in place of a branch.                    *)
(***************************************************************************)
EXTENDS Naturals

CONSTANTS
  LastMinor,    \* minors there will be (bounds the model)
  Runs,         \* runs that may be under way at once (bounds the model)
  MaxFailures   \* failures there will be, of any kind (bounds the model)

ASSUME LastMinorAssumption == LastMinor \in Nat \ {0}
ASSUME MaxFailuresAssumption == MaxFailures \in Nat

Minors == 1 .. LastMinor

VARIABLES
  released,   \* external: RHEL's latest minor
  branched,   \* external: EPEL has branches for the minors up to this one
  tracked,    \* the minor in .gitmodules on main
  step,       \* of each run: what it does next
  latest,     \* of each run under way: steps.rhel.outputs.latest_minor
  base,       \* of each run under way: steps.rhel.outputs.tracked_minor
  pushed,     \* branches rhel-10-N on origin
  pull,       \* of each minor: its pull request
  pullBase,   \* of each open request: what main tracked in the run that made it
  issues,     \* minors named by an open tracking issue
  stranded,   \* history: minors whose branch a run pushed before it failed
  failures

world   == <<released, branched>>
runVars == <<step, latest, base>>
forge   == <<pushed, pull, pullBase, issues, stranded>>
vars == <<released, branched, tracked, step, latest, base, pushed, pull, pullBase, issues,
          stranded, failures>>

Init ==
  /\ released = 1 /\ branched \in Minors /\ tracked = 1
  /\ step = [r \in Runs |-> "idle"]
  /\ latest = [r \in Runs |-> 0] /\ base = [r \in Runs |-> 0]
  /\ pushed = {} /\ issues = {} /\ stranded = {}
  /\ pull = [n \in Minors |-> "none"] /\ pullBase = [n \in Minors |-> 0]
  /\ failures = 0

Proceed(r, from, to) ==
  /\ step[r] = from
  /\ step' = [step EXCEPT ![r] = to]
  /\ UNCHANGED <<latest, base>>

\* A run ends, and its outputs with it.
End(r) ==
  /\ step' = [step EXCEPT ![r] = "idle"]
  /\ latest' = [latest EXCEPT ![r] = 0]
  /\ base' = [base EXCEPT ![r] = 0]

Fails == failures < MaxFailures /\ failures' = failures + 1
-----------------------------------------------------------------------------
\* Mutant: the minor to look for is the one after the tracked one.
CompareNext(r) ==
  /\ step[r] = "idle" /\ tracked # 0
  /\ step' = [step EXCEPT ![r] = "look"]
  /\ latest' = [latest EXCEPT ![r] = tracked + 1]
  /\ base' = [base EXCEPT ![r] = tracked]
  /\ UNCHANGED <<world, tracked, forge, failures>>

\* Mutant: whatever .gitmodules names is taken for a branch epel10.N.
CompareAnything(r) ==
  /\ step[r] = "idle" /\ tracked # released
  /\ step' = [step EXCEPT ![r] = "look"]
  /\ latest' = [latest EXCEPT ![r] = released]
  /\ base' = [base EXCEPT ![r] = tracked]
  /\ UNCHANGED <<world, tracked, forge, failures>>

\* A run checks main out and compares: nothing comes of it if main tracks what
\* is not a branch epel10.N, or the one of RHEL's latest minor; one ahead of
\* RHEL is as good a reason to go on as one behind.  The pipe into jq hides a
\* failing curl, after which the latest minor is the empty string.
Compare(r) ==
  /\ step[r] = "idle" /\ tracked # 0
  /\ \/ tracked # released /\ latest' = [latest EXCEPT ![r] = released] /\ UNCHANGED failures
     \/ latest' = [latest EXCEPT ![r] = 0] /\ Fails
  /\ step' = [step EXCEPT ![r] = "look"]
  /\ base' = [base EXCEPT ![r] = tracked]
  /\ UNCHANGED <<world, tracked, forge>>

\* Mutant: the run takes the newest branch EPEL has.
LookForNewest(r) ==
  /\ step[r] = "look"
  /\ step' = [step EXCEPT ![r] = "push"]
  /\ latest' = [latest EXCEPT ![r] = branched]
  /\ UNCHANGED <<world, tracked, base, forge, failures>>

\* "Does epel10.N exist yet?": git ls-remote that fails says no, too.
LookForBranch(r) ==
  /\ \/ /\ latest[r] \in 1 .. branched
        /\ Proceed(r, "look", "push") /\ UNCHANGED failures
     \/ /\ latest[r] \notin 1 .. branched
        /\ Proceed(r, "look", "issue") /\ UNCHANGED failures
     \/ Proceed(r, "look", "issue") /\ Fails
  /\ UNCHANGED <<world, tracked, forge>>

\* "RHEL moved but EPEL hasn't": an issue, unless one is open.
OpenIssue(r) ==
  /\ step[r] = "issue" /\ End(r)
  /\ issues' = issues \cup {latest[r]}
  /\ UNCHANGED <<world, tracked, pushed, pull, pullBase, stranded, failures>>

\* rebase-kwin.sh on a new branch, the commit, and git push, which is rejected
\* if the branch is there from an earlier run.
Push(r) ==
  /\ step[r] = "push"
  /\ IF latest[r] \in pushed THEN End(r) ELSE Proceed(r, "push", "create")
  /\ pushed' = pushed \cup {latest[r]}
  /\ UNCHANGED <<world, tracked, pull, pullBase, issues, stranded, failures>>

\* Mutant: a request is made only if there is an issue to close with it.
CreatePullForIssue(r) ==
  /\ Proceed(r, "create", "close")
  /\ pull' = [pull EXCEPT ![latest[r]] = IF latest[r] \in issues THEN "open" ELSE @]
  /\ pullBase' = [pullBase EXCEPT ![latest[r]] = base[r]]
  /\ UNCHANGED <<world, tracked, pushed, issues, stranded, failures>>

CreatePull(r) ==
  /\ Proceed(r, "create", "close")
  /\ pull' = [pull EXCEPT ![latest[r]] = "open"]
  /\ pullBase' = [pullBase EXCEPT ![latest[r]] = base[r]]
  /\ UNCHANGED <<world, tracked, pushed, issues, stranded, failures>>

CloseIssue(r) ==
  /\ step[r] = "close" /\ End(r)
  /\ issues' = issues \ {latest[r]}
  /\ UNCHANGED <<world, tracked, pushed, pull, pullBase, stranded, failures>>

\* Any other step fails, rebase-kwin.sh's checks among them, and the run ends.
\* What it did in its own checkout is gone, what it pushed is not.
Fail(r) ==
  /\ step[r] # "idle" /\ End(r)
  /\ stranded' = IF step[r] = "create" THEN stranded \cup {latest[r]} ELSE stranded
  /\ Fails
  /\ UNCHANGED <<world, tracked, pushed, pull, pullBase, issues>>

RunStep(r) ==
  \/ Compare(r) \/ LookForBranch(r) \/ OpenIssue(r)
  \/ Push(r) \/ CreatePull(r) \/ CloseIssue(r)
-----------------------------------------------------------------------------
(***************************************************************************)
(* The world, and the maintainers.                                         *)
(***************************************************************************)

RhelReleases ==
  /\ released < LastMinor /\ released' = released + 1
  /\ UNCHANGED <<branched, tracked, runVars, forge, failures>>

EpelBranches ==
  /\ branched < LastMinor /\ branched' = branched + 1
  /\ UNCHANGED <<released, tracked, runVars, forge, failures>>

\* A request is closed; its branch may be deleted with it.
Closes(n) ==
  /\ pull' = [pull EXCEPT ![n] = "closed"]
  /\ pullBase' = [pullBase EXCEPT ![n] = 0]
  /\ pushed' \in {pushed, pushed \ {n}}

\* Merging: a request made from another state of .gitmodules conflicts, unless
\* main has come to the same state meanwhile.
Merge(n) ==
  /\ pull[n] = "open" /\ tracked \in {pullBase[n], n}
  /\ tracked' = n
  /\ Closes(n)
  /\ UNCHANGED <<world, runVars, issues, stranded, failures>>

Reject(n) ==
  /\ pull[n] = "open"
  /\ Closes(n)
  /\ UNCHANGED <<world, tracked, runVars, issues, stranded, failures>>

\* rebase-kwin.sh with a branch EPEL has, merged: RHEL is not asked.
SwitchBranch(n) ==
  /\ n \in 1 .. branched /\ n # tracked
  /\ tracked' = n
  /\ UNCHANGED <<world, runVars, forge, failures>>

\* With a commit, merged: the commit is entered as the branch.
PinCommit ==
  /\ tracked # 0 /\ tracked' = 0
  /\ UNCHANGED <<world, runVars, forge, failures>>

ByHand == PinCommit \/ \E n \in Minors : SwitchBranch(n)

Next ==
  \/ \E r \in Runs : RunStep(r) \/ Fail(r)
  \/ RhelReleases \/ EpelBranches
  \/ \E n \in Minors : Merge(n) \/ Reject(n)
  \/ ByHand

\* The watch runs every week, and its steps come to an end.
Spec == Init /\ [][Next]_vars /\ \A r \in Runs : WF_vars(RunStep(r))
-----------------------------------------------------------------------------
(***************************************************************************)
(* Properties.                                                             *)
(***************************************************************************)

\* Every variable holds a value of its kind; an issue names a minor that is
\* out, or, after a failed request to endoflife.date, none at all.
TypeOK ==
  /\ released \in Minors /\ branched \in Minors /\ tracked \in Minors \cup {0}
  /\ step \in [Runs -> {"idle", "look", "issue", "push", "create", "close"}]
  /\ latest \in [Runs -> 0 .. LastMinor] /\ base \in [Runs -> 0 .. LastMinor]
  /\ pushed \subseteq Minors
  /\ pull \in [Minors -> {"none", "open", "closed"}]
  /\ pullBase \in [Minors -> 0 .. LastMinor]
  /\ issues \subseteq 0 .. released /\ stranded \subseteq Minors
  /\ failures \in 0 .. MaxFailures

\* A request is only ever made for a minor that RHEL has released and EPEL has
\* branched, and from a main that tracked another branch, never a commit:
\* though EPEL is ahead of RHEL, and main may be, and though runs overlap and
\* act on what they read several steps before.
NeverAhead ==
  \A n \in Minors :
    pull[n] = "open" => n <= released /\ n <= branched /\ pullBase[n] \notin {0, n}

\* Only people put main ahead of RHEL or off a commit they pinned.  Merging,
\* of requests that have waited any time, does neither.
MergesStayBehind ==
  [][tracked' # tracked /\ ~ByHand => tracked # 0 /\ tracked' <= released]_vars

\* RHEL's latest minor, branched by EPEL and not tracked, gets its request, whatever
\* failed before and wherever people moved main; unless RHEL goes on, people
\* move main to it or to a commit, which stops the watch, or a run failed
\* between push and request, after which every push is rejected.
Outdated(n) == released = n /\ branched >= n /\ tracked \notin {0, n}

EventuallyProposed ==
  \A n \in Minors :
    Outdated(n) ~> pull[n] # "none" \/ released > n \/ tracked \in {0, n} \/ n \in stranded

\* What the issue itself says (kwin-rhel-minor-watch.yml:73-74): the check runs
\* again every week, and opens the request once EPEL's branch is there.
IssueLeadsToPull ==
  \A n \in Minors :
    n \in issues /\ Outdated(n) ~> pull[n] # "none" \/ released > n \/ tracked \in {0, n}
=============================================================================
