------------------------- MODULE KwinTrackingProofs -------------------------
(***************************************************************************)
(* Why the watch never proposes what RHEL has not released or EPEL not     *)
(* branched, and why no merge puts main ahead of RHEL or off a pinned      *)
(* commit, for any number of minors, of overlapping runs, of failures and  *)
(* of moves by hand.  A run acts on what it read in its first step, while  *)
(* the world and main move on under it: the invariant says what of that    *)
(* stays true.                                                             *)
(***************************************************************************)
EXTENDS KwinTracking, TLAPS

\* What a run knows: a minor that was out, or none, which was not the one main
\* tracked then; and EPEL's branch for it, once found, stays.
RunInv ==
  \A r \in Runs :
    /\ latest[r] <= released
    /\ step[r] # "idle" => base[r] # 0 /\ base[r] # latest[r]
    /\ step[r] \in {"push", "create", "close"} => latest[r] # 0 /\ latest[r] <= branched

IInv == TypeOK /\ RunInv /\ NeverAhead
-----------------------------------------------------------------------------
\* The steps of a run, and the kinds of state its requests are in.
Steps  == {"idle", "look", "issue", "push", "create", "close"}
States == {"none", "open", "closed"}

\* A run proceeds to a step that claims no more than it knows.
LEMMA ProceedKeeps ==
  ASSUME IInv, NEW r \in Runs, NEW from \in Steps \ {"idle"}, NEW to \in Steps,
         Proceed(r, from, to), UNCHANGED <<released, branched>>,
         to \in {"push", "create", "close"} => latest[r] # 0 /\ latest[r] <= branched
  PROVE  /\ step' \in [Runs -> Steps]
         /\ latest' \in [Runs -> 0 .. LastMinor] /\ base' \in [Runs -> 0 .. LastMinor]
         /\ RunInv'
<1>1. /\ step[r] = from /\ step' \in [Runs -> Steps]
      /\ \A q \in Runs : step'[q] = IF q = r THEN to ELSE step[q]
  BY DEF IInv, TypeOK, Proceed, Steps
<1>2. /\ latest' = latest /\ base' = base
      /\ latest \in [Runs -> 0 .. LastMinor] /\ base \in [Runs -> 0 .. LastMinor]
  BY DEF IInv, TypeOK, Proceed
<1>3. RunInv'
  BY <1>1, <1>2 DEF IInv, RunInv
<1> QED
  BY <1>1, <1>2, <1>3

\* A run ends, and knows nothing any more.
LEMMA EndKeeps ==
  ASSUME IInv, NEW r \in Runs, End(r), UNCHANGED <<released, branched>>
  PROVE  /\ step' \in [Runs -> Steps]
         /\ latest' \in [Runs -> 0 .. LastMinor] /\ base' \in [Runs -> 0 .. LastMinor]
         /\ RunInv'
<1> USE LastMinorAssumption
<1>1. /\ step' \in [Runs -> Steps]
      /\ latest' \in [Runs -> 0 .. LastMinor] /\ base' \in [Runs -> 0 .. LastMinor]
      /\ step'[r] = "idle" /\ latest'[r] = 0
      /\ \A q \in Runs \ {r} :
           step'[q] = step[q] /\ latest'[q] = latest[q] /\ base'[q] = base[q]
  BY DEF IInv, TypeOK, End, Steps
<1>2. released \in Nat
  BY DEF IInv, TypeOK, Minors
<1>3. RunInv'
  BY <1>1, <1>2 DEF IInv, RunInv
<1> QED
  BY <1>1, <1>3

\* The invariant holds at first.
LEMMA InvInit == Init => IInv
<1> SUFFICES ASSUME Init PROVE IInv
  OBVIOUS
<1>1. TypeOK
  BY LastMinorAssumption, MaxFailuresAssumption DEF Init, TypeOK, Minors
<1>2. RunInv /\ NeverAhead
  BY DEF Init, RunInv, NeverAhead
<1> QED
  BY <1>1, <1>2 DEF IInv

\* A run compares: it learns the latest minor, or nothing, and what is tracked.
LEMMA CompareStep ==
  ASSUME IInv, NEW r \in Runs, Compare(r)
  PROVE  IInv'
<1> USE LastMinorAssumption, MaxFailuresAssumption
<1>1. /\ tracked \in Minors /\ released \in Minors
      /\ latest \in [Runs -> 0 .. LastMinor] /\ base \in [Runs -> 0 .. LastMinor]
  BY DEF IInv, TypeOK, Compare
<1>2. PICK found \in {released, 0} :
        /\ latest' = [latest EXCEPT ![r] = found]
        /\ found # tracked
        /\ failures' = failures \/ Fails
  BY <1>1 DEF Compare, Minors
<1>3. /\ step' = [step EXCEPT ![r] = "look"] /\ base' = [base EXCEPT ![r] = tracked]
      /\ UNCHANGED <<released, branched, tracked, pushed, pull, pullBase, issues, stranded>>
  BY DEF Compare, world, forge
<1>4. TypeOK'
  <2>1. latest' \in [Runs -> 0 .. LastMinor] /\ base' \in [Runs -> 0 .. LastMinor]
    BY <1>1, <1>2, <1>3 DEF Minors
  <2>2. failures' \in 0 .. MaxFailures
    BY <1>2 DEF Fails, IInv, TypeOK
  <2> QED
    BY <1>3, <2>1, <2>2 DEF IInv, TypeOK
<1>5. RunInv'
  <2>1. step'[r] = "look" /\ latest'[r] = found /\ base'[r] = tracked
    BY <1>1, <1>2, <1>3 DEF IInv, TypeOK
  <2>2. found <= released /\ tracked # 0
    BY <1>1 DEF Minors
  <2>3. ASSUME NEW q \in Runs, q # r
        PROVE  step'[q] = step[q] /\ latest'[q] = latest[q] /\ base'[q] = base[q]
    BY <1>1, <1>2, <1>3, <2>3 DEF IInv, TypeOK
  <2> QED
    BY <1>2, <1>3, <2>1, <2>2, <2>3 DEF IInv, RunInv
<1>6. NeverAhead'
  BY <1>3 DEF IInv, NeverAhead
<1> QED
  BY <1>4, <1>5, <1>6 DEF IInv

\* A run looks for EPEL's branch.
LEMMA LookStep ==
  ASSUME IInv, NEW r \in Runs, LookForBranch(r)
  PROVE  IInv'
<1>1. PICK to \in {"push", "issue"} :
        /\ Proceed(r, "look", to)
        /\ to = "push" => latest[r] \in 1 .. branched
        /\ failures' = failures \/ Fails
        /\ UNCHANGED <<released, branched, tracked, pushed, pull, pullBase, issues, stranded>>
  BY DEF LookForBranch, world, forge
<1>2. branched \in Nat
  BY LastMinorAssumption DEF IInv, TypeOK, Minors
<1>3. /\ step' \in [Runs -> Steps] /\ RunInv'
      /\ latest' \in [Runs -> 0 .. LastMinor] /\ base' \in [Runs -> 0 .. LastMinor]
  BY <1>1, <1>2, ProceedKeeps DEF Steps
<1>4. failures' \in 0 .. MaxFailures
  BY <1>1, MaxFailuresAssumption DEF Fails, IInv, TypeOK
<1>5. TypeOK' /\ NeverAhead'
  BY <1>1, <1>3, <1>4 DEF IInv, TypeOK, Steps, NeverAhead
<1> QED
  BY <1>3, <1>5 DEF IInv

\* An issue names the minor the run looked for.
LEMMA OpenIssueStep ==
  ASSUME IInv, NEW r \in Runs, OpenIssue(r)
  PROVE  IInv'
<1>1. /\ End(r) /\ issues' = issues \cup {latest[r]}
      /\ UNCHANGED <<released, branched, tracked, pushed, pull, pullBase, stranded, failures>>
  BY DEF OpenIssue, world
<1>2. /\ step' \in [Runs -> Steps] /\ RunInv'
      /\ latest' \in [Runs -> 0 .. LastMinor] /\ base' \in [Runs -> 0 .. LastMinor]
  BY <1>1, EndKeeps
<1>3. latest[r] \in 0 .. released
  BY LastMinorAssumption DEF IInv, TypeOK, RunInv, Minors
<1>4. TypeOK' /\ NeverAhead'
  BY <1>1, <1>2, <1>3 DEF IInv, TypeOK, Steps, NeverAhead
<1> QED
  BY <1>2, <1>4 DEF IInv

\* What a run pushes is a minor that is out and has EPEL's branch.
LEMMA PushStep ==
  ASSUME IInv, NEW r \in Runs, Push(r)
  PROVE  IInv'
<1>1. /\ step[r] = "push" /\ (End(r) \/ Proceed(r, "push", "create"))
      /\ pushed' = pushed \cup {latest[r]}
      /\ UNCHANGED <<released, branched, tracked, pull, pullBase, issues, stranded, failures>>
  BY DEF Push, world
<1>2. latest[r] # 0 /\ latest[r] <= branched /\ latest[r] \in Minors
  BY <1>1, LastMinorAssumption DEF IInv, RunInv, TypeOK, Minors
<1>3. /\ step' \in [Runs -> Steps] /\ RunInv'
      /\ latest' \in [Runs -> 0 .. LastMinor] /\ base' \in [Runs -> 0 .. LastMinor]
  BY <1>1, <1>2, ProceedKeeps, EndKeeps DEF Steps
<1>4. TypeOK' /\ NeverAhead'
  BY <1>1, <1>2, <1>3 DEF IInv, TypeOK, Steps, NeverAhead
<1> QED
  BY <1>3, <1>4 DEF IInv

\* What a run proposes is out and branched, and is another minor than the one
\* its checkout tracked, though the world and main moved on.
LEMMA CreatePullStep ==
  ASSUME IInv, NEW r \in Runs, CreatePull(r)
  PROVE  IInv'
<1> DEFINE m == latest[r]
           b == base[r]
<1>1. /\ Proceed(r, "create", "close") /\ step[r] = "create"
      /\ pull' = [pull EXCEPT ![m] = "open"] /\ pullBase' = [pullBase EXCEPT ![m] = b]
      /\ UNCHANGED <<released, branched, tracked, pushed, issues, stranded, failures>>
  BY DEF CreatePull, world, Proceed
<1>2. /\ m # 0 /\ m <= branched /\ m <= released /\ m \in Minors
      /\ b \in 0 .. LastMinor /\ b # 0 /\ b # m
  BY <1>1, LastMinorAssumption DEF IInv, RunInv, TypeOK, Minors
<1>3. /\ step' \in [Runs -> Steps] /\ RunInv'
      /\ latest' \in [Runs -> 0 .. LastMinor] /\ base' \in [Runs -> 0 .. LastMinor]
  BY <1>1, <1>2, ProceedKeeps DEF Steps
<1> HIDE DEF m, b
<1>4. /\ pull' \in [Minors -> States] /\ pullBase' \in [Minors -> 0 .. LastMinor]
      /\ pull'[m] = "open" /\ pullBase'[m] = b
      /\ \A n \in Minors \ {m} : pull'[n] = pull[n] /\ pullBase'[n] = pullBase[n]
  BY <1>1, <1>2 DEF IInv, TypeOK, States
<1>5. TypeOK'
  BY <1>1, <1>3, <1>4 DEF IInv, TypeOK, Steps, States
<1>6. NeverAhead'
  BY <1>1, <1>2, <1>4 DEF IInv, NeverAhead
<1> QED
  BY <1>3, <1>5, <1>6 DEF IInv

\* The issue is closed at the end of a run.
LEMMA CloseIssueStep ==
  ASSUME IInv, NEW r \in Runs, CloseIssue(r)
  PROVE  IInv'
<1>1. /\ End(r) /\ issues' = issues \ {latest[r]}
      /\ UNCHANGED <<released, branched, tracked, pushed, pull, pullBase, stranded, failures>>
  BY DEF CloseIssue, world
<1>2. /\ step' \in [Runs -> Steps] /\ RunInv'
      /\ latest' \in [Runs -> 0 .. LastMinor] /\ base' \in [Runs -> 0 .. LastMinor]
  BY <1>1, EndKeeps
<1>3. TypeOK' /\ NeverAhead'
  BY <1>1, <1>2 DEF IInv, TypeOK, Steps, NeverAhead
<1> QED
  BY <1>2, <1>3 DEF IInv

\* A run fails; a branch it may leave behind is of a minor.
LEMMA FailStep ==
  ASSUME IInv, NEW r \in Runs, Fail(r)
  PROVE  IInv'
<1>1. /\ End(r) /\ Fails
      /\ stranded' = IF step[r] = "create" THEN stranded \cup {latest[r]} ELSE stranded
      /\ UNCHANGED <<released, branched, tracked, pushed, pull, pullBase, issues>>
  BY DEF Fail, world
<1>2. /\ step' \in [Runs -> Steps] /\ RunInv'
      /\ latest' \in [Runs -> 0 .. LastMinor] /\ base' \in [Runs -> 0 .. LastMinor]
  BY <1>1, EndKeeps
<1>3. step[r] = "create" => latest[r] \in Minors
  BY LastMinorAssumption DEF IInv, RunInv, TypeOK, Minors
<1>4. stranded' \subseteq Minors /\ failures' \in 0 .. MaxFailures
  BY <1>1, <1>3, MaxFailuresAssumption DEF IInv, TypeOK, Fails
<1>5. TypeOK' /\ NeverAhead'
  BY <1>1, <1>2, <1>4 DEF IInv, TypeOK, Steps, NeverAhead
<1> QED
  BY <1>2, <1>5 DEF IInv

\* RHEL and EPEL only move on: what runs and requests know stays true.
LEMMA WorldStep ==
  ASSUME IInv, RhelReleases \/ EpelBranches
  PROVE  IInv'
<1> USE LastMinorAssumption
<1>1. /\ released' \in Minors /\ branched' \in Minors
      /\ released <= released' /\ branched <= branched'
      /\ UNCHANGED <<tracked, step, latest, base, pushed, pull, pullBase, issues, stranded,
                     failures>>
  BY DEF IInv, TypeOK, RhelReleases, EpelBranches, Minors, runVars, forge
<1>2. released \in Nat /\ branched \in Nat /\ released' \in Nat /\ branched' \in Nat
  BY <1>1 DEF IInv, TypeOK, Minors
<1>3. TypeOK'
  <2>1. issues' \subseteq 0 .. released'
    BY <1>1, <1>2 DEF IInv, TypeOK
  <2> QED
    BY <1>1, <2>1 DEF IInv, TypeOK
<1>4. RunInv'
  <2>1. \A r \in Runs : latest[r] \in Nat
    BY DEF IInv, TypeOK
  <2> QED
    BY <1>1, <1>2, <2>1 DEF IInv, RunInv
<1>5. NeverAhead'
  <2>1. \A n \in Minors : n \in Nat
    BY DEF Minors
  <2> QED
    BY <1>1, <1>2, <2>1 DEF IInv, NeverAhead
<1> QED
  BY <1>3, <1>4, <1>5 DEF IInv

\* Requests are merged or rejected.
LEMMA CloseStep ==
  ASSUME IInv, NEW n \in Minors, Merge(n) \/ Reject(n)
  PROVE  IInv'
<1>1. /\ pull' = [pull EXCEPT ![n] = "closed"] /\ pullBase' = [pullBase EXCEPT ![n] = 0]
      /\ tracked' \in {tracked, n} /\ pushed' \in {pushed, pushed \ {n}}
      /\ UNCHANGED <<released, branched, step, latest, base, issues, stranded, failures>>
  BY DEF Merge, Reject, Closes, world, runVars
<1>2. /\ pull' \in [Minors -> States] /\ pullBase' \in [Minors -> 0 .. LastMinor]
      /\ pull'[n] = "closed"
      /\ \A k \in Minors \ {n} : pull'[k] = pull[k] /\ pullBase'[k] = pullBase[k]
  BY <1>1, LastMinorAssumption DEF IInv, TypeOK, States
<1>3. TypeOK'
  BY <1>1, <1>2 DEF IInv, TypeOK, States
<1>4. RunInv' /\ NeverAhead'
  BY <1>1, <1>2 DEF IInv, RunInv, NeverAhead
<1> QED
  BY <1>3, <1>4 DEF IInv

\* Wherever people move main, runs and requests go by what they read before.
LEMMA ByHandStep ==
  ASSUME IInv, ByHand
  PROVE  IInv'
<1>1. /\ tracked' \in Minors \cup {0}
      /\ UNCHANGED <<released, branched, step, latest, base, pushed, pull, pullBase, issues,
                     stranded, failures>>
  BY DEF ByHand, PinCommit, SwitchBranch, world, runVars, forge
<1> QED
  BY <1>1 DEF IInv, TypeOK, RunInv, NeverAhead

\* Every step keeps the invariant.
LEMMA InvStep == IInv /\ [Next]_vars => IInv'
<1> SUFFICES ASSUME IInv, [Next]_vars PROVE IInv'
  OBVIOUS
<1>1. ASSUME NEW r \in Runs, RunStep(r) PROVE IInv'
  BY <1>1, CompareStep, LookStep, OpenIssueStep, PushStep, CreatePullStep, CloseIssueStep
     DEF RunStep
<1>2. ASSUME NEW r \in Runs, Fail(r) PROVE IInv'
  BY <1>2, FailStep
<1>3. CASE RhelReleases \/ EpelBranches
  BY <1>3, WorldStep
<1>4. ASSUME NEW n \in Minors, Merge(n) \/ Reject(n) PROVE IInv'
  BY <1>4, CloseStep
<1>5. CASE ByHand
  BY <1>5, ByHandStep
<1>6. CASE UNCHANGED vars
  BY <1>6 DEF IInv, TypeOK, RunInv, NeverAhead, vars
<1> QED
  BY <1>1, <1>2, <1>3, <1>4, <1>5, <1>6 DEF Next

\* The invariant holds of every behaviour.
LEMMA Invariance == Spec => []IInv
BY InvInit, InvStep, PTL DEF Spec
-----------------------------------------------------------------------------
(***************************************************************************)
(* The theorems.                                                           *)
(***************************************************************************)

\* Runs, requests and issues keep their types; an issue is about a minor that
\* is out, or about none.
THEOREM TypeCorrect == Spec => []TypeOK
<1>1. IInv => TypeOK
  BY DEF IInv
<1> QED
  BY Invariance, <1>1, PTL

\* Whatever overlaps and fails, and wherever people move main meanwhile, a
\* request is for a minor that RHEL has released and EPEL has branched, and was
\* made from a main that tracked another branch, not a commit.
THEOREM NeverAheadOfRhel == Spec => []NeverAhead
<1>1. IInv => NeverAhead
  BY DEF IInv
<1> QED
  BY Invariance, <1>1, PTL

\* Requests are merged in any order and after any time: unless people move it
\* by hand, main goes only to a minor that RHEL has released, and never from a
\* commit they pinned.
THEOREM OnlyPeopleMoveAhead == Spec => MergesStayBehind
<1>1. IInv /\ [Next]_vars =>
        [tracked' # tracked /\ ~ByHand => tracked # 0 /\ tracked' <= released]_vars
  <2> SUFFICES ASSUME IInv, [Next]_vars, tracked' # tracked, ~ByHand
               PROVE  tracked # 0 /\ tracked' <= released
    OBVIOUS
  <2>1. PICK n \in Minors : Merge(n)
    BY DEF Next, RunStep, Compare, LookForBranch, OpenIssue, Push, CreatePull, CloseIssue, Fail,
           RhelReleases, EpelBranches, Reject, vars
  <2>2. pull[n] = "open" /\ tracked = pullBase[n] /\ tracked' = n
    BY <2>1 DEF Merge
  <2> QED
    BY <2>2 DEF IInv, NeverAhead
<1> QED
  BY Invariance, <1>1, PTL DEF Spec, MergesStayBehind
=============================================================================
