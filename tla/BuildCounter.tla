---------------------------- MODULE BuildCounter ----------------------------
(***************************************************************************)
(* The build-number allocator of the release pipeline                      *)
(* (.github/scripts/alloc-build-number.sh): jobs of concurrent workflow    *)
(* runs take numbers from the branch build-counter of the remote, with     *)
(* push --force-with-lease as compare-and-set, and retry when it moved.    *)
(*                                                                         *)
(* A step is one exchange with the remote or the local work between two.   *)
(* A fetch may fail, a push may not arrive, its answer may be lost, a job  *)
(* may be cancelled anywhere.  A commit is named by its tree: the branch   *)
(* never holds one tree twice, for its number only grows.                  *)
(***************************************************************************)
EXTENDS Integers

CONSTANTS
    Runs,           \* workflow runs, by GITHUB_RUN_ID
    Jobs,           \* executions of the script: the attempts of all runs
    RunOf,          \* the run of a job, the same for every attempt of a run
    MaxRetries,     \* MAX_RETRIES
    CommitMayFail,  \* TRUE: git write-tree or git commit-tree may fail
    None

ASSUME RunAssumption == RunOf \in [Jobs -> Runs]
ASSUME RetryAssumption == MaxRetries \in Nat \ {0} /\ CommitMayFail \in BOOLEAN

Commits == [number : Nat, runs : [Runs -> Nat]]   \* runs[r] = 0: no file runs/<r>
ASSUME NoneAssumption == None \notin Commits \cup Nat

VARIABLES
    branch,         \* the remote's build-counter; None: absent
    pc, tries,      \* per job: where it is, how many attempts failed
    track,          \* its tracking ref; None: absent
    newcommit,      \* the commit it pushes; None: the empty string
    built,          \* the number it printed; 0: none
    atStart         \* history: the counter at its checkout; None: a fault has hit it

vars == <<branch, pc, tries, track, newcommit, built, atStart>>

Active == {"fetch", "look", "push"}

TypeOK ==
    /\ branch \in Commits \cup {None}
    /\ pc \in [Jobs -> Active \cup {"queued", "done", "failed", "cancelled"}]
    /\ tries \in [Jobs -> 0..(MaxRetries - 1)]
    /\ track \in [Jobs -> Commits \cup {None}]
    /\ newcommit \in [Jobs -> Commits \cup {None}]
    /\ built \in [Jobs -> Nat]
    /\ atStart \in [Jobs -> Nat \cup {None}]

Init ==
    /\ branch = None
    /\ pc = [j \in Jobs |-> "queued"] /\ tries = [j \in Jobs |-> 0]
    /\ track = [j \in Jobs |-> None] /\ newcommit = [j \in Jobs |-> None]
    /\ built = [j \in Jobs |-> 0]
    /\ atStart = [j \in Jobs |-> None]

-----------------------------------------------------------------------------
CurrentNumber(c) == IF c = None THEN 0 ELSE c.number
RunNumber(c, r)  == IF c = None THEN 0 ELSE c.runs[r]

(* The old tree, or an empty one, with number and runs/<r> set.            *)
NewTree(c, r) ==
    [number |-> CurrentNumber(c) + 1,
     runs |-> [q \in Runs |-> IF q = r THEN CurrentNumber(c) + 1 ELSE RunNumber(c, q)]]

Goto(j, p) == pc' = [pc EXCEPT ![j] = p]

(* From here on the retries of j are not measured.                         *)
Disturb(j) == atStart' = [atStart EXCEPT ![j] = None]

(* The job is over, and its clone goes with it.                            *)
Ends(j, p, n) ==
    /\ Goto(j, p) /\ built' = [built EXCEPT ![j] = n]
    /\ tries' = [tries EXCEPT ![j] = 0]
    /\ track' = [track EXCEPT ![j] = None]
    /\ newcommit' = [newcommit EXCEPT ![j] = None]

(* allocate_once has failed.                                               *)
\* Faulty form: the bound is off by one.
Retry_OnceMore(j) ==
    IF tries[j] = MaxRetries
    THEN Ends(j, "failed", 0)
    ELSE /\ Goto(j, "fetch") /\ tries' = [tries EXCEPT ![j] = @ + 1]
         /\ newcommit' = [newcommit EXCEPT ![j] = None]
         /\ UNCHANGED <<track, built>>

Retry(j) ==
    IF tries[j] + 1 = MaxRetries
    THEN Ends(j, "failed", 0)
    ELSE /\ Goto(j, "fetch") /\ tries' = [tries EXCEPT ![j] = @ + 1]
         /\ newcommit' = [newcommit EXCEPT ![j] = None]
         /\ UNCHANGED <<track, built>>

(* The job's checkout brings the branch along (fetch-depth 0) or not.      *)
Checkout(j) ==
    /\ pc[j] = "queued" /\ Goto(j, "fetch")
    /\ \E c \in {None, branch} : track' = [track EXCEPT ![j] = c]
    /\ atStart' = [atStart EXCEPT ![j] = CurrentNumber(branch)]
    /\ UNCHANGED <<branch, tries, newcommit, built>>

(* The refspec has no +: git moves the tracking ref only to a descendant,  *)
(* one that keeps its records.                                             *)
FastForward(c, b) == \A r \in Runs : RunNumber(c, r) \in {0, b.runs[r]}

\* Faulty form: a tracking ref that exists is not fetched again.
Fetch_Once(j) ==
    /\ pc[j] = "fetch" /\ branch # None /\ Goto(j, "look")
    /\ track' = [track EXCEPT ![j] = IF @ = None THEN branch ELSE @]
    /\ UNCHANGED <<branch, tries, newcommit, built, atStart>>

Fetch(j) ==
    /\ pc[j] = "fetch" /\ branch # None /\ FastForward(track[j], branch)
    /\ Goto(j, "look")
    /\ track' = [track EXCEPT ![j] = branch]
    /\ UNCHANGED <<branch, tries, newcommit, built, atStart>>

(* fetch_counter || true: the branch is absent, no descendant, or out of   *)
(* reach, and allocate_once goes on with the tracking ref it has.          *)
FetchFails(j) ==
    /\ pc[j] = "fetch" /\ Goto(j, "look")
    /\ IF branch = None THEN UNCHANGED atStart ELSE Disturb(j)
    /\ UNCHANGED <<branch, tries, track, newcommit, built>>

(* A number recorded for this run is used again.                           *)
Reuse(j) ==
    /\ pc[j] = "look" /\ RunNumber(track[j], RunOf[j]) # 0
    /\ Ends(j, "done", RunNumber(track[j], RunOf[j])) /\ Disturb(j)
    /\ UNCHANGED branch

(* set -e is off in allocate_once (it runs in a command substitution and   *)
(* in the condition of an if): when git cannot write the tree or the       *)
(* commit, $newcommit is empty and the script goes on to push.             *)
CommitResults(j) ==
    {NewTree(track[j], RunOf[j])} \cup (IF CommitMayFail THEN {None} ELSE {})

\* Faulty form: without the look at runs/<run_id>.
Commit_NoLookup(j) ==
    /\ pc[j] = "look" /\ Goto(j, "push")
    /\ \E c \in CommitResults(j) :
          /\ newcommit' = [newcommit EXCEPT ![j] = c]
          /\ atStart' = [atStart EXCEPT ![j] = IF c = None THEN None ELSE @]
    /\ UNCHANGED <<branch, tries, track, built>>

Commit(j) ==
    /\ pc[j] = "look" /\ RunNumber(track[j], RunOf[j]) = 0 /\ Goto(j, "push")
    /\ \E c \in CommitResults(j) :
          /\ newcommit' = [newcommit EXCEPT ![j] = c]
          /\ atStart' = [atStart EXCEPT ![j] = IF c = None THEN None ELSE @]
    /\ UNCHANGED <<branch, tries, track, built>>

(* The remote takes the push when the branch is what the lease names, or   *)
(* when there is neither (a branch that exists is no ancestor of a root    *)
(* commit).  Pushing the empty name deletes the branch, without a lease    *)
(* whatever it is.                                                         *)
\* Faulty form: --force without a lease.
Accepts_Forced(j) == TRUE

Accepts(j) == branch = track[j] \/ (track[j] = None /\ newcommit[j] = None)

Push(j) ==
    /\ pc[j] = "push" /\ Accepts(j)
    /\ branch' = newcommit[j]
    /\ Ends(j, "done", CurrentNumber(track[j]) + 1) /\ Disturb(j)

(* The branch has moved.                                                   *)
PushRejected(j) ==
    /\ pc[j] = "push" /\ ~Accepts(j) /\ Retry(j)
    /\ UNCHANGED <<branch, atStart>>

(* Two attempts of a run that commit in the same second make one and the   *)
(* same commit, and git finds the branch up to date.                       *)
PushUpToDate(j) ==
    /\ pc[j] = "push" /\ newcommit[j] # None /\ branch = newcommit[j]
    /\ Ends(j, "done", CurrentNumber(track[j]) + 1) /\ Disturb(j)
    /\ UNCHANGED branch

(* The push does not reach the remote, or only its answer gets lost.       *)
PushLost(j) ==
    /\ pc[j] = "push" /\ Retry(j) /\ Disturb(j)
    /\ \/ UNCHANGED branch
       \/ Accepts(j) /\ branch' = newcommit[j]

(* The run is cancelled or its runner dies; a re-run is another job.  (Its *)
(* last push may still be on its way: jobs of one run may overlap.)        *)
Cancel(j) ==
    /\ pc[j] \in Active /\ Ends(j, "cancelled", 0) /\ Disturb(j)
    /\ UNCHANGED branch

Ended ==
    /\ \A j \in Jobs : pc[j] \in {"done", "failed", "cancelled"}
    /\ UNCHANGED vars

Next ==
    \/ \E j \in Jobs :
          \/ Checkout(j) \/ Fetch(j) \/ FetchFails(j) \/ Reuse(j) \/ Commit(j)
          \/ Push(j) \/ PushRejected(j) \/ PushUpToDate(j)
          \/ PushLost(j) \/ Cancel(j)
    \/ Ended

Spec == Init /\ [][Next]_vars

-----------------------------------------------------------------------------
(* Two jobs print the same number exactly when they belong to the same     *)
(* run: numbers are unique across workflows, and a re-run gets its number  *)
(* again, whatever was lost or cancelled before it.                        *)
NumberNamesRun ==
    \A i, j \in Jobs :
        pc[i] = "done" /\ pc[j] = "done" => (built[i] = built[j] <=> RunOf[i] = RunOf[j])

(* The branch is a log: once it exists a push adds one to number, records  *)
(* it for one run that had none, and keeps every other record.  No number  *)
(* is skipped, none is given twice, no entry is lost.                      *)
BranchOnlyGrows ==
    [][branch # None =>
          /\ branch' # None /\ branch'.number = branch.number + 1
          /\ \E r \in Runs :
                /\ branch.runs[r] = 0
                /\ branch'.runs = [branch.runs EXCEPT ![r] = branch'.number]]_branch

(* A retry is spent only on a fault or on somebody else's allocation: a    *)
(* job that gives up undisturbed saw the counter move at least MAX_RETRIES *)
(* times while it ran.                                                     *)
RetriesJustified ==
    \A j \in Jobs : pc[j] = "failed" /\ atStart[j] # None
                        => CurrentNumber(branch) - atStart[j] >= MaxRetries

=============================================================================
