------------------------- MODULE BuildCounterProofs -------------------------
(***************************************************************************)
(* Proofs about BuildCounter, for any number of runs, jobs and tries, as   *)
(* long as git can write a commit (CommitMayFail = FALSE; the properties   *)
(* fail without it).                                                       *)
(*                                                                         *)
(* The argument: what a job holds is an older state of the branch, so a    *)
(* push the remote accepts extends the branch by one record for a run      *)
(* that has none, and a push it rejects has seen the number grow.          *)
(***************************************************************************)
EXTENDS BuildCounter, TLAPS

Trees == Commits \cup {None}

(* The records of a commit are numbers up to its own, no two alike.        *)
Wellformed(c) ==
    /\ c # None => CurrentNumber(c) > 0
    /\ \A r \in Runs : RunNumber(c, r) <= CurrentNumber(c)
    /\ \A r, q \in Runs : RunNumber(c, r) = RunNumber(c, q) /\ RunNumber(c, r) # 0 => r = q

(* c is what the branch was when, or before, it became b.                  *)
Older(c, b) ==
    \/ c = b
    \/ /\ CurrentNumber(c) < CurrentNumber(b)
       /\ \A r \in Runs : RunNumber(c, r) # 0 => RunNumber(c, r) = RunNumber(b, r)

(* b is c with the next number recorded for a run that had none.           *)
Extends(c, b) == \E r \in Runs : RunNumber(c, r) = 0 /\ b = NewTree(c, r)

(* What an undisturbed job knows of the counter since its checkout.        *)
Measured(j) ==
    /\ pc[j] = "fetch" => atStart[j] + tries[j] <= CurrentNumber(branch)
    /\ pc[j] \in {"look", "push"} => atStart[j] + tries[j] <= CurrentNumber(track[j])
    /\ pc[j] = "failed" => atStart[j] + MaxRetries <= CurrentNumber(branch)

JobInv(j) ==
    /\ Older(track[j], branch)
    /\ pc[j] = "queued" => tries[j] = 0
    /\ pc[j] = "push" => /\ newcommit[j] = NewTree(track[j], RunOf[j])
                         /\ RunNumber(track[j], RunOf[j]) = 0
    /\ pc[j] = "done" => built[j] # 0 /\ RunNumber(branch, RunOf[j]) = built[j]
    /\ atStart[j] # None => Measured(j)

Inv == TypeOK /\ Wellformed(branch) /\ \A j \in Jobs : JobInv(j)

UnchangedAt(i) ==
    /\ pc'[i] = pc[i] /\ tries'[i] = tries[i] /\ track'[i] = track[i]
    /\ newcommit'[i] = newcommit[i] /\ built'[i] = built[i] /\ atStart'[i] = atStart[i]

-----------------------------------------------------------------------------
(* Commits.                                                                *)

(* current_number and run_number yield natural numbers.                    *)
LEMMA NumbersTyped ==
    ASSUME NEW c \in Trees
    PROVE  /\ CurrentNumber(c) \in Nat
           /\ \A r \in Runs : RunNumber(c, r) \in Nat
  BY NoneAssumption DEF Trees, Commits, CurrentNumber, RunNumber

(* What allocate_once commits: the next number, for its run and as number. *)
LEMMA NewTreeIs ==
    ASSUME NEW c \in Trees, NEW r \in Runs
    PROVE  /\ NewTree(c, r) \in Commits /\ NewTree(c, r) # None
           /\ CurrentNumber(NewTree(c, r)) = CurrentNumber(c) + 1
           /\ \A q \in Runs : RunNumber(NewTree(c, r), q) =
                 IF q = r THEN CurrentNumber(c) + 1 ELSE RunNumber(c, q)
  <1>1. NewTree(c, r) \in Commits
    BY NumbersTyped DEF NewTree, Commits
  <1>2. NewTree(c, r) # None
    BY <1>1, NoneAssumption
  <1> QED
    BY <1>1, <1>2 DEF NewTree, CurrentNumber, RunNumber

(* An allocation keeps the records apart.                                  *)
LEMMA ExtendsWellformed ==
    ASSUME NEW c \in Trees, NEW b \in Trees, Wellformed(c), Extends(c, b)
    PROVE  Wellformed(b)
  <1> PICK r \in Runs : RunNumber(c, r) = 0 /\ b = NewTree(c, r)
    BY DEF Extends
  <1> QED
    BY NewTreeIs, NumbersTyped DEF Wellformed

(* What was older stays older when the branch is extended.                 *)
LEMMA ExtendsOlder ==
    ASSUME NEW c \in Trees, NEW b \in Trees, NEW t \in Trees, Extends(c, b), Older(t, c)
    PROVE  Older(t, b)
  <1> PICK r \in Runs : RunNumber(c, r) = 0 /\ b = NewTree(c, r)
    BY DEF Extends
  <1> QED
    BY NewTreeIs, NumbersTyped DEF Older

(* Nothing, and the branch itself, are older states of the branch.         *)
LEMMA NoneOlder ==
    ASSUME NEW b \in Trees, Wellformed(b)
    PROVE  Older(None, b) /\ Older(b, b)
  BY DEF Older, Wellformed, CurrentNumber, RunNumber

(* The number of an older state is not greater.                            *)
LEMMA OlderNumber ==
    ASSUME NEW c \in Trees, NEW b \in Trees, Older(c, b)
    PROVE  /\ CurrentNumber(c) <= CurrentNumber(b)
           /\ c # b => CurrentNumber(c) < CurrentNumber(b)
           /\ \A r \in Runs : RunNumber(c, r) # 0 => RunNumber(c, r) = RunNumber(b, r)
  BY NumbersTyped DEF Older

-----------------------------------------------------------------------------
(* A step of one job leaves the others' knowledge of the branch true.      *)
LEMMA OthersKeep ==
    ASSUME TypeOK, TypeOK', NEW i \in Jobs, UnchangedAt(i), JobInv(i),
           branch' = branch \/ Extends(branch, branch')
    PROVE  JobInv(i)'
  <1> USE DEF UnchangedAt
  <1>0. branch \in Trees /\ branch' \in Trees /\ track[i] \in Trees /\ RunOf[i] \in Runs
        /\ tries[i] \in Nat /\ MaxRetries \in Nat /\ atStart[i] \in Nat \cup {None}
    BY RunAssumption, RetryAssumption DEF TypeOK, Trees
  <1>1. Older(track[i], branch)'
    BY <1>0, ExtendsOlder DEF JobInv
  <1>2. Older(branch, branch')
    BY <1>0, ExtendsOlder DEF Older
  <1>3. pc[i] = "done" => RunNumber(branch', RunOf[i]) = built[i]
    BY <1>0, <1>2, OlderNumber DEF JobInv
  <1>4. atStart[i] # None => Measured(i)'
    <2> SUFFICES ASSUME atStart[i] # None PROVE Measured(i)'
      OBVIOUS
    <2>1. Measured(i) /\ atStart[i] \in Nat
      BY <1>0 DEF JobInv
    <2>2. CurrentNumber(branch) <= CurrentNumber(branch')
          /\ CurrentNumber(branch) \in Nat /\ CurrentNumber(branch') \in Nat
      BY <1>0, <1>2, OlderNumber, NumbersTyped
    <2> QED
      BY <1>0, <2>1, <2>2 DEF Measured
  <1> QED
    BY <1>1, <1>3, <1>4 DEF JobInv

(* What is to be shown of a step of job j.                                 *)
StepOf(j) ==
    /\ TypeOK'
    /\ branch' = branch \/ Extends(branch, branch')
    /\ JobInv(j)'
    /\ \A i \in Jobs \ {j} : UnchangedAt(i)

(* What the invariant says of one job, in the form the steps use.          *)
LEMMA JobTyped ==
    ASSUME Inv, NEW j \in Jobs
    PROVE  /\ branch \in Trees /\ Wellformed(branch)
           /\ track[j] \in Trees /\ newcommit[j] \in Trees /\ RunOf[j] \in Runs
           /\ tries[j] \in 0..(MaxRetries - 1) /\ MaxRetries \in Nat \ {0}
           /\ atStart[j] \in Nat \cup {None} /\ JobInv(j)
           /\ CurrentNumber(branch) \in Nat /\ CurrentNumber(track[j]) \in Nat
           /\ RunNumber(track[j], RunOf[j]) \in Nat
  <1>1. branch \in Trees /\ track[j] \in Trees /\ RunOf[j] \in Runs
    BY RunAssumption DEF Inv, TypeOK, Trees
  <1> QED
    BY <1>1, NumbersTyped, RetryAssumption DEF Inv, TypeOK, Trees

(* A job that ends otherwise than by giving up.                            *)
LEMMA EndsStep ==
    ASSUME Inv, NEW j \in Jobs, NEW p \in {"done", "cancelled"}, NEW n \in Nat,
           Ends(j, p, n), Disturb(j), branch' \in Trees, Wellformed(branch'),
           branch' = branch \/ Extends(branch, branch'),
           p = "done" => n # 0 /\ RunNumber(branch', RunOf[j]) = n
    PROVE  StepOf(j)
  <1> USE JobTyped DEF Ends, Goto, Disturb
  <1>1. TypeOK'
    BY DEF Inv, TypeOK, Trees
  <1>2. pc'[j] = p /\ track'[j] = None /\ built'[j] = n /\ atStart'[j] = None
    BY DEF Inv, TypeOK
  <1>3. JobInv(j)'
    BY <1>2, NoneOlder DEF JobInv
  <1>4. \A i \in Jobs \ {j} : UnchangedAt(i)
    BY DEF Inv, TypeOK, UnchangedAt
  <1> QED
    BY <1>1, <1>3, <1>4 DEF StepOf

(* A try that failed: after a fault, or because the branch has moved.      *)
LEMMA RetryStep ==
    ASSUME Inv, NEW j \in Jobs, pc[j] = "push", Retry(j),
           branch' \in Trees, Wellformed(branch'),
           branch' = branch \/ Extends(branch, branch'),
           \/ Disturb(j)
           \/ UNCHANGED <<branch, atStart>> /\ branch # track[j]
    PROVE  StepOf(j)
  <1> USE JobTyped
  <1>1. TypeOK'
    BY DEF Inv, TypeOK, Active, Trees, Retry, Ends, Goto, Disturb
  <1>2. \A i \in Jobs \ {j} : UnchangedAt(i)
    BY DEF Inv, TypeOK, Retry, Ends, Goto, Disturb, UnchangedAt
  <1>3. Older(track[j], branch) /\ Older(track[j], branch')
    BY ExtendsOlder DEF JobInv
  <1>4. Older(track[j], branch)'
    BY <1>3, NoneOlder DEF Inv, TypeOK, Retry, Ends
  <1>5. /\ pc'[j] \in {"fetch", "failed"}
        /\ pc'[j] = "fetch" => tries'[j] = tries[j] + 1
        /\ pc'[j] = "failed" => tries[j] + 1 = MaxRetries
    BY DEF Inv, TypeOK, Retry, Ends, Goto
  <1>6. atStart'[j] # None => Measured(j)'
    <2> SUFFICES ASSUME atStart'[j] # None PROVE Measured(j)'
      OBVIOUS
    <2>1. UNCHANGED <<branch, atStart>> /\ branch # track[j]
      BY DEF Disturb, Inv, TypeOK
    <2>2. atStart[j] \in Nat /\ atStart[j] + tries[j] <= CurrentNumber(track[j])
      BY <2>1 DEF JobInv, Measured
    <2>3. CurrentNumber(track[j]) < CurrentNumber(branch)
      BY <2>1, <1>3, OlderNumber
    <2> QED
      BY <1>5, <2>1, <2>2, <2>3 DEF Measured
  <1> QED
    BY <1>1, <1>2, <1>4, <1>5, <1>6 DEF StepOf, JobInv

(* A push that the remote takes extends the branch.                        *)
LEMMA AcceptedExtends ==
    ASSUME Inv, NEW j \in Jobs, pc[j] = "push", Accepts(j), branch' = newcommit[j]
    PROVE  /\ Extends(branch, branch') /\ branch' \in Trees /\ Wellformed(branch')
           /\ branch = track[j] /\ branch' = NewTree(branch, RunOf[j])
  <1>1. newcommit[j] = NewTree(track[j], RunOf[j]) /\ RunNumber(track[j], RunOf[j]) = 0
    BY JobTyped DEF JobInv
  <1>2. branch = track[j]
    BY <1>1, JobTyped, NewTreeIs DEF Accepts
  <1>3. Extends(branch, branch') /\ branch' \in Trees
    BY <1>1, <1>2, JobTyped DEF Extends
  <1> QED
    BY <1>1, <1>2, <1>3, JobTyped, ExtendsWellformed

-----------------------------------------------------------------------------
(* The steps of a job that are neither an end nor a retry.                 *)

(* The number of the branch is on record when a job starts.                *)
LEMMA CheckoutStep ==
    ASSUME Inv, NEW j \in Jobs, Checkout(j)
    PROVE  StepOf(j)
  <1> USE JobTyped DEF Checkout, Goto
  <1>1. TypeOK'
    BY DEF Inv, TypeOK, Active, Trees
  <1>2. /\ pc'[j] = "fetch" /\ track'[j] \in {None, branch} /\ tries'[j] = tries[j]
        /\ atStart'[j] = CurrentNumber(branch) /\ branch' = branch
    BY DEF Inv, TypeOK
  <1>3. tries[j] = 0
    BY DEF JobInv
  <1>4. JobInv(j)'
    BY <1>2, <1>3, NoneOlder DEF JobInv, Measured
  <1>5. \A i \in Jobs \ {j} : UnchangedAt(i)
    BY DEF Inv, TypeOK, UnchangedAt
  <1> QED
    BY <1>1, <1>2, <1>4, <1>5 DEF StepOf

(* After a fetch the job holds the branch, or as before an older state.    *)
LEMMA FetchStep ==
    ASSUME Inv, NEW j \in Jobs, Fetch(j) \/ FetchFails(j)
    PROVE  StepOf(j)
  <1> USE JobTyped DEF Fetch, FetchFails, Goto, Disturb
  <1>1. TypeOK'
    BY DEF Inv, TypeOK, Active, Trees
  <1>2. pc[j] = "fetch" /\ pc'[j] = "look" /\ branch' = branch /\ tries'[j] = tries[j]
    BY DEF Inv, TypeOK
  <1>3. \/ track'[j] = branch /\ atStart'[j] = atStart[j]
        \/ track'[j] = track[j] /\ atStart'[j] = None
        \/ track'[j] = track[j] /\ atStart'[j] = atStart[j] /\ branch = None
    BY DEF Inv, TypeOK
  <1>4. Older(track[j], branch)'
    BY <1>2, <1>3, NoneOlder DEF JobInv
  <1>5. atStart'[j] # None => Measured(j)'
    <2> SUFFICES ASSUME atStart'[j] # None PROVE Measured(j)'
      OBVIOUS
    <2>1. atStart'[j] = atStart[j] /\ (track'[j] = branch \/ branch = None)
      BY <1>3
    <2>2. atStart[j] + tries[j] <= CurrentNumber(branch)
      BY <1>2, <2>1 DEF JobInv, Measured
    <2>3. CurrentNumber(branch) <= CurrentNumber(track'[j])
      BY <1>3, <2>1 DEF CurrentNumber
    <2>4. track'[j] \in Trees
      BY <1>3
    <2> QED
      BY <1>2, <2>1, <2>2, <2>3, <2>4, NumbersTyped DEF Measured
  <1>6. \A i \in Jobs \ {j} : UnchangedAt(i)
    BY DEF Inv, TypeOK, UnchangedAt
  <1> QED
    BY <1>1, <1>2, <1>4, <1>5, <1>6 DEF StepOf, JobInv

(* What a job is to push is one allocation on top of what it holds.        *)
LEMMA CommitStep ==
    ASSUME CommitMayFail = FALSE, Inv, NEW j \in Jobs, Commit(j)
    PROVE  StepOf(j)
  <1> USE JobTyped DEF Commit, Goto
  <1> DEFINE c == NewTree(track[j], RunOf[j])
  <1>1. c \in Commits /\ c # None
    BY NewTreeIs
  <1>2. newcommit' = [newcommit EXCEPT ![j] = c] /\ atStart' = [atStart EXCEPT ![j] = @]
    BY <1>1 DEF CommitResults
  <1> HIDE DEF c
  <1>3. TypeOK'
    BY <1>1, <1>2 DEF Inv, TypeOK, Active, Trees
  <1>4. /\ pc[j] = "look" /\ pc'[j] = "push" /\ newcommit'[j] = c /\ branch' = branch
        /\ track'[j] = track[j] /\ tries'[j] = tries[j] /\ atStart'[j] = atStart[j]
    BY <1>2 DEF Inv, TypeOK
  <1>5. JobInv(j)'
    BY <1>4 DEF JobInv, Measured, c
  <1>6. \A i \in Jobs \ {j} : UnchangedAt(i)
    BY <1>2 DEF Inv, TypeOK, UnchangedAt
  <1> QED
    BY <1>3, <1>4, <1>5, <1>6 DEF StepOf

-----------------------------------------------------------------------------
(* The theorems.                                                           *)

(* Every step of a job keeps what the jobs know of the branch, and changes *)
(* the branch by one allocation at most.                                   *)
LEMMA JobStep ==
    ASSUME CommitMayFail = FALSE, Inv, NEW j \in Jobs,
           \/ Checkout(j) \/ Fetch(j) \/ FetchFails(j) \/ Reuse(j) \/ Commit(j)
           \/ Push(j) \/ PushRejected(j) \/ PushUpToDate(j) \/ PushLost(j) \/ Cancel(j)
    PROVE  StepOf(j)
  <1> USE JobTyped
  <1>1. CASE Checkout(j)
    BY <1>1, CheckoutStep
  <1>2. CASE Fetch(j) \/ FetchFails(j)
    BY <1>2, FetchStep
  <1>3. CASE Reuse(j)
    <2>1. RunNumber(branch, RunOf[j]) = RunNumber(track[j], RunOf[j])
      BY <1>3, OlderNumber DEF Reuse, JobInv
    <2> QED
      BY <1>3, <2>1, EndsStep DEF Reuse
  <1>4. CASE Commit(j)
    BY <1>4, CommitStep
  <1>5. CASE Push(j)
    <2>1. /\ Extends(branch, branch') /\ branch' \in Trees /\ Wellformed(branch')
          /\ branch = track[j] /\ branch' = NewTree(branch, RunOf[j])
      BY <1>5, AcceptedExtends DEF Push
    <2>2. RunNumber(branch', RunOf[j]) = CurrentNumber(track[j]) + 1
      BY <2>1, NewTreeIs
    <2> QED
      BY <1>5, <2>1, <2>2, EndsStep DEF Push
  <1>6. CASE PushRejected(j)
    BY <1>6, RetryStep DEF PushRejected, Accepts
  <1>7. CASE PushUpToDate(j)
    <2>1. branch = NewTree(track[j], RunOf[j])
      BY <1>7 DEF PushUpToDate, JobInv
    <2>2. RunNumber(branch, RunOf[j]) = CurrentNumber(track[j]) + 1
      BY <2>1, NewTreeIs
    <2> QED
      BY <1>7, <2>2, EndsStep DEF PushUpToDate
  <1>8. CASE PushLost(j)
    <2>1. branch' \in Trees /\ Wellformed(branch')
          /\ (branch' = branch \/ Extends(branch, branch'))
      BY <1>8, AcceptedExtends DEF PushLost
    <2> QED
      BY <1>8, <2>1, RetryStep DEF PushLost
  <1>9. CASE Cancel(j)
    BY <1>9, EndsStep DEF Cancel
  <1> QED
    BY <1>1, <1>2, <1>3, <1>4, <1>5, <1>6, <1>7, <1>8, <1>9

(* The invariant is inductive.                                             *)
LEMMA InvStep ==
    ASSUME CommitMayFail = FALSE, Inv, [Next]_vars
    PROVE  Inv' /\ (branch' = branch \/ Extends(branch, branch'))
  <1>1. CASE UNCHANGED vars
    BY <1>1 DEF vars, Inv, TypeOK, JobInv, Measured
  <1>2. CASE Next /\ ~UNCHANGED vars
    <2>1. PICK j \in Jobs : StepOf(j)
      BY <1>2, JobStep DEF Next, Ended
    <2>2. TypeOK' /\ (branch' = branch \/ Extends(branch, branch')) /\ JobInv(j)'
      BY <2>1 DEF StepOf
    <2>3. Wellformed(branch')
      BY <2>2, ExtendsWellformed DEF Inv, TypeOK, Trees
    <2>4. ASSUME NEW i \in Jobs PROVE JobInv(i)'
      BY <2>1, <2>2, OthersKeep DEF StepOf, Inv
    <2> QED
      BY <2>2, <2>3, <2>4 DEF Inv
  <1> QED
    BY <1>1, <1>2

(* The branch does not exist and no job has started.                       *)
LEMMA InvInit == Init => Inv
  BY RunAssumption, RetryAssumption, NoneAssumption
  DEF Init, Inv, TypeOK, Active, JobInv, Older, Wellformed, CurrentNumber, RunNumber

(* The invariant holds in every reachable state.                           *)
LEMMA Invariance ==
    ASSUME CommitMayFail = FALSE
    PROVE  Spec => []Inv
  <1>1. Inv /\ [Next]_vars => Inv'
    BY InvStep
  <1> QED
    BY InvInit, <1>1, PTL DEF Spec

(* Every job stays within its states; no job fails more than MAX_RETRIES   *)
(* times.                                                                  *)
THEOREM TypeCorrect ==
    ASSUME CommitMayFail = FALSE
    PROVE  Spec => []TypeOK
  <1>1. Inv => TypeOK
    BY DEF Inv
  <1> QED
    BY <1>1, Invariance, PTL

(* Numbers are unique across the workflow runs and the same for all        *)
(* attempts of one (alloc-build-number.sh), over lost fetches, pushes and  *)
(* answers and cancelled jobs.                                             *)
THEOREM NumbersUniqueAndStable ==
    ASSUME CommitMayFail = FALSE
    PROVE  Spec => []NumberNamesRun
  <1>1. Inv => NumberNamesRun
    <2> SUFFICES ASSUME Inv, NEW i \in Jobs, NEW j \in Jobs, pc[i] = "done", pc[j] = "done"
                 PROVE  built[i] = built[j] <=> RunOf[i] = RunOf[j]
      BY DEF NumberNamesRun
    <2>1. /\ built[i] # 0 /\ RunNumber(branch, RunOf[i]) = built[i]
          /\ built[j] # 0 /\ RunNumber(branch, RunOf[j]) = built[j]
      BY JobTyped DEF JobInv
    <2> QED
      BY <2>1, JobTyped DEF Wellformed
  <1> QED
    BY <1>1, Invariance, PTL

(* The branch changes by one allocation at a time and forgets nothing.     *)
THEOREM BranchIsALog ==
    ASSUME CommitMayFail = FALSE
    PROVE  Spec => BranchOnlyGrows
  <1>1. Inv /\ [Next]_vars =>
          [branch # None =>
             /\ branch' # None /\ branch'.number = branch.number + 1
             /\ \E r \in Runs :
                   /\ branch.runs[r] = 0
                   /\ branch'.runs = [branch.runs EXCEPT ![r] = branch'.number]]_branch
    <2> SUFFICES ASSUME Inv, [Next]_vars, branch' # branch, branch # None
                 PROVE  /\ branch' # None /\ branch'.number = branch.number + 1
                        /\ \E r \in Runs :
                              /\ branch.runs[r] = 0
                              /\ branch'.runs = [branch.runs EXCEPT ![r] = branch'.number]
      OBVIOUS
    <2>1. PICK r \in Runs : RunNumber(branch, r) = 0 /\ branch' = NewTree(branch, r)
      BY InvStep DEF Extends
    <2>2. branch \in Commits
      BY DEF Inv, TypeOK
    <2>3. branch' # None
      BY <2>1, <2>2, NewTreeIs DEF Trees
    <2>4. branch'.number = branch.number + 1 /\ branch.runs[r] = 0
      BY <2>1, <2>2 DEF NewTree, CurrentNumber, RunNumber
    <2>5. branch'.runs = [branch.runs EXCEPT ![r] = branch'.number]
      BY <2>1, <2>2 DEF NewTree, CurrentNumber, RunNumber, Commits
    <2> QED
      BY <2>3, <2>4, <2>5
  <1> QED
    BY <1>1, Invariance, PTL DEF Spec, BranchOnlyGrows

(* A job that met no fault gives up only after MAX_RETRIES allocations of  *)
(* others.                                                                 *)
THEOREM RetriesEndForCause ==
    ASSUME CommitMayFail = FALSE
    PROVE  Spec => []RetriesJustified
  <1>1. Inv => RetriesJustified
    <2> SUFFICES ASSUME Inv, NEW j \in Jobs, pc[j] = "failed", atStart[j] # None
                 PROVE  CurrentNumber(branch) - atStart[j] >= MaxRetries
      BY DEF RetriesJustified
    <2> QED
      BY JobTyped DEF JobInv, Measured
  <1> QED
    BY <1>1, Invariance, PTL

=============================================================================
