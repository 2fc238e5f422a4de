------------------------------- MODULE GitRefs -------------------------------
(***************************************************************************)
(* The guarded ref operations of the Git worker                            *)
(* (src/git/git-workspace-worker.ts), as far as the interface repository   *)
(* uses them.  The worker runs one operation at a time, so each operation  *)
(* is a guard and a function on the repository.  A commit is its position  *)
(* in the object store, which only grows; NoCommit is an absent ref.       *)
(***************************************************************************)
EXTENDS Integers, Sequences

CONSTANT MaxId  \* bound: revision numbers, and so proposal branches

ASSUME MaxIdAssumption == MaxId \in Nat

NoCommit == 0

Accepted == [kind |-> "accepted", id |-> 0]
LastKnownGood == [kind |-> "last-known-good", id |-> 0]
Authoring == [kind |-> "authoring", id |-> 0]
ProposalBranch(id) == [kind |-> "proposal", id |-> id]

Branches == {Accepted, LastKnownGood, Authoring} \union {ProposalBranch(id) : id \in 1..MaxId}

EmptyRepository == [commits |-> <<>>, refs |-> [branch \in Branches |-> NoCommit]]

Guard(branch, commit) == [branch |-> branch, commit |-> commit]

\* Every guard names the commit its branch is at.
holds(repository, guards) == \A guard \in guards : repository.refs[guard.branch] = guard.commit

\* A checkpoint continues a branch at the commit it is expected at, or starts
\* it at its base, or (neither given) makes the first commit of a repository.
canCheckpoint(repository, branch, expectedCommit, baseCommit, guards) ==
    /\ holds(repository, guards)
    /\ \/ expectedCommit # NoCommit /\ repository.refs[branch] = expectedCommit
       \/ /\ expectedCommit = NoCommit /\ baseCommit # NoCommit
          /\ repository.refs[branch] \in {NoCommit, baseCommit}
       \/ /\ expectedCommit = NoCommit /\ baseCommit = NoCommit
          /\ repository.commits = <<>>

\* The branch is at a new commit with that content.
checkpointed(repository, branch, content) ==
    [commits |-> Append(repository.commits, content),
     refs |-> [repository.refs EXCEPT ![branch] = Len(repository.commits) + 1]]

\* expectedCommit = NoCommit: the branch must not exist.
canMoveRef(repository, branch, expectedCommit, targetCommit, guards) ==
    /\ holds(repository, guards)
    /\ targetCommit \in 1..Len(repository.commits)
    /\ repository.refs[branch] = expectedCommit

\* Mutant: success is reported and the ref is not written.
refMoved_NotWritten(repository, branch, targetCommit) == repository

refMoved(repository, branch, targetCommit) ==
    [repository EXCEPT !.refs[branch] = targetCommit]
==============================================================================
