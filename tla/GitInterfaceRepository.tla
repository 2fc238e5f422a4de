----------------------- MODULE GitInterfaceRepository ------------------------
(***************************************************************************)
(* The ShapingKernel over the repository the product uses: Git refs, an    *)
(* activation receipt in Web Storage, and a recovery marker on a Git ref   *)
(* (src/lib/git-interface-repository.ts).                                  *)
(*                                                                         *)
(* A save is a chain of separate requests to the Git worker.  Each request *)
(* is one action, so the program may stop, a request may fail, the agent   *)
(* may commit to flect/authoring, and enterSafeMode may write its marker,  *)
(* between any two of them.  The kernel's lock is held from the first      *)
(* request to the last.  A status request followed by requests that guard  *)
(* everything it read is one action with the first of them.                *)
(***************************************************************************)
EXTENDS KernelTransitions, GitRefs

CONSTANTS
    SafeStarts,   \* how the program is started: TRUE is the one-shot ?safe=1 launcher
    MaxSequence,  \* bound: sequenced transitions
    MaxCommits,   \* bound: commits in the object store
    MaxStops,     \* bound: times the program stops
    MaxFaults,    \* bound: storage and Git requests that fail
    MaxSource     \* bound: source trees the agent authors

ASSUME SafeStartsAssumption == SafeStarts \subseteq BOOLEAN /\ FALSE \in SafeStarts
ASSUME BoundsAssumption ==
    MaxSequence \in Nat /\ MaxCommits \in Nat /\ MaxStops \in Nat /\ MaxFaults \in Nat /\ MaxSource \in Nat

VARIABLES
    \* durable
    existed,      \* the repository directory exists
    repository,   \* commits and refs
    marker,       \* flect/shared/recovery: absent, pending or clear
    receipt,      \* flect.git-activation.v1
    \* in memory
    phase,        \* off, loading, repairing or on
    kernel, idSequence, receiptRef, existedRef, entering,
    work,         \* the save or initialization in progress
    \* bounds and history
    faults, stops, sources,
    products,     \* documents and source trees that were decided on together
    inDoubt,      \* memory and storage may differ: a save failed, or the load was not plain
    halfSaved,    \* a save was cut short after it had made its commit
    mixed         \* ?safe=1 started the program, or a repair covered what was saved

durable == <<existed, repository, marker, receipt>>
memory == <<phase, kernel, idSequence, receiptRef, existedRef, entering, work>>
history == <<products, inDoubt, halfSaved, mixed>>
vars == <<durable, memory, faults, stops, sources, history>>

------------------------------------------------------------------------------
(* Types *)

Commits == Nat

NoProposal == [revisionId |-> NoId, branch |-> Accepted, commit |-> NoCommit]

ProposalReceipts == [revisionId: Ids, branch: Branches, commit: Commits]

Receipts == [acceptedCommit: Commits, lastKnownGoodCommit: Commits, proposal: ProposalReceipts]

NoReceipt == [acceptedCommit |-> NoCommit, lastKnownGoodCommit |-> NoCommit,
              proposal |-> NoProposal]

Contents == [snapshot: Snapshots, source: 0..MaxSource]

Steps == {"idle", "init", "init-lkg", "init-receipt",
          "repair", "repair-lkg", "repair-authoring", "repair-receipt",
          "status", "checkpoint", "move-lkg", "move-authoring", "write-receipt",
          "clear", "write-clear", "clear-refused", "done"}

\* How far enterSafeMode has come with its marker, which it writes outside the lock.
Entering == {"idle", "marking", "mark-refused", "marked", "unmarked"}

Operations == {"none", "plain", "restore", "enter", "recover", "reconcile"}

Idle(state) ==
    [step |-> "idle", operation |-> "none", next |-> state, authoring |-> NoCommit,
     commit |-> NoCommit]

TypeOK ==
    /\ existed \in BOOLEAN
    /\ repository.commits \in Seq(Contents)
    /\ repository.refs \in [Branches -> 0..Len(repository.commits)]
    /\ marker \in {"absent", "pending", "clear"}
    /\ receipt \in Receipts /\ receiptRef \in Receipts
    /\ phase \in {"off", "loading", "repairing", "on"}
    /\ kernel \in KernelStates
    /\ idSequence \in Nat
    /\ existedRef \in BOOLEAN
    /\ entering \in Entering
    /\ work.step \in Steps /\ work.operation \in Operations /\ work.next \in KernelStates
    /\ work.authoring \in Commits /\ work.commit \in Commits
    /\ faults \in 0..MaxFaults /\ stops \in 0..MaxStops /\ sources \in 0..MaxSource
    /\ products \subseteq Documents \X (0..MaxSource)
    /\ {inDoubt, halfSaved, mixed} \subseteq BOOLEAN

------------------------------------------------------------------------------
(* Snapshots that are stored *)

initialBuiltInSnapshot ==
    [active |-> InitialRevision, lastKnownGood |-> InitialRevision, proposal |-> NoRevision,
     safeMode |-> FALSE, disabledExtensions |-> {}, lastEvent |-> InitialEvent]

safeRecoverySnapshot(snapshot) ==
    [active |-> snapshot.active, lastKnownGood |-> snapshot.active, proposal |-> NoRevision,
     safeMode |-> TRUE, disabledExtensions |-> snapshot.disabledExtensions,
     lastEvent |-> [sequence |-> snapshot.lastEvent.sequence + 1, type |-> "safe-mode-entered",
                    revisionId |-> snapshot.active.id, extensionId |-> NoExtension]]

baseSnapshotFor(snapshot) ==
    IF snapshot.active.id = BuiltInId THEN initialBuiltInSnapshot ELSE snapshot

refs == repository.refs

contentAt(commit) == repository.commits[commit]

------------------------------------------------------------------------------
(* load *)

readable(branch, commit, guards) ==
    /\ refs[branch] = commit
    /\ holds(repository, guards)
    /\ commit # NoCommit
    /\ validateShapingSnapshot(contentAt(commit).snapshot)

Outcome(snapshot, recovered, stored, remembered) ==
    [snapshot |-> snapshot, recovered |-> recovered, recovery |-> marker = "pending",
     receipt |-> stored, receiptRef |-> remembered]

\* Nothing could be read: the load reports recovery and knows no receipt.
unknown == Outcome(NoSnapshot, TRUE, receipt, NoReceipt)

\* The receipt is rebuilt from the refs, the state from flect/last-known-good.
recoverActivation ==
    LET rebuilt == [acceptedCommit |-> refs[Accepted],
                    lastKnownGoodCommit |-> refs[LastKnownGood],
                    proposal |-> NoProposal]
    IN  IF /\ refs[Accepted] # NoCommit
           /\ readable(LastKnownGood, refs[LastKnownGood], {})
        THEN Outcome(safeRecoverySnapshot(contentAt(refs[LastKnownGood]).snapshot), TRUE,
                     rebuilt, rebuilt)
        ELSE unknown

\* Mutant: the candidate the receipt names is not followed.
activation_IgnoresProposal ==
    LET protected == {Guard(LastKnownGood, receipt.lastKnownGoodCommit)}
        snapshot == contentAt(receipt.acceptedCommit).snapshot
    IN  IF /\ receipt # NoReceipt
           /\ readable(Accepted, receipt.acceptedCommit, protected)
           /\ snapshot.proposal.id = receipt.proposal.revisionId
        THEN {snapshot}
        ELSE {}

\* The snapshot the receipt points to, when every ref is where the receipt says.
activation ==
    LET protected == {Guard(Accepted, receipt.acceptedCommit),
                      Guard(LastKnownGood, receipt.lastKnownGoodCommit)}
        pending == receipt.proposal # NoProposal
        branch == IF pending THEN receipt.proposal.branch ELSE Accepted
        commit == IF pending THEN receipt.proposal.commit ELSE receipt.acceptedCommit
    IN  IF /\ receipt # NoReceipt
           /\ readable(branch, commit, protected)
           /\ contentAt(commit).snapshot.proposal.id = receipt.proposal.revisionId
        THEN {contentAt(commit).snapshot}
        ELSE {}

\* What load returns for an existing repository, without failures.
load(safeMode) ==
    LET activated == activation
        snapshot == CHOOSE s \in activated : TRUE
        safe == safeMode /\ ~snapshot.safeMode
    IN  IF activated = {}
        THEN recoverActivation
        ELSE Outcome(IF safe THEN safeRecoverySnapshot(snapshot) ELSE snapshot, safeMode,
                     receipt, receipt)

\* A marker that cannot be read counts as pending.
unreadMarker == [load(FALSE) EXCEPT !.recovery = TRUE]

------------------------------------------------------------------------------
Init ==
    /\ existed = FALSE
    /\ repository = EmptyRepository
    /\ marker = "absent"
    /\ receipt = NoReceipt
    /\ phase = "off"
    /\ kernel = initialState([snapshot |-> NoSnapshot, recovered |-> FALSE, recovery |-> FALSE])
    /\ idSequence = 0
    /\ receiptRef = NoReceipt
    /\ existedRef = FALSE
    /\ entering = "idle"
    /\ work = Idle(kernel)
    /\ faults = 0
    /\ stops = 0
    /\ sources = 0
    /\ products = {<<BuiltIn, 0>>}
    /\ inDoubt = FALSE
    /\ halfSaved = FALSE
    /\ mixed = FALSE

Fails == faults < MaxFaults /\ faults' = faults + 1

\* The kernel starts from what load returned; a pending proposal is saved again.
Start(loaded) ==
    LET state == initialState(loaded)
        reconciled == reconciledState(state)
    IN  /\ kernel' = reconciled
        /\ idSequence' = reconciled.sequence
        /\ receipt' = loaded.receipt
        /\ receiptRef' = loaded.receiptRef
        /\ phase' = IF isPending(state) THEN "repairing" ELSE "on"
        /\ work' = IF isPending(state)
                   THEN [Idle(reconciled) EXCEPT !.step = "status", !.operation = "reconcile"]
                   ELSE Idle(reconciled)

\* A new repository is opened and initialized before anything is shown.
loadNew ==
    /\ phase = "off" /\ ~existed
    /\ existed' = TRUE /\ existedRef' = FALSE
    /\ phase' = "loading"
    /\ work' = [Idle(kernel) EXCEPT !.step = "init"]
    /\ UNCHANGED <<repository, marker, receipt, kernel, idSequence, receiptRef, entering,
                   faults, stops, sources, history>>

\* An existing repository, started normally or as the one-shot ?safe=1 launcher.
loadExisting(safeMode) ==
    /\ phase = "off" /\ existed
    /\ existedRef' = TRUE
    /\ Start(load(safeMode))
    /\ mixed' = (mixed \/ safeMode)
    /\ inDoubt' = (safeMode \/ load(safeMode).recovered)
    /\ UNCHANGED <<existed, repository, marker, entering, faults, stops, sources, products, halfSaved>>

\* A request of the load fails: the stored snapshot, or the whole repository,
\* cannot be read.
loadFails(outcome) ==
    /\ phase = "off" /\ existed
    /\ Fails
    /\ existedRef' = TRUE
    /\ Start(outcome)
    /\ inDoubt' = TRUE
    /\ UNCHANGED <<existed, repository, marker, entering, stops, sources, products, mixed, halfSaved>>

\* The program stops, wherever it is.
stop ==
    /\ phase # "off" /\ stops < MaxStops
    /\ stops' = stops + 1
    /\ phase' = "off"
    /\ kernel' = initialState([snapshot |-> NoSnapshot, recovered |-> FALSE, recovery |-> FALSE])
    /\ idSequence' = 0
    /\ receiptRef' = NoReceipt
    /\ existedRef' = FALSE
    /\ entering' = "idle"
    /\ work' = Idle(kernel')
    /\ halfSaved' = (halfSaved \/ work.commit # NoCommit)
    /\ UNCHANGED <<durable, faults, sources, products, mixed, inDoubt>>

------------------------------------------------------------------------------
(* The chain of requests *)

At(step) == work.step = step /\ phase # "off"

\* The save is over: memory and storage agree unless it failed, or wrote nothing
\* and they did not agree before.  Recovery transitions and the reconciliation of a start
\* show their state whatever the save did; the others only when it succeeded.
FinishedWith(ok, marking) ==
    LET next == IF ok \/ work.operation \in {"enter", "recover", "reconcile"}
                THEN work.next ELSE kernel
    IN  /\ kernel' = next
        /\ work' = Idle(next)
        /\ phase' = "on"
        /\ inDoubt' = (~ok \/ (inDoubt /\ work.commit = NoCommit))
        /\ halfSaved' = (halfSaved \/ (~ok /\ work.commit # NoCommit))
        /\ entering' = IF work.operation = "enter" THEN "idle" ELSE marking
        /\ UNCHANGED <<idSequence, existedRef>>

Finished(ok) == FinishedWith(ok, entering)

\* A failed initialization during load leaves the built-in interface in safe mode.
LoadedNothing == Start([unknown EXCEPT !.recovery = FALSE]) /\ UNCHANGED receipt

\* The request of this step is not made good: it failed, or its guards refused it.
GivesUp ==
    /\ IF phase = "loading"
       THEN /\ LoadedNothing
            /\ inDoubt' = TRUE
            /\ UNCHANGED <<existedRef, entering, halfSaved>>
       ELSE Finished(FALSE) /\ UNCHANGED <<receipt, receiptRef>>
    /\ UNCHANGED <<existed, repository, marker, stops, sources, products, mixed>>

Continues == UNCHANGED <<phase, kernel, idSequence, existedRef, entering, stops, sources,
                         inDoubt, halfSaved, existed>>

\* One request: it is refused by its guards, fails, or has the effect given.
Request(allowed, Effect) ==
    \/ ~allowed /\ GivesUp /\ UNCHANGED faults
    \/ Fails /\ GivesUp
    \/ allowed /\ Effect /\ UNCHANGED faults

Checkpoint(branch, content, step) ==
    /\ repository' = checkpointed(repository, branch, content)
    /\ work' = [work EXCEPT !.step = step, !.commit = Len(repository'.commits)]

\* The step after the repository is known to be initialized.
FirstStep(next) ==
    IF next.proposal = NoRevision /\ next.safeMode /\ next.lastEvent.type = "safe-mode-entered"
    THEN "done" ELSE "status"

AfterSave(next) == IF next.safeMode THEN "done" ELSE "clear"

base == baseSnapshotFor(snapshotFromState(work.next))

\* initialize: the first commit of the repository ...
initCheckpoint ==
    /\ At("init")
    /\ Request(canCheckpoint(repository, Accepted, NoCommit, NoCommit, {}),
               /\ Checkpoint(Accepted,
                             [snapshot |-> IF phase = "loading" THEN initialBuiltInSnapshot ELSE base,
                              source |-> 0], "init-lkg")
               /\ Continues /\ UNCHANGED <<marker, receipt, receiptRef, products, mixed>>)

\* ... or the worker stops after the commit and before the branch is made.
initTorn ==
    /\ At("init")
    /\ Fails
    /\ repository.commits = <<>>
    /\ repository' = [repository EXCEPT !.commits =
                         <<[snapshot |-> initialBuiltInSnapshot, source |-> 0]>>]
    /\ IF phase = "loading"
       THEN /\ LoadedNothing
            /\ inDoubt' = TRUE
            /\ UNCHANGED <<existedRef, entering, halfSaved>>
       ELSE Finished(FALSE) /\ UNCHANGED <<receipt, receiptRef>>
    /\ UNCHANGED <<existed, marker, stops, sources, products, mixed>>

initMoveLastKnownGood ==
    /\ At("init-lkg")
    /\ Request(canMoveRef(repository, LastKnownGood, NoCommit, work.commit,
                          {Guard(Accepted, work.commit)}),
               /\ repository' = refMoved(repository, LastKnownGood, work.commit)
               /\ work' = [work EXCEPT !.step = "init-receipt"]
               /\ Continues /\ UNCHANGED <<marker, receipt, receiptRef, products, mixed>>)

\* persistReceipt, and then the kernel starts or the save goes on.
initReceipt(safeMode) ==
    LET initial == [acceptedCommit |-> work.commit, lastKnownGoodCommit |-> work.commit,
                    proposal |-> NoProposal]
    IN  /\ At("init-receipt")
        /\ IF phase = "loading"
           THEN Request(TRUE,
                   /\ Start(Outcome(IF safeMode THEN safeRecoverySnapshot(initialBuiltInSnapshot)
                                                ELSE initialBuiltInSnapshot,
                                    safeMode, initial, initial))
                   /\ inDoubt' = safeMode
                   /\ UNCHANGED <<existed, repository, marker, existedRef, entering, stops, sources,
                                  products, mixed, halfSaved>>)
           ELSE /\ ~safeMode
                /\ Request(TRUE,
                      /\ receipt' = initial /\ receiptRef' = initial
                      /\ work' = [work EXCEPT !.step = FirstStep(work.next)]
                      /\ Continues /\ UNCHANGED <<repository, marker, products, mixed>>)

\* save without a receipt: an existing accepted ref is realigned to the base
\* snapshot, and so is flect/last-known-good; otherwise initialize.
repair ==
    /\ At("repair")
    /\ IF existedRef /\ refs[Accepted] # NoCommit
       THEN Request(TRUE,
               /\ repository' = checkpointed(repository, Accepted,
                     [snapshot |-> base, source |-> contentAt(refs[Accepted]).source])
               /\ work' = [work EXCEPT !.step = "repair-lkg",
                                       !.commit = Len(repository'.commits),
                                       !.authoring = refs[Authoring]]
               /\ mixed' = (mixed \/ contentAt(refs[Accepted]).snapshot # initialBuiltInSnapshot)
               /\ Continues /\ UNCHANGED <<marker, receipt, receiptRef, products>>)
       ELSE /\ work' = [work EXCEPT !.step = "init"]
            /\ Continues
            /\ UNCHANGED <<repository, marker, receipt, receiptRef, faults, products, mixed>>

repairLastKnownGood ==
    /\ At("repair-lkg")
    /\ Request(canMoveRef(repository, LastKnownGood, refs[LastKnownGood], work.commit,
                          {Guard(Accepted, work.commit)}),
               /\ repository' = refMoved(repository, LastKnownGood, work.commit)
               /\ work' = [work EXCEPT !.step = IF work.authoring = NoCommit THEN "repair-receipt"
                                                                            ELSE "repair-authoring"]
               /\ Continues /\ UNCHANGED <<marker, receipt, receiptRef, products, mixed>>)

repairAuthoring ==
    /\ At("repair-authoring")
    /\ Request(canMoveRef(repository, Authoring, work.authoring, work.commit,
                          {Guard(Accepted, work.commit), Guard(LastKnownGood, work.commit)}),
               /\ repository' = refMoved(repository, Authoring, work.commit)
               /\ work' = [work EXCEPT !.step = "repair-receipt"]
               /\ Continues /\ UNCHANGED <<marker, receipt, receiptRef, products, mixed>>)

\* The repair returns without saving the snapshot itself.
repairReceipt ==
    LET repaired == [acceptedCommit |-> work.commit, lastKnownGoodCommit |-> work.commit,
                     proposal |-> NoProposal]
    IN  /\ At("repair-receipt")
        /\ Request(TRUE,
              /\ receipt' = repaired /\ receiptRef' = repaired
              /\ work' = [work EXCEPT !.step = AfterSave(work.next)]
              /\ Continues /\ UNCHANGED <<repository, marker, products, mixed>>)

\* The status of the repository: where flect/authoring is.
readStatus ==
    /\ At("status")
    /\ Request(TRUE,
          /\ work' = [work EXCEPT !.step = "checkpoint", !.authoring = refs[Authoring]]
          /\ Continues /\ UNCHANGED <<repository, marker, receipt, receiptRef, products, mixed>>)

AuthoringGuard == IF work.authoring = NoCommit THEN {} ELSE {Guard(Authoring, work.authoring)}

\* A candidate: its branch starts at the accepted commit or continues, and
\* carries the source tree that is being authored.
checkpointProposal ==
    LET proposal == work.next.proposal
        existing == receiptRef.proposal
        branch == IF existing = NoProposal THEN ProposalBranch(proposal.id) ELSE existing.branch
        guards == {Guard(Accepted, receiptRef.acceptedCommit),
                   Guard(LastKnownGood, receiptRef.lastKnownGoodCommit)} \union AuthoringGuard
        from == IF work.authoring # NoCommit THEN work.authoring
                ELSE IF existing = NoProposal THEN receiptRef.acceptedCommit ELSE existing.commit
    IN  /\ At("checkpoint")
        /\ proposal # NoRevision
        /\ Request(canCheckpoint(repository, branch, existing.commit,
                                 IF existing = NoProposal THEN receiptRef.acceptedCommit ELSE NoCommit,
                                 guards),
              /\ Checkpoint(branch, [snapshot |-> snapshotFromState(work.next),
                                     source |-> contentAt(from).source], "write-receipt")
              /\ Continues /\ UNCHANGED <<marker, receipt, receiptRef, products, mixed>>)

\* The worker makes a new branch before the commit: a failure in between leaves it
\* at its base.
proposalTorn ==
    LET branch == ProposalBranch(work.next.proposal.id)
    IN  /\ At("checkpoint")
        /\ work.next.proposal # NoRevision /\ receiptRef.proposal = NoProposal
        /\ refs[Accepted] = receiptRef.acceptedCommit /\ refs[branch] = NoCommit
        /\ Fails
        /\ repository' = refMoved(repository, branch, receiptRef.acceptedCommit)
        /\ Finished(FALSE)
        /\ UNCHANGED <<existed, marker, receipt, receiptRef, stops, sources, products, mixed>>

\* Mutant: a rollback restores the document and keeps the source tree.
sourceRef_RollbackKeepsSource ==
    IF work.next.lastEvent.type # "revision-accepted" THEN {}
    ELSE IF receiptRef.proposal = NoProposal THEN AuthoringGuard
    ELSE {Guard(receiptRef.proposal.branch, receiptRef.proposal.commit)}

\* Where the source tree of the next accepted commit comes from.
sourceRef ==
    CASE work.next.lastEvent.type = "revision-accepted" ->
            IF receiptRef.proposal # NoProposal
            THEN {Guard(receiptRef.proposal.branch, receiptRef.proposal.commit)}
            ELSE AuthoringGuard
      [] work.next.lastEvent.type = "revision-rolled-back" ->
            {Guard(LastKnownGood, receiptRef.lastKnownGoodCommit)}
      [] OTHER -> {}

\* Everything that is not a candidate is a commit on flect/accepted.
checkpointAccepted ==
    LET guards == {Guard(LastKnownGood, receiptRef.lastKnownGoodCommit)} \union sourceRef
        from == IF sourceRef = {} THEN receiptRef.acceptedCommit
                ELSE (CHOOSE guard \in sourceRef : TRUE).commit
        source == contentAt(from).source
        candidate == receiptRef.proposal.commit
        decided == IF candidate = NoCommit THEN source ELSE contentAt(candidate).source
    IN  /\ At("checkpoint")
        /\ work.next.proposal = NoRevision
        /\ Request(canCheckpoint(repository, Accepted, receiptRef.acceptedCommit, NoCommit, guards),
              /\ Checkpoint(Accepted, [snapshot |-> snapshotFromState(work.next),
                                       source |-> source], "move-lkg")
              /\ products' = IF work.next.lastEvent.type = "revision-accepted"
                             THEN products \union {<<work.next.active.document, decided>>}
                             ELSE products
              /\ Continues /\ UNCHANGED <<marker, receipt, receiptRef, mixed>>)

nextLastKnownGood ==
    CASE work.next.lastEvent.type = "revision-accepted" -> receiptRef.acceptedCommit
      [] work.next.lastEvent.type = "revision-rolled-back" -> work.commit
      [] OTHER -> receiptRef.lastKnownGoodCommit

moveLastKnownGood ==
    /\ At("move-lkg")
    /\ Request(canMoveRef(repository, LastKnownGood, receiptRef.lastKnownGoodCommit,
                          nextLastKnownGood, {Guard(Accepted, work.commit)}),
          /\ repository' = refMoved(repository, LastKnownGood, nextLastKnownGood)
          /\ work' = [work EXCEPT !.step = IF work.authoring = NoCommit THEN "write-receipt"
                                                                       ELSE "move-authoring"]
          /\ Continues /\ UNCHANGED <<marker, receipt, receiptRef, products, mixed>>)

moveAuthoring ==
    /\ At("move-authoring")
    /\ Request(canMoveRef(repository, Authoring, work.authoring, work.commit,
                          {Guard(Accepted, work.commit), Guard(LastKnownGood, nextLastKnownGood)}),
          /\ repository' = refMoved(repository, Authoring, work.commit)
          /\ work' = [work EXCEPT !.step = "write-receipt"]
          /\ Continues /\ UNCHANGED <<marker, receipt, receiptRef, products, mixed>>)

\* persistReceipt: the activation is recorded, in storage and then in memory.
writeReceipt ==
    LET proposal == work.next.proposal
        branch == IF receiptRef.proposal = NoProposal THEN ProposalBranch(proposal.id)
                                                      ELSE receiptRef.proposal.branch
        activated ==
            IF proposal # NoRevision
            THEN [receiptRef EXCEPT !.proposal = [revisionId |-> proposal.id, branch |-> branch,
                                                  commit |-> work.commit]]
            ELSE [acceptedCommit |-> work.commit, lastKnownGoodCommit |-> nextLastKnownGood,
                  proposal |-> NoProposal]
    IN  /\ At("write-receipt")
        /\ Request(TRUE,
              /\ receipt' = activated /\ receiptRef' = activated
              /\ work' = [work EXCEPT !.step = AfterSave(work.next)]
              /\ Continues /\ UNCHANGED <<repository, marker, products, mixed>>)

\* clearRecovery: the ref of the marker is read, and a marker that exists is
\* overwritten, unless enterSafeMode has written it in between.
clearRecovery ==
    /\ At("clear")
    /\ Request(TRUE,
          IF marker = "absent"
          THEN /\ Finished(TRUE)
               /\ UNCHANGED <<durable, receiptRef, stops, sources, products, mixed>>
          ELSE /\ work' = [work EXCEPT !.step = "write-clear"]
               /\ Continues /\ UNCHANGED <<repository, marker, receipt, receiptRef, products, mixed>>)

writeClear ==
    /\ work.step \in {"write-clear", "clear-refused"} /\ phase # "off"
    /\ Request(work.step = "write-clear",
          /\ marker' = "clear"
          /\ FinishedWith(TRUE, IF entering = "marking" THEN "mark-refused" ELSE entering)
          /\ UNCHANGED <<existed, repository, receipt, receiptRef, stops, sources, products, mixed>>)

saveDone ==
    /\ At("done")
    /\ Finished(TRUE)
    /\ UNCHANGED <<durable, receiptRef, faults, stops, sources, products, mixed>>

Save ==
    \/ initCheckpoint \/ initTorn \/ initMoveLastKnownGood \/ \E safeMode \in SafeStarts : initReceipt(safeMode)
    \/ repair \/ repairLastKnownGood \/ repairAuthoring \/ repairReceipt
    \/ readStatus \/ checkpointProposal \/ proposalTorn \/ checkpointAccepted
    \/ moveLastKnownGood \/ moveAuthoring \/ writeReceipt
    \/ clearRecovery \/ writeClear \/ saveDone

------------------------------------------------------------------------------
(* The kernel operations that ask for a save *)

HasRoom == Len(repository.commits) + 2 <= MaxCommits

\* The kernel's lock is free, and the bounds leave room for one more save.
Ready == phase = "on" /\ work.step = "idle" /\ kernel.sequence < MaxSequence /\ HasRoom

Begin(operation, next) ==
    /\ work' = [Idle(next) EXCEPT !.operation = operation,
                  !.step = IF receiptRef = NoReceipt THEN "repair" ELSE FirstStep(next)]
    /\ UNCHANGED <<durable, phase, kernel, receiptRef, existedRef, entering, faults, stops, sources>>

nextId == idSequence + 1

TakeId == idSequence < MaxId /\ idSequence' = nextId

propose(document) ==
    /\ Ready /\ canPropose(kernel) /\ TakeId
    /\ Begin("plain", proposed(kernel, nextId, document, "shaper"))
    /\ UNCHANGED history

\* Refused while a candidate is open or in safe mode, but for the identifier it took.
applyLocalRevision(document) ==
    /\ Ready /\ TakeId
    /\ IF canPropose(kernel)
       THEN Begin("plain", applied(kernel, nextId, document, "user"))
       ELSE UNCHANGED <<durable, phase, kernel, receiptRef, existedRef, entering, work, faults, stops, sources>>
    /\ UNCHANGED history

applyExtensionIntents(document, extension) ==
    /\ Ready /\ canApplyExtensionIntents(kernel, "accepted") /\ TakeId
    /\ Begin("plain", extensionProposed(kernel, nextId, document, extension, "accepted"))
    /\ UNCHANGED history

supersede(document) ==
    /\ Ready /\ canSupersede(kernel, kernel.proposal.id) /\ TakeId
    /\ Begin("plain", superseded(kernel, nextId, document, "shaper"))
    /\ UNCHANGED history

Decision(next) == Ready /\ Begin("plain", next) /\ UNCHANGED <<idSequence, history>>

preview == canPreview(kernel, kernel.proposal.id) /\ Decision(previewed(kernel, kernel.proposal.id))
accept == canAccept(kernel, kernel.proposal.id) /\ Decision(accepted(kernel))
reject == kernel.proposal # NoRevision /\ Decision(rejected(kernel))
rollback == canRollback(kernel) /\ Decision(rolledBack(kernel))

restoreLastKnownGood ==
    /\ Ready /\ canRestore(kernel)
    /\ Begin("restore", rolledBack(kernel))
    /\ UNCHANGED <<idSequence, history>>

recordExtensionFailure(extension) ==
    /\ Ready /\ extension \notin kernel.disabledExtensions
    /\ ~shouldRecover(kernel, extension)
    /\ Decision(extensionFailed(kernel, extension))

\* markRecovery needs a commit to put the first marker on.
canMark == marker # "absent" \/ refs[Accepted] # NoCommit \/ refs[LastKnownGood] # NoCommit

\* enterSafeMode, first half: the ref of the marker is read and then written,
\* outside the kernel's lock, while a save may be under way.
readMarker ==
    /\ phase = "on" /\ entering = "idle" /\ kernel.sequence < MaxSequence /\ HasRoom
    /\ entering' = "marking"
    /\ UNCHANGED <<durable, phase, kernel, idSequence, receiptRef, existedRef, work, faults,
                   stops, sources, history>>

\* Its failure is remembered.  A clear that has read the old marker is refused.
markRecovery ==
    /\ phase = "on" /\ entering \in {"marking", "mark-refused"}
    /\ \/ /\ entering = "marking" /\ canMark
          /\ marker' = "pending" /\ entering' = "marked"
          /\ work' = IF work.step = "write-clear" THEN [work EXCEPT !.step = "clear-refused"] ELSE work
          /\ UNCHANGED faults
       \/ /\ entering = "mark-refused" \/ ~canMark
          /\ entering' = "unmarked" /\ UNCHANGED <<marker, work, faults>>
       \/ Fails /\ entering' = "unmarked" /\ UNCHANGED <<marker, work>>
    /\ UNCHANGED <<existed, repository, receipt, phase, kernel, idSequence, receiptRef, existedRef,
                   stops, sources, history>>

\* enterSafeMode, second half.
enterSafeMode ==
    /\ phase = "on" /\ work.step = "idle" /\ entering \in {"marked", "unmarked"}
    /\ Begin("enter", safeModeEntered(kernel))
    /\ UNCHANGED <<idSequence, history>>

\* The third failure writes the marker under the lock, and saves in any case.
requestRecovery(extension) ==
    /\ Ready /\ extension \notin kernel.disabledExtensions
    /\ shouldRecover(kernel, extension)
    /\ \/ canMark /\ marker' = "pending" /\ UNCHANGED faults
       \/ ~canMark /\ UNCHANGED <<marker, faults>>
       \/ Fails /\ UNCHANGED marker
    /\ work' = [Idle(recoveryRequested(kernel, extension)) EXCEPT !.operation = "recover",
                  !.step = IF receiptRef = NoReceipt THEN "repair" ELSE "status"]
    /\ UNCHANGED <<existed, repository, receipt, phase, kernel, idSequence, receiptRef, existedRef,
                   entering, stops, sources, history>>

\* The agent checkpoints a source tree on flect/authoring, guarded by the
\* protected refs it has just read.
authorSource ==
    LET parent == IF refs[Authoring] # NoCommit THEN refs[Authoring] ELSE refs[Accepted]
    IN  /\ phase = "on" /\ HasRoom /\ sources < MaxSource
        /\ refs[Accepted] # NoCommit /\ refs[LastKnownGood] # NoCommit
        /\ sources' = sources + 1
        /\ repository' = checkpointed(repository, Authoring,
              [snapshot |-> contentAt(parent).snapshot, source |-> sources + 1])
        /\ UNCHANGED <<existed, marker, receipt, memory, faults, stops, history>>

\* Nobody asks for anything.  With it a deadlock is a save that cannot go on.
rest ==
    /\ phase = "on" /\ work.step = "idle" /\ entering = "idle"
    /\ UNCHANGED vars

Next ==
    \/ rest
    \/ loadNew
    \/ \E safeMode \in SafeStarts : loadExisting(safeMode)
    \/ \E outcome \in {unknown, recoverActivation, unreadMarker} : loadFails(outcome)
    \/ stop
    \/ Save
    \/ \E document \in Documents :
          \/ propose(document) \/ applyLocalRevision(document) \/ supersede(document)
          \/ \E extension \in Extensions : applyExtensionIntents(document, extension)
    \/ preview \/ accept \/ reject \/ rollback \/ restoreLastKnownGood
    \/ readMarker \/ markRecovery \/ enterSafeMode
    \/ \E extension \in Extensions : recordExtensionFailure(extension) \/ requestRecovery(extension)
    \/ authorSource

Spec == Init /\ [][Next]_vars

------------------------------------------------------------------------------
(* Properties *)

Settled == phase = "on" /\ work.step = "idle"

\* What a plain start would show, were the program to stop now.
Reload == reconciledState(initialState(load(FALSE)))

SameProduct(state, other) ==
    /\ state.active.id = other.active.id
    /\ state.active.document = other.active.document
    /\ state.lastKnownGood.id = other.lastKnownGood.id
    /\ state.lastKnownGood.document = other.lastKnownGood.document
    /\ state.disabledExtensions = other.disabledExtensions
    /\ state.proposal.id = other.proposal.id

DecidedDocuments == {product[1] : product \in products}

\* At every point a stop could expose, what is shown and what can be restored
\* was decided on: no candidate becomes the product through a torn save.
ShownIsDecided ==
    /\ {kernel.active.document, kernel.lastKnownGood.document} \subseteq DecidedDocuments
    /\ LET reload == Reload
       IN  existed => {reload.active.document, reload.lastKnownGood.document} \subseteq DecidedDocuments

\* A candidate made by an extension is stored with an event the validator refuses.
ExtensionMade(state) ==
    /\ state.lastEvent.type \in {"revision-proposed", "revision-previewed"}
    /\ state.lastEvent.extensionId # NoExtension

\* Wherever a save of a program outside safe mode is cut, the next start shows the product
\* before it or the product after it, or safe mode offering one of their documents; and with
\* no save under way it shows exactly the product that is running.
CrashShowsOldOrNew ==
    LET reload == Reload
    IN  phase = "on" /\ ~inDoubt /\ ~halfSaved /\ ~kernel.safeMode
        /\ ~ExtensionMade(kernel) /\ ~ExtensionMade(work.next) =>
            /\ \/ SameProduct(reload, kernel)
               \/ SameProduct(reload, work.next)
               \/ /\ reload.safeMode
                  /\ reload.lastKnownGood.document \in
                        {kernel.active.document, kernel.lastKnownGood.document,
                         work.next.active.document, work.next.lastKnownGood.document}
            /\ Settled /\ marker # "pending" => SameProduct(reload, kernel) /\ ~reload.safeMode

\* The failure of an extension in safe mode is stored with an event the validator refuses.
FailedInSafeMode(snapshot) == snapshot.safeMode /\ snapshot.lastEvent.type = "extension-failed"

\* What safe mode offers to restore, and what it has disabled, is what the next
\* start offers; and when the third failure was reported saved, that start is in
\* safe mode.  Of a failure that was stored in safe mode only that remains.
RecoverySurvives ==
    LET reload == Reload
    IN  Settled /\ ~inDoubt /\ ~halfSaved /\ kernel.safeMode =>
            IF FailedInSafeMode(contentAt(receiptRef.acceptedCommit).snapshot)
            THEN reload.safeMode
            ELSE /\ reload.lastKnownGood.document = kernel.lastKnownGood.document
                 /\ reload.disabledExtensions = kernel.disabledExtensions
                 /\ kernel.lastEvent.type = "recovery-requested" => reload.safeMode

\* Between saves that succeeded, the refs are where the receipt says, in storage
\* and in memory: the guards of the next save can be met.
RefsMatchReceipt ==
    Settled /\ ~inDoubt /\ receiptRef # NoReceipt =>
        /\ receipt = receiptRef
        /\ refs[Accepted] = receipt.acceptedCommit
        /\ refs[LastKnownGood] = receipt.lastKnownGoodCommit
        /\ receipt.proposal # NoProposal => refs[receipt.proposal.branch] = receipt.proposal.commit

\* The tree of the accepted product is the one its document was accepted with: however
\* often it is undone, restored or saved again, whatever the agent authors meanwhile, and
\* whichever request fails or stop comes before the commit of a save.
SourceFollowsDocument ==
    ~halfSaved /\ ~mixed /\ refs[Accepted] # NoCommit =>
        LET content == contentAt(refs[Accepted])
        IN  ~content.snapshot.safeMode => <<content.snapshot.active.document, content.source>> \in products
==============================================================================
