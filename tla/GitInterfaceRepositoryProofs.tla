-------------------- MODULE GitInterfaceRepositoryProofs ---------------------
(* Theorems about GitInterfaceRepository, for any documents, extensions and      *)
(* bounds, however often the program stops, requests fail and the agent commits: *)
(* what a start finds was decided on, is the product before a save that was cut  *)
(* or the one after it, and a save that was reported leaves the refs where the   *)
(* receipt says.                                                                 *)
EXTENDS GitInterfaceRepository, KernelTransitionsProofs

Commit(c) == c \in 1..Len(repository.commits)

SnapshotAt(c) == repository.commits[c].snapshot

Numbered(state) == state.proposal # NoRevision => state.proposal.id \in 1..MaxId

\* A receipt of activations that were made: its commits exist.
Written(r) ==
    /\ Commit(r.acceptedCommit) /\ Commit(r.lastKnownGoodCommit)
    /\ r.proposal # NoProposal =>
         /\ Commit(r.proposal.commit) /\ r.proposal.revisionId \in 1..MaxId
         /\ r.proposal.branch \in {ProposalBranch(id) : id \in 1..MaxId}

InitSteps == {"init", "init-lkg", "init-receipt"}
RepairSteps == {"repair", "repair-lkg", "repair-authoring", "repair-receipt"}
Clearing == {"clear", "write-clear", "clear-refused", "done"}

Works == [step : Steps, operation : Operations, next : KernelStates, authoring : Commits,
          commit : Commits]

Typed ==
    /\ existed \in BOOLEAN /\ existedRef \in BOOLEAN
    /\ repository \in [commits : Seq(Contents), refs : [Branches -> Nat]]
    /\ \A branch \in Branches : refs[branch] \in 0..Len(repository.commits)
    /\ marker \in {"absent", "pending", "clear"}
    /\ receipt \in Receipts /\ receiptRef \in Receipts
    /\ phase \in {"off", "loading", "repairing", "on"}
    /\ idSequence \in Nat /\ entering \in Entering
    /\ faults \in 0..MaxFaults /\ stops \in 0..MaxStops /\ sources \in 0..MaxSource
    /\ inDoubt \in BOOLEAN /\ halfSaved \in BOOLEAN
    /\ products \subseteq Documents \X (0..MaxSource) /\ <<BuiltIn, 0>> \in products
    /\ work \in Works /\ work.authoring \in 0..Len(repository.commits)
    /\ work.commit \in 0..Len(repository.commits)

\* A save of the kernel is under way.
Saving == work.step # "idle" /\ phase # "loading"

\* The kernel, what it is about to be, and what was stored are as the kernel's own
\* proofs have them.
KernelIsSound ==
    /\ Sound(kernel) /\ Storable(kernel) /\ Numbered(kernel)
    /\ IF Saving THEN Sound(work.next) /\ Writes(work.next) /\ Numbered(work.next)
                 ELSE work.next = kernel
    /\ \A c \in 1..Len(repository.commits) : Storable(SnapshotAt(c)) /\ Numbered(SnapshotAt(c))

\* Storage and memory have one receipt, unless the load could read none.
OneReceipt ==
    /\ receipt # NoReceipt => Written(receipt)
    /\ receiptRef # NoReceipt => receipt = receiptRef
    /\ phase = "off" => receiptRef = NoReceipt /\ work.step = "idle"
    /\ phase = "loading" => receiptRef = NoReceipt /\ work.step \in InitSteps
    /\ work.step \in InitSteps \union RepairSteps => receiptRef = NoReceipt
    /\ Saving /\ receiptRef = NoReceipt => work.step \in InitSteps \union RepairSteps

\* The compiled interface, and nothing else.
Compiled(state) ==
    /\ state.lastKnownGood = InitialRevision /\ state.proposal = NoRevision
    /\ state.disabledExtensions = {} /\ state.failureCounts = NoFailures

\* Where a load could read nothing there is the compiled interface in safe mode, and
\* a save says no more than that.
Unread ==
    receiptRef = NoReceipt =>
        /\ Compiled(kernel)
        /\ phase \in {"on", "repairing"} => kernel.safeMode /\ inDoubt
        /\ Saving =>
             /\ SameProduct(initialBuiltInSnapshot, work.next)
             /\ work.next.proposal = NoRevision
             /\ work.next.lastEvent.type \notin {"revision-accepted", "recovery-requested"}
             /\ work.operation \in {"plain", "restore", "enter"}
             /\ work.operation = "enter" => Compiled(work.next)

\* How the state that is being saved follows from the kernel's.
Follows ==
    Saving =>
        /\ work.operation = "reconcile" => work.next = kernel
        /\ work.operation \in {"enter", "recover"} => work.next.safeMode
        /\ IF work.next.proposal # NoRevision
           THEN /\ ~kernel.safeMode
                /\ work.next.active = kernel.active /\ work.next.lastKnownGood = kernel.lastKnownGood
                /\ work.next.disabledExtensions = kernel.disabledExtensions
           ELSE CASE work.next.lastEvent.type = "revision-accepted" ->
                       /\ ~kernel.safeMode /\ ~work.next.safeMode
                       /\ work.next.lastKnownGood = kernel.active
                       /\ work.next.disabledExtensions = kernel.disabledExtensions
                  [] work.next.lastEvent.type = "revision-rolled-back" ->
                       /\ ~work.next.safeMode /\ work.next.active = work.next.lastKnownGood
                       /\ work.next.lastKnownGood.document = kernel.lastKnownGood.document
                  [] OTHER ->
                       /\ work.next.lastEvent.type \in {"revision-rejected", "extension-failed",
                                                        "recovery-requested", "safe-mode-entered"}
                       /\ work.next.lastKnownGood = kernel.lastKnownGood
                       /\ work.next.disabledExtensions = kernel.disabledExtensions \/
                            (work.next.lastEvent.type = "recovery-requested" /\ work.next.safeMode)
                       /\ work.next.safeMode \/ (~kernel.safeMode /\ work.next.active = kernel.active)
                       /\ work.next.lastEvent.type = "extension-failed" =>
                            work.next.safeMode = kernel.safeMode

\* Refs that are where a receipt says.
Match(r) ==
    /\ refs[Accepted] = r.acceptedCommit /\ refs[LastKnownGood] = r.lastKnownGoodCommit
    /\ r.proposal # NoProposal => refs[r.proposal.branch] = r.proposal.commit

\* The commit that a receipt is about.
Current(r) == IF r.proposal # NoProposal THEN r.proposal.commit ELSE r.acceptedCommit

\* The branch of the candidate that is being saved.
branchOfNext == IF receiptRef.proposal = NoProposal THEN ProposalBranch(work.next.proposal.id)
                                                    ELSE receiptRef.proposal.branch

\* Step by step, where a save has the refs: each request is guarded by the ones before it.
Chain ==
    /\ work.step \in (InitSteps \union RepairSteps) \ {"init", "repair"} =>
         /\ Commit(work.commit) /\ refs[Accepted] = work.commit
         /\ SnapshotAt(work.commit) = initialBuiltInSnapshot
    /\ work.step = "init-lkg" => refs[LastKnownGood] = NoCommit
    /\ work.step \in {"init-receipt", "repair-authoring", "repair-receipt"} =>
         refs[LastKnownGood] = work.commit
    /\ work.step \in {"move-lkg", "move-authoring", "write-receipt"} =>
         Commit(work.commit) /\ SnapshotAt(work.commit) = snapshotFromState(work.next)
    /\ work.step \in {"move-lkg", "move-authoring"} => work.next.proposal = NoRevision
    /\ work.step = "move-lkg" =>
         refs[Accepted] = work.commit /\ refs[LastKnownGood] = receiptRef.lastKnownGoodCommit
    /\ work.step \in {"move-authoring", "write-receipt"} =>
         IF work.next.proposal = NoRevision
         THEN refs[Accepted] = work.commit /\ refs[LastKnownGood] = nextLastKnownGood
         ELSE /\ refs[Accepted] = receiptRef.acceptedCommit
              /\ refs[LastKnownGood] = receiptRef.lastKnownGoodCommit
              /\ refs[branchOfNext] = work.commit
    /\ work.step \in {"init", "repair", "idle"} => work.commit = NoCommit
    /\ work.step \in Clearing /\ work.commit = NoCommit =>
         work.next.safeMode /\ work.next.lastEvent.type = "safe-mode-entered"
    /\ work.step \in Clearing /\ work.commit # NoCommit /\ ~inDoubt =>
         SnapshotAt(Current(receiptRef)) = snapshotFromState(work.next)

\* Nothing moves a ref of the product but a save: unless one has failed, the refs are
\* where the receipt says before it has written and after.
Matches ==
    /\ work.step \in {"idle", "status", "checkpoint"} /\ ~inDoubt /\ receiptRef # NoReceipt =>
         Match(receiptRef)
    /\ work.step \in Clearing /\ (~inDoubt \/ work.commit # NoCommit) => Match(receiptRef)

\* At every commit, in memory and in what is being saved, what is shown and what can be
\* restored was decided on; an accepted candidate is from its commit on.
Decided ==
    /\ Shown(kernel) \subseteq DecidedDocuments
    /\ \A c \in 1..Len(repository.commits) : Shown(SnapshotAt(c)) \subseteq DecidedDocuments
    /\ \/ Shown(work.next) \subseteq DecidedDocuments
       \/ /\ work.step \in {"status", "checkpoint"} /\ work.operation = "plain"
          /\ work.next.lastEvent.type = "revision-accepted" /\ work.next.proposal = NoRevision
          /\ work.next.lastKnownGood.document \in DecidedDocuments

-----------------------------------------------------------------------------
\* A commit that a start would show.
Plain(c) == Commit(c) /\ validateShapingSnapshot(SnapshotAt(c)) /\ ~SnapshotAt(c).safeMode

\* A commit and the one that undo returns to.
Pair(a, l) ==
    /\ Commit(a) /\ Commit(l) /\ SnapshotAt(a).proposal = NoRevision
    /\ Plain(a) =>
         /\ Plain(l)
         /\ SnapshotAt(l).active.document = SnapshotAt(a).lastKnownGood.document
         /\ SnapshotAt(l).disabledExtensions = SnapshotAt(a).disabledExtensions

\* A receipt whose commits belong together, a candidate to the product it was made for.
Backed(r) ==
    /\ Pair(r.acceptedCommit, r.lastKnownGoodCommit)
    /\ r.proposal # NoProposal =>
         LET a == SnapshotAt(r.acceptedCommit) p == SnapshotAt(r.proposal.commit)
         IN  /\ Plain(r.acceptedCommit) /\ ~p.safeMode
             /\ p.proposal.id = r.proposal.revisionId
             /\ p.active.document = a.active.document
             /\ p.lastKnownGood.document = a.lastKnownGood.document
             /\ p.disabledExtensions = a.disabledExtensions

\* A snapshot that would start a state as it is.
Reflects(snapshot, state) ==
    /\ SameProduct(snapshot, state) /\ ~snapshot.safeMode
    /\ \/ validateShapingSnapshot(snapshot)
       \/ ExtensionMade(snapshot) /\ ExtensionMade(state) /\ state.proposal # NoRevision

\* What is stored is the product that runs, as long as no save was cut after its commit.
Stored ==
    ~halfSaved =>
        /\ receipt # NoReceipt => Backed(receipt)
        /\ work.commit = NoCommit /\ refs[Accepted] # NoCommit /\ refs[LastKnownGood] # NoCommit =>
             Pair(refs[Accepted], refs[LastKnownGood])
        /\ receiptRef # NoReceipt =>
             LET state == IF work.step \in Clearing /\ work.commit # NoCommit THEN work.next ELSE kernel
             IN  ~state.safeMode =>
                    /\ Reflects(SnapshotAt(Current(receiptRef)), state)
                    /\ (receiptRef.proposal = NoProposal) <=> (state.proposal = NoRevision)

\* In safe mode what is stored offers what the kernel offers, but for the failure of an
\* extension in safe mode; a candidate that an extension made cannot be read back, so that
\* its product is what undo returns to.
SafeReflects(snapshot, state) ==
    \/ FailedInSafeMode(snapshot)
    \/ /\ validateShapingSnapshot(snapshot)
       /\ snapshot.lastKnownGood.document = state.lastKnownGood.document
       /\ snapshot.disabledExtensions = state.disabledExtensions
       /\ state.lastEvent.type = "recovery-requested" => snapshot.safeMode
    \/ /\ ExtensionMade(snapshot) /\ state.lastEvent.type # "recovery-requested"
       /\ SnapshotAt(receiptRef.lastKnownGoodCommit).active.document = state.lastKnownGood.document
       /\ SnapshotAt(receiptRef.lastKnownGoodCommit).disabledExtensions = state.disabledExtensions
       /\ Plain(receiptRef.lastKnownGoodCommit)

StoredSafe ==
    ~halfSaved /\ receiptRef # NoReceipt =>
        LET saved == work.step \in Clearing /\ work.commit # NoCommit
            state == IF saved THEN work.next ELSE kernel
        IN  state.safeMode /\ (saved \/ ~inDoubt) =>
              SafeReflects(SnapshotAt(Current(receiptRef)), state)

Inv ==
    /\ Typed /\ KernelIsSound /\ OneReceipt /\ Unread /\ Follows /\ Chain /\ Matches /\ Decided
    /\ Stored /\ StoredSafe

-----------------------------------------------------------------------------
(* Parts.                                                                       *)

\* The four kinds of branches are different refs.
LEMMA BranchesAre ==
    /\ Accepted \in Branches /\ LastKnownGood \in Branches /\ Authoring \in Branches
    /\ \A id \in 1..MaxId : ProposalBranch(id) \in Branches
    /\ Accepted # LastKnownGood /\ Accepted # Authoring /\ LastKnownGood # Authoring
    /\ \A id \in 1..MaxId : ProposalBranch(id) \notin {Accepted, LastKnownGood, Authoring}
  BY DEF Branches, Accepted, LastKnownGood, Authoring, ProposalBranch

\* What the first checkpoint holds is valid, and shows the compiled interface.
LEMMA BuiltInIs ==
    /\ initialBuiltInSnapshot \in Snapshots /\ validateShapingSnapshot(initialBuiltInSnapshot)
    /\ Storable(initialBuiltInSnapshot) /\ Numbered(initialBuiltInSnapshot)
    /\ Shown(initialBuiltInSnapshot) = {BuiltIn}
    /\ ~initialBuiltInSnapshot.safeMode /\ initialBuiltInSnapshot.proposal = NoRevision
    /\ initialBuiltInSnapshot.disabledExtensions = {}
    /\ initialBuiltInSnapshot.active = InitialRevision
    /\ initialBuiltInSnapshot.lastKnownGood = InitialRevision
<1>1. initialBuiltInSnapshot = [active |-> InitialRevision, lastKnownGood |-> InitialRevision,
        proposal |-> NoRevision, safeMode |-> FALSE, disabledExtensions |-> {},
        lastEvent |-> InitialEvent]
  BY DEF initialBuiltInSnapshot
<1>2. initialBuiltInSnapshot \in Snapshots
  BY <1>1, ConstantTypes DEF Snapshots
<1>3. validateShapingSnapshot(initialBuiltInSnapshot)
  BY <1>1 DEF validateShapingSnapshot, ValidDecided, ValidProposal, ValidOrigin,
     isInitialRevision,
     eventMatchesState, InitialRevision, InitialEvent
<1>4. Storable(initialBuiltInSnapshot) /\ Shown(initialBuiltInSnapshot) = {BuiltIn}
  BY <1>1 DEF Storable, Shown, ValidDecided, isInitialRevision, InitialRevision, BuiltInId, NoId
<1> QED
  BY <1>1, <1>2, <1>3, <1>4 DEF Numbered

\* The compiled interface at a commit belongs to itself.
LEMMA BuiltInPair ==
    ASSUME NEW c, Commit(c), SnapshotAt(c) = initialBuiltInSnapshot
    PROVE  Pair(c, c)
  BY BuiltInIs DEF Pair, Plain

\* What the validator accepts: its candidate can be one, a recovery is in safe mode, and no
\* extension failed in safe mode.
LEMMA EventOfSnapshot ==
    ASSUME NEW snapshot, validateShapingSnapshot(snapshot)
    PROVE  /\ ValidProposal(snapshot)
           /\ snapshot.lastEvent.type = "recovery-requested" => snapshot.safeMode
           /\ ~FailedInSafeMode(snapshot)
  BY DEF validateShapingSnapshot, eventMatchesState, isBuiltInSafeState, FailedInSafeMode

\* What is stored of a state.
LEMMA SnapshotIs ==
    ASSUME NEW state, Sound(state)
    PROVE  LET snapshot == snapshotFromState(state)
           IN  /\ snapshot \in Snapshots
               /\ snapshot.active = state.active /\ snapshot.lastKnownGood = state.lastKnownGood
               /\ snapshot.proposal = state.proposal /\ snapshot.safeMode = state.safeMode
               /\ snapshot.disabledExtensions = state.disabledExtensions
               /\ snapshot.lastEvent = state.lastEvent
               /\ Storable(snapshot) <=> Storable(state)
               /\ Numbered(snapshot) <=> Numbered(state)
               /\ Shown(snapshot) = Shown(state) /\ SameProduct(snapshot, state)
  BY SnapshotType DEF Sound, snapshotFromState, Storable, Numbered, Shown, SameProduct

-----------------------------------------------------------------------------
(* The repository.                                                              *)

\* A new commit leaves the others as they were.
LEMMA Appended ==
    ASSUME Typed, NEW branch \in Branches, NEW content \in Contents,
           repository' = checkpointed(repository, branch, content)
    PROVE  /\ repository' \in [commits : Seq(Contents), refs : [Branches -> Nat]]
           /\ Len(repository'.commits) = Len(repository.commits) + 1
           /\ \A c \in 1..Len(repository.commits) : repository'.commits[c] = repository.commits[c]
           /\ repository'.commits[Len(repository.commits) + 1] = content
           /\ repository'.refs = [refs EXCEPT ![branch] = Len(repository.commits) + 1]
           /\ \A other \in Branches \ {branch} : refs'[other] = refs[other]
           /\ refs'[branch] = Len(repository.commits) + 1
           /\ \A other \in Branches : refs'[other] \in 0..Len(repository'.commits)
<1>1. /\ repository.commits \in Seq(Contents) /\ refs \in [Branches -> Nat]
      /\ Len(repository.commits) \in Nat
  BY DEF Typed, refs
<1>2. repository' = [commits |-> Append(repository.commits, content),
                     refs |-> [refs EXCEPT ![branch] = Len(repository.commits) + 1]]
  BY DEF checkpointed, refs
<1>3. /\ repository'.commits = Append(repository.commits, content)
      /\ repository'.refs = [refs EXCEPT ![branch] = Len(repository.commits) + 1]
  BY <1>2
<1>4. /\ Append(repository.commits, content) \in Seq(Contents)
      /\ Len(Append(repository.commits, content)) = Len(repository.commits) + 1
      /\ \A c \in 1..Len(repository.commits) :
            Append(repository.commits, content)[c] = repository.commits[c]
      /\ Append(repository.commits, content)[Len(repository.commits) + 1] = content
  BY <1>1
<1>5. [refs EXCEPT ![branch] = Len(repository.commits) + 1] \in [Branches -> Nat]
  BY <1>1
<1>6. /\ \A other \in Branches \ {branch} : refs'[other] = refs[other]
      /\ refs'[branch] = Len(repository.commits) + 1
  BY <1>1, <1>3 DEF refs
<1>7. \A other \in Branches : refs'[other] \in 0..Len(repository'.commits)
  <2> SUFFICES ASSUME NEW other \in Branches
               PROVE  refs'[other] \in 0..Len(repository.commits) + 1
    BY <1>3, <1>4
  <2>1. refs[other] \in 0..Len(repository.commits)
    BY DEF Typed
  <2> QED
    BY <1>1, <1>6, <2>1
<1>8. repository' \in [commits : Seq(Contents), refs : [Branches -> Nat]]
  BY <1>2, <1>4, <1>5
<1>9. \A c \in 1..Len(repository.commits) : repository'.commits[c] = repository.commits[c]
  BY <1>3, <1>4
<1> QED
  BY <1>3, <1>4, <1>6, <1>7, <1>8, <1>9

\* A moved ref leaves the others, and the commits, as they were.
LEMMA Moved ==
    ASSUME Typed, NEW branch \in Branches, NEW target \in 1..Len(repository.commits),
           repository' = refMoved(repository, branch, target)
    PROVE  /\ repository' \in [commits : Seq(Contents), refs : [Branches -> Nat]]
           /\ repository'.commits = repository.commits
           /\ \A other \in Branches \ {branch} : refs'[other] = refs[other]
           /\ refs'[branch] = target
           /\ \A other \in Branches : refs'[other] \in 0..Len(repository'.commits)
<1>1. repository.commits \in Seq(Contents) /\ refs \in [Branches -> Nat] /\ target \in Nat
  BY DEF Typed, refs
<1>2. repository' = [commits |-> repository.commits, refs |-> [refs EXCEPT ![branch] = target]]
  BY DEF refMoved, refs, Typed
<1>3. /\ repository'.commits = repository.commits
      /\ repository'.refs = [refs EXCEPT ![branch] = target]
  BY <1>2
<1>4. [refs EXCEPT ![branch] = target] \in [Branches -> Nat]
  BY <1>1
<1>5. /\ \A other \in Branches \ {branch} : refs'[other] = refs[other]
      /\ refs'[branch] = target
  BY <1>1, <1>3 DEF refs
<1>6. \A other \in Branches : refs'[other] \in 0..Len(repository'.commits)
  BY <1>1, <1>3, <1>5 DEF Typed
<1> QED
  BY <1>1, <1>2, <1>3, <1>4, <1>5, <1>6

\* Commits are never lost or changed.
Grows ==
    /\ Len(repository'.commits) \in Nat /\ Len(repository'.commits) >= Len(repository.commits)
    /\ \A c \in 1..Len(repository.commits) : repository'.commits[c] = repository.commits[c]

\* A commit that is appended leaves the commits before it, and what holds of them, alone.
LEMMA GrowingKeeps ==
    ASSUME Typed, Grows
    PROVE  /\ \A c : Commit(c) => Commit(c)' /\ SnapshotAt(c)' = SnapshotAt(c)
           /\ \A c : Commit(c) /\ Plain(c)' => Plain(c)
           /\ \A a, l : Pair(a, l) => Pair(a, l)'
           /\ \A r : r \in Receipts /\ Written(r) => Written(r)'
           /\ \A r : r \in Receipts /\ Written(r) /\ Backed(r) => Backed(r)'
<1>1. Len(repository.commits) \in Nat
  BY DEF Typed
<1>2. \A c : Commit(c) => Commit(c)' /\ SnapshotAt(c)' = SnapshotAt(c)
  BY <1>1 DEF Grows, Commit, SnapshotAt
<1>3. \A c : Commit(c) => (Plain(c)' <=> Plain(c))
  BY <1>2 DEF Plain
<1>4. \A a, l : Pair(a, l) => Pair(a, l)'
  BY <1>2, <1>3 DEF Pair
<1>5. \A r : r \in Receipts /\ Written(r) => Written(r)'
  BY <1>2 DEF Written
<1>6. ASSUME NEW r \in Receipts, Written(r), Backed(r) PROVE Backed(r)'
  BY <1>2, <1>3, <1>4, <1>6 DEF Written, Backed
<1> QED
  BY <1>2, <1>3, <1>4, <1>5, <1>6

-----------------------------------------------------------------------------
(* Starting.                                                                    *)

\* A load that could read nothing.
Nothing(loaded) ==
    /\ loaded.snapshot = NoSnapshot /\ loaded.recovered = TRUE /\ loaded.recovery \in BOOLEAN
    /\ loaded.receipt = receipt /\ loaded.receiptRef = NoReceipt

\* A load that has a receipt, and the snapshot of a commit: the one that the receipt points
\* to, or another one that is offered in safe mode.
Known(loaded, r, c) ==
    /\ loaded.receipt = r /\ loaded.receiptRef = r
    /\ loaded.recovered \in BOOLEAN /\ loaded.recovery \in BOOLEAN
    /\ r \in Receipts /\ Written(r) /\ Match(r)
    /\ Commit(c) /\ validateShapingSnapshot(SnapshotAt(c))
    /\ loaded.snapshot = SnapshotAt(c) \/
         (loaded.recovered /\ loaded.snapshot = safeRecoverySnapshot(SnapshotAt(c)))
    /\ ~loaded.recovered => c = Current(r) /\ SnapshotAt(c).proposal.id = r.proposal.revisionId

\* A receipt of commits that exist is one, and the commit it is about exists.
LEMMA WrittenIs ==
    ASSUME Typed, NEW r, Written(r)
    PROVE  r # NoReceipt /\ Commit(Current(r))
  BY DEF Typed, Written, Commit, NoReceipt, NoCommit, Current

\* What the activation reads is the valid snapshot of the receipt's commit.
LEMMA ActivationIs ==
    ASSUME Typed, OneReceipt, activation # {}
    PROVE  /\ receipt # NoReceipt /\ Written(receipt) /\ Match(receipt)
           /\ Commit(Current(receipt)) /\ validateShapingSnapshot(SnapshotAt(Current(receipt)))
           /\ SnapshotAt(Current(receipt)).proposal.id = receipt.proposal.revisionId
           /\ activation = {SnapshotAt(Current(receipt))}
<1>1. receipt # NoReceipt
  BY DEF activation
<1>2. Written(receipt) /\ Commit(Current(receipt))
  BY <1>1, WrittenIs DEF OneReceipt
<1>3. /\ validateShapingSnapshot(SnapshotAt(Current(receipt)))
      /\ SnapshotAt(Current(receipt)).proposal.id = receipt.proposal.revisionId
      /\ activation = {SnapshotAt(Current(receipt))}
  BY DEF activation, readable, contentAt, SnapshotAt, Current
<1>4. Match(receipt)
  BY DEF activation, readable, holds, Guard, Match, refs
<1> QED
  BY <1>1, <1>2, <1>3, <1>4

\* With every ref where the receipt says, the receipt is followed.
LEMMA Activates ==
    ASSUME Typed, receipt # NoReceipt, Match(receipt), Commit(Current(receipt)),
           validateShapingSnapshot(SnapshotAt(Current(receipt))),
           SnapshotAt(Current(receipt)).proposal.id = receipt.proposal.revisionId
    PROVE  activation = {SnapshotAt(Current(receipt))}
  BY DEF activation, readable, holds, Guard, Match, refs, contentAt, SnapshotAt, Current, Commit,
     NoCommit, Typed

\* Recovery rebuilds a receipt from the two refs and the snapshot of the last known good, or
\* knows nothing.
LEMMA RecoverIs ==
    ASSUME Typed, OneReceipt
    PROVE  \/ recoverActivation = unknown
           \/ LET r == [acceptedCommit |-> refs[Accepted],
                        lastKnownGoodCommit |-> refs[LastKnownGood], proposal |-> NoProposal]
              IN  /\ refs[Accepted] # NoCommit /\ refs[LastKnownGood] # NoCommit
                  /\ Known(recoverActivation, r, refs[LastKnownGood])
                  /\ recoverActivation.recovered
                  /\ recoverActivation.snapshot =
                       safeRecoverySnapshot(SnapshotAt(refs[LastKnownGood]))
<1> DEFINE r == [acceptedCommit |-> refs[Accepted],
                 lastKnownGoodCommit |-> refs[LastKnownGood], proposal |-> NoProposal]
<1> SUFFICES ASSUME recoverActivation # unknown
             PROVE  /\ refs[Accepted] # NoCommit /\ refs[LastKnownGood] # NoCommit
                    /\ Known(recoverActivation, r, refs[LastKnownGood])
                    /\ recoverActivation.recovered
                    /\ recoverActivation.snapshot =
                         safeRecoverySnapshot(SnapshotAt(refs[LastKnownGood]))
  OBVIOUS
<1>1. /\ refs[Accepted] # NoCommit /\ refs[LastKnownGood] # NoCommit
      /\ validateShapingSnapshot(SnapshotAt(refs[LastKnownGood]))
      /\ recoverActivation = Outcome(safeRecoverySnapshot(SnapshotAt(refs[LastKnownGood])), TRUE, r, r)
  BY DEF recoverActivation, readable, contentAt, SnapshotAt
<1>2. Commit(refs[Accepted]) /\ Commit(refs[LastKnownGood])
  BY <1>1, BranchesAre DEF Typed, Commit, NoCommit
<1>3. r \in Receipts
  BY <1>2, DocumentsAssumption DEF Receipts, Commit, Commits, NoProposal, ProposalReceipts, Ids,
     Branches, NoCommit, Typed
<1>4. Written(r) /\ Match(r)
  BY <1>2 DEF Written, Match
<1> QED
  BY <1>1, <1>2, <1>3, <1>4 DEF Known, Outcome

\* A load that knows nothing has no receipt.
LEMMA UnknownIs == Nothing(unknown) /\ unknown.recovered
  BY DEF Nothing, unknown, Outcome

\* What a load returns, without failures.
LEMMA LoadIs ==
    ASSUME Typed, OneReceipt, NEW safeMode \in BOOLEAN
    PROVE  \/ /\ activation # {} /\ Known(load(safeMode), receipt, Current(receipt))
              /\ load(safeMode).recovered = safeMode
              /\ ~safeMode => load(safeMode).snapshot = SnapshotAt(Current(receipt))
              /\ load(safeMode).recovery = (marker = "pending")
           \/ activation = {} /\ load(safeMode) = recoverActivation
<1>1. CASE activation = {}
  BY <1>1 DEF load
<1>2. CASE activation # {}
  <2> DEFINE s == SnapshotAt(Current(receipt))
             safe == safeMode /\ ~s.safeMode
  <2>1. /\ Written(receipt) /\ Match(receipt) /\ Commit(Current(receipt))
        /\ validateShapingSnapshot(s) /\ s.proposal.id = receipt.proposal.revisionId
        /\ activation = {s}
    BY <1>2, ActivationIs
  <2>2. (CHOOSE t \in activation : TRUE) = s
    BY <2>1
  <2>3. load(safeMode) = Outcome(IF safe THEN safeRecoverySnapshot(s) ELSE s, safeMode, receipt, receipt)
    BY <1>2, <2>2 DEF load
  <2>4. /\ load(safeMode).snapshot = (IF safe THEN safeRecoverySnapshot(s) ELSE s)
        /\ load(safeMode).recovered = safeMode /\ load(safeMode).recovery = (marker = "pending")
        /\ load(safeMode).receipt = receipt /\ load(safeMode).receiptRef = receipt
    BY <2>3 DEF Outcome
  <2> QED
    BY <1>2, <2>1, <2>4 DEF Known, Typed
<1> QED
  BY <1>1, <1>2

\* The snapshot that safe mode is offered with.
LEMMA SafeSnapshotIs ==
    ASSUME NEW s \in Snapshots, Storable(s)
    PROVE  LET safe == safeRecoverySnapshot(s)
           IN  /\ safe \in Snapshots /\ Storable(safe) /\ Numbered(safe)
               /\ safe.active = s.active /\ safe.lastKnownGood = s.active
               /\ safe.proposal = NoRevision /\ safe.safeMode
               /\ safe.disabledExtensions = s.disabledExtensions
               /\ safe.lastEvent.type = "safe-mode-entered"
<1> DEFINE event == [sequence |-> s.lastEvent.sequence + 1, type |-> "safe-mode-entered",
                     revisionId |-> s.active.id, extensionId |-> NoExtension]
           safe == safeRecoverySnapshot(s)
<1>1. event \in Events
  BY DEF Snapshots, Events, EventTypes, Revisions
<1>2. safe = [active |-> s.active, lastKnownGood |-> s.active, proposal |-> NoRevision,
              safeMode |-> TRUE, disabledExtensions |-> s.disabledExtensions, lastEvent |-> event]
  BY DEF safeRecoverySnapshot
<1>3. event.type = "safe-mode-entered"
  OBVIOUS
<1> HIDE DEF event, safe
<1>4. safe \in Snapshots
  BY <1>1, <1>2, ConstantTypes DEF Snapshots
<1>5. Storable(safe) /\ Numbered(safe)
  BY <1>2 DEF Storable, Numbered
<1> QED
  BY <1>2, <1>3, <1>4, <1>5 DEF safe

\* The state that a stored snapshot starts.
LEMMA StateOf ==
    ASSUME NEW loaded, loaded.snapshot \in Snapshots, loaded.recovered \in BOOLEAN,
           loaded.recovery \in BOOLEAN, Storable(loaded.snapshot), Numbered(loaded.snapshot),
           ValidProposal(loaded.snapshot)
    PROVE  LET state == initialState(loaded)
               s == loaded.snapshot
               safe == s.safeMode \/ loaded.recovered \/ loaded.recovery
           IN  /\ Sound(state) /\ Storable(state) /\ Numbered(state)
               /\ state.safeMode = safe
               /\ state.active = IF safe THEN InitialRevision ELSE s.active
               /\ state.proposal = IF safe THEN NoRevision ELSE s.proposal
               /\ state.lastKnownGood = s.lastKnownGood
               /\ state.disabledExtensions = s.disabledExtensions
               /\ state.lastEvent = s.lastEvent
<1> DEFINE state == initialState(loaded)
           s == loaded.snapshot
           safe == s.safeMode \/ loaded.recovered \/ loaded.recovery
<1>1. s # NoSnapshot
  BY DEF Storable, ValidDecided, NoSnapshot, NoRevision
<1>2. /\ state.safeMode = safe
      /\ state.active = IF safe THEN InitialRevision ELSE s.active
      /\ state.proposal = IF safe THEN NoRevision ELSE s.proposal
      /\ state.lastKnownGood = s.lastKnownGood
      /\ state.disabledExtensions = s.disabledExtensions
      /\ state.lastEvent = s.lastEvent
  BY <1>1 DEF initialState, Snapshots
<1>3. Sound(state)
  BY InitialStateSound
<1> HIDE DEF state, s, safe
<1>4. Storable(state) /\ Numbered(state)
  BY <1>2 DEF s, Storable, Numbered, ValidDecided, isInitialRevision, InitialRevision, BuiltInId,
     NoId
<1> QED
  BY <1>2, <1>3, <1>4 DEF state, s, safe

\* Marking a pending candidate as previewed changes nothing that is shown or offered.
LEMMA ReconciledIs ==
    ASSUME NEW state, Sound(state), Storable(state), Numbered(state)
    PROVE  LET next == reconciledState(state)
           IN  /\ Sound(next) /\ Storable(next) /\ Numbered(next) /\ Shown(next) = Shown(state)
               /\ SameProduct(next, state)
               /\ next.active = state.active /\ next.lastKnownGood = state.lastKnownGood
               /\ next.safeMode = state.safeMode
               /\ next.disabledExtensions = state.disabledExtensions
               /\ (next.proposal = NoRevision) <=> (state.proposal = NoRevision)
               /\ ~isPending(state) => next = state
               /\ isPending(state) =>
                    /\ Writes(next) /\ next.proposal # NoRevision /\ ~next.safeMode
                    /\ next.lastEvent.type = "revision-previewed"
                    /\ next.lastEvent.extensionId = NoExtension
<1> DEFINE next == reconciledState(state)
<1>1. CASE ~isPending(state)
  BY <1>1 DEF reconciledState, SameProduct
<1>2. CASE isPending(state)
  <2>1. next = previewed(state, state.proposal.id) /\ canPreview(state, state.proposal.id)
    BY <1>2 DEF reconciledState, previewed, isPending, canPreview, isProposal
  <2>2. Sound(next) /\ Shown(next) = Shown(state)
    BY ReconciledSound
  <2>3. Writes(next)
    BY <2>1, PreviewedWrites
  <2> DEFINE sequenced == Sequenced(state, "revision-previewed", state.proposal.id, NoExtension)
  <2>4. /\ sequenced \in KernelStates /\ sequenced.active = state.active
        /\ sequenced.lastKnownGood = state.lastKnownGood
        /\ sequenced.proposal = state.proposal /\ sequenced.safeMode = state.safeMode
        /\ sequenced.disabledExtensions = state.disabledExtensions
    <3>1. /\ state \in KernelStates /\ state.proposal.id \in Ids
          /\ "revision-previewed" \in EventTypes
      BY DEF Sound, KernelStates, Revisions, EventTypes
    <3> QED
      BY <3>1, SequencedType
  <2>5. sequenced.lastEvent = eventFor(state, "revision-previewed", state.proposal.id, NoExtension)
    BY DEF Sequenced, Sound, KernelStates
  <2>6. next = [sequenced EXCEPT !.proposal.status = "previewed"]
    BY <2>1 DEF previewed
  <2>7. state.proposal # NoRevision /\ state.proposal \in Revisions /\ ~state.safeMode
    BY <1>2 DEF Sound, KernelStates, CandidateIsSound, isPending
  <2> HIDE DEF sequenced, next
  <2>8. /\ next.active = state.active /\ next.lastKnownGood = state.lastKnownGood
        /\ next.safeMode = state.safeMode
        /\ next.disabledExtensions = state.disabledExtensions
        /\ next.proposal = [state.proposal EXCEPT !.status = "previewed"]
        /\ next.lastEvent = sequenced.lastEvent
    BY <2>4, <2>6 DEF KernelStates
  <2>9. next.proposal.id = state.proposal.id /\ next.proposal # NoRevision
    BY <2>7, <2>8 DEF Revisions, NoRevision
  <2>10. next.lastEvent.type = "revision-previewed" /\ next.lastEvent.extensionId = NoExtension
    BY <2>5, <2>8 DEF eventFor
  <2>11. Storable(next) /\ Numbered(next)
    BY <2>3, <2>7, <2>9 DEF Writes, Numbered
  <2> QED
    BY <1>2, <2>2, <2>3, <2>7, <2>8, <2>9, <2>10, <2>11 DEF next, SameProduct
<1> QED
  BY <1>1, <1>2

\* The kernel that starts where nothing could be read.
LEMMA NothingStarts ==
    ASSUME NEW loaded, Nothing(loaded)
    PROVE  LET state == initialState(loaded)
           IN  /\ Sound(state) /\ Storable(state) /\ Numbered(state) /\ Compiled(state)
               /\ state.safeMode /\ ~isPending(state) /\ reconciledState(state) = state
               /\ Shown(state) = {BuiltIn}
<1> DEFINE state == initialState(loaded)
<1>1. /\ state.active = InitialRevision /\ state.lastKnownGood = InitialRevision
      /\ state.proposal = NoRevision /\ state.safeMode = TRUE /\ state.disabledExtensions = {}
      /\ state.failureCounts = NoFailures
  BY DEF Nothing, initialState
<1>2. Sound(state)
  BY InitialStateSound, ConstantTypes DEF Nothing
<1> HIDE DEF state
<1>3. Storable(state) /\ Numbered(state) /\ Compiled(state) /\ Shown(state) = {BuiltIn}
  BY <1>1 DEF Storable, Numbered, Compiled, Shown, ValidDecided, isInitialRevision,
     InitialRevision, BuiltInId, NoId
<1>4. ~isPending(state) /\ reconciledState(state) = state
  BY <1>1 DEF isPending, reconciledState
<1> QED
  BY <1>1, <1>2, <1>3, <1>4 DEF state

\* What a commit holds can be stored, and its candidate has a number.
LEMMA CommitIs ==
    ASSUME Typed, KernelIsSound, NEW c, Commit(c)
    PROVE  /\ SnapshotAt(c) \in Snapshots /\ Storable(SnapshotAt(c)) /\ Numbered(SnapshotAt(c))
           /\ contentAt(c).source \in 0..MaxSource /\ contentAt(c).snapshot = SnapshotAt(c)
<1>1. repository.commits[c] \in Contents
  BY DEF Typed, Commit
<1> QED
  BY <1>1 DEF Contents, KernelIsSound, Commit, SnapshotAt, contentAt

\* What else a start may change.
StartFrame ==
    /\ existed' \in BOOLEAN /\ existedRef' \in BOOLEAN /\ inDoubt' \in BOOLEAN
    /\ faults' \in 0..MaxFaults
    /\ UNCHANGED <<marker, entering, stops, sources, products, halfSaved>>

\* A start from a receipt.
LEMMA StartKnown ==
    ASSUME Inv, StartFrame, repository' = repository, NEW r, NEW c, NEW loaded,
           Known(loaded, r, c), Start(loaded), loaded.recovered => inDoubt',
           ~halfSaved => Backed(r)
    PROVE  Inv'
<1> USE DEF Inv
<1> DEFINE s == SnapshotAt(c)
           state == initialState(loaded)
           next == reconciledState(state)
           safe == loaded.snapshot.safeMode \/ loaded.recovered \/ loaded.recovery
<1>1. /\ s \in Snapshots /\ Storable(s) /\ Numbered(s) /\ validateShapingSnapshot(s)
      /\ ValidProposal(s)
      /\ s.lastEvent.type = "recovery-requested" => s.safeMode
  BY CommitIs, EventOfSnapshot DEF Known
<1>2. /\ loaded.snapshot \in Snapshots /\ Storable(loaded.snapshot) /\ Numbered(loaded.snapshot)
      /\ ValidProposal(loaded.snapshot) /\ loaded.recovered \in BOOLEAN
      /\ loaded.recovery \in BOOLEAN
      /\ Shown(loaded.snapshot) \subseteq Shown(s)
  <2>1. CASE loaded.snapshot = s
    BY <1>1, <2>1 DEF Known
  <2>2. CASE loaded.snapshot = safeRecoverySnapshot(s)
    BY <1>1, <2>2, SafeSnapshotIs DEF Known, ValidProposal, Shown
  <2> QED
    BY <2>1, <2>2 DEF Known
<1>3. /\ Sound(state) /\ Storable(state) /\ Numbered(state)
      /\ state.safeMode = safe
      /\ state.active = IF safe THEN InitialRevision ELSE loaded.snapshot.active
      /\ state.proposal = IF safe THEN NoRevision ELSE loaded.snapshot.proposal
      /\ state.lastKnownGood = loaded.snapshot.lastKnownGood
      /\ state.disabledExtensions = loaded.snapshot.disabledExtensions
      /\ state.lastEvent = loaded.snapshot.lastEvent
  BY <1>2, StateOf
<1>4. /\ kernel' = next /\ idSequence' = next.sequence /\ receipt' = r /\ receiptRef' = r
      /\ phase' = IF isPending(state) THEN "repairing" ELSE "on"
      /\ work' = [step |-> IF isPending(state) THEN "status" ELSE "idle",
                  operation |-> IF isPending(state) THEN "reconcile" ELSE "none",
                  next |-> next, authoring |-> NoCommit, commit |-> NoCommit]
  BY DEF Start, Known, Idle
<1> HIDE DEF state, next, safe
<1>5. /\ Sound(next) /\ Storable(next) /\ Numbered(next) /\ Shown(next) = Shown(state)
      /\ SameProduct(next, state)
      /\ next.active = state.active /\ next.lastKnownGood = state.lastKnownGood
      /\ next.safeMode = state.safeMode
      /\ next.disabledExtensions = state.disabledExtensions
      /\ (next.proposal = NoRevision) <=> (state.proposal = NoRevision)
      /\ ~isPending(state) => next = state
      /\ isPending(state) =>
           /\ Writes(next) /\ next.proposal # NoRevision /\ ~next.safeMode
           /\ next.lastEvent.type = "revision-previewed"
           /\ next.lastEvent.extensionId = NoExtension
  BY <1>3, ReconciledIs DEF next
<1>6. /\ work'.step = (IF isPending(state) THEN "status" ELSE "idle")
      /\ work'.operation = (IF isPending(state) THEN "reconcile" ELSE "none")
      /\ work'.next = next /\ work'.authoring = NoCommit /\ work'.commit = NoCommit
      /\ work'.step \in {"idle", "status"}
  BY <1>4
<1>7. /\ r # NoReceipt /\ Written(r) /\ Match(r) /\ Commit(Current(r)) /\ r \in Receipts
  BY WrittenIs DEF Known
<1>8. /\ Written(r)' /\ Match(r)' /\ (~halfSaved => Backed(r)')
      /\ \A d : SnapshotAt(d)' = SnapshotAt(d)
      /\ refs' = refs
  BY <1>7 DEF Written, Match, Commit, SnapshotAt, Backed, Pair, Plain, refs
<1>9. Typed'
  <2>1. work' \in Works
    BY <1>4, <1>5 DEF Works, Steps, Operations, Commits, NoCommit, Sound
  <2>2. idSequence' \in Nat
    BY <1>4, <1>5 DEF Sound, KernelStates
  <2> QED
    BY <1>4, <1>6, <1>7, <2>1, <2>2 DEF Typed, StartFrame, refs, NoCommit
<1>10. KernelIsSound'
  BY <1>4, <1>5, <1>6, <1>8 DEF KernelIsSound, Saving
<1>11. OneReceipt'
  BY <1>4, <1>6, <1>7, <1>8 DEF OneReceipt, Saving, InitSteps, RepairSteps
<1>12. Unread'
  BY <1>4, <1>7 DEF Unread
<1>13. Follows'
  BY <1>4, <1>5, <1>6 DEF Follows, Saving
<1>14. Chain'
  BY <1>6 DEF Chain, InitSteps, RepairSteps, Clearing
<1>15. Matches'
  BY <1>4, <1>6, <1>8 DEF Matches, Clearing
<1>16. Decided'
  <2>1. BuiltIn \in DecidedDocuments
    BY DEF Typed, DecidedDocuments
  <2>2. Shown(s) \subseteq DecidedDocuments
    BY DEF Decided, Known, Commit
  <2>3. Shown(state) \subseteq DecidedDocuments
    BY <1>2, <1>3, <2>1, <2>2 DEF Shown, InitialRevision
  <2> QED
    BY <1>4, <1>5, <1>6, <1>8, <2>3 DEF Decided, StartFrame, DecidedDocuments, SnapshotAt
<1>17. Stored'
  <2> SUFFICES ASSUME ~halfSaved
               PROVE  /\ Backed(r)' /\ Pair(refs[Accepted], refs[LastKnownGood])'
                      /\ ~next.safeMode =>
                           /\ Reflects(SnapshotAt(Current(r)), next)
                           /\ (r.proposal = NoProposal) <=> (next.proposal = NoRevision)
    BY <1>4, <1>6, <1>8 DEF Stored, StartFrame, Clearing
  <2>1. Backed(r)' /\ Pair(refs[Accepted], refs[LastKnownGood])'
    BY <1>7, <1>8 DEF Backed, Match
  <2>2. ASSUME ~next.safeMode
        PROVE  /\ Reflects(SnapshotAt(Current(r)), next)
               /\ (r.proposal = NoProposal) <=> (next.proposal = NoRevision)
    <3>1. /\ c = Current(r) /\ loaded.snapshot = s /\ ~s.safeMode
          /\ s.proposal.id = r.proposal.revisionId
          /\ ~loaded.recovered
      BY <1>3, <1>5, <2>2 DEF Known, safe
    <3>2. SameProduct(s, state) /\ state.proposal = s.proposal
      BY <1>3, <1>5, <2>2, <3>1 DEF SameProduct
    <3>3. SameProduct(s, next)
      BY <1>5, <3>2 DEF SameProduct
    <3>4. r.proposal.revisionId \in 1..MaxId \/ r.proposal = NoProposal
      BY <1>7 DEF Written
    <3>5. (r.proposal = NoProposal) <=> (s.proposal = NoRevision)
      BY <1>1, <3>1, <3>4 DEF Storable, NoProposal, NoRevision, NoId
    <3> QED
      BY <1>1, <1>5, <3>1, <3>2, <3>3, <3>5 DEF Reflects
  <2> QED
    BY <2>1, <2>2
<1>18. StoredSafe'
  <2> SUFFICES ASSUME next.safeMode, ~inDoubt'
               PROVE  /\ validateShapingSnapshot(s)
                      /\ s = SnapshotAt(Current(r))
                      /\ s.lastKnownGood.document = next.lastKnownGood.document
                      /\ s.disabledExtensions = next.disabledExtensions
                      /\ next.lastEvent.type = "recovery-requested" => s.safeMode
    BY <1>4, <1>6, <1>8 DEF StoredSafe, Clearing, SafeReflects
  <2>1. /\ c = Current(r) /\ loaded.snapshot = s
    BY DEF Known
  <2>2. next = state
    BY <1>5
  <2> QED
    <3>1. /\ validateShapingSnapshot(s) /\ s = SnapshotAt(Current(r))
          /\ s.lastEvent.type = "recovery-requested" => s.safeMode
      BY <1>1, <2>1 DEF SnapshotAt
    <3>2. /\ s.lastKnownGood = next.lastKnownGood
          /\ s.disabledExtensions = next.disabledExtensions
          /\ s.lastEvent = next.lastEvent
      BY <1>3, <2>1, <2>2
    <3> QED
      BY <3>1, <3>2
<1> QED
  BY <1>9, <1>10, <1>11, <1>12, <1>13, <1>14, <1>15, <1>16, <1>17, <1>18

\* What a request may do to the commits: the new ones are as the old ones are.
Committed ==
    /\ repository' \in [commits : Seq(Contents), refs : [Branches -> Nat]]
    /\ \A branch \in Branches : refs'[branch] \in 0..Len(repository'.commits)
    /\ Grows
    /\ \A c \in 1..Len(repository'.commits) :
          Commit(c) \/ (/\ Storable(SnapshotAt(c)') /\ Numbered(SnapshotAt(c)')
                        /\ Shown(SnapshotAt(c)') \subseteq DecidedDocuments')

\* A step that leaves the repository alone only grows it by nothing.
LEMMA NothingCommitted ==
    ASSUME Typed, repository' = repository
    PROVE  Committed
  BY DEF Typed, Committed, Grows, Commit, refs

\* Every commit of a repository that grew can be stored and was decided on.
LEMMA CommittedKeeps ==
    ASSUME Typed, KernelIsSound, Decided, Committed, DecidedDocuments \subseteq DecidedDocuments'
    PROVE  \A c \in 1..Len(repository'.commits) :
              /\ Storable(SnapshotAt(c)') /\ Numbered(SnapshotAt(c)')
              /\ Shown(SnapshotAt(c)') \subseteq DecidedDocuments'
<1> SUFFICES ASSUME NEW c \in 1..Len(repository'.commits), Commit(c)
             PROVE  /\ Storable(SnapshotAt(c)') /\ Numbered(SnapshotAt(c)')
                    /\ Shown(SnapshotAt(c)') \subseteq DecidedDocuments'
  BY DEF Committed
<1>1. SnapshotAt(c)' = SnapshotAt(c)
  BY DEF Committed, Grows, Commit, SnapshotAt
<1>2. Storable(SnapshotAt(c)) /\ Numbered(SnapshotAt(c))
  BY DEF KernelIsSound, Commit
<1>3. Shown(SnapshotAt(c)) \subseteq DecidedDocuments
  BY DEF Decided, Commit
<1> QED
  BY <1>1, <1>2, <1>3

\* A start that could read nothing.
LEMMA StartNothing ==
    ASSUME Inv, StartFrame, Committed, NEW loaded, Nothing(loaded), Start(loaded), inDoubt',
           ~halfSaved /\ (refs[Accepted] # NoCommit)' /\ (refs[LastKnownGood] # NoCommit)' =>
             Pair(refs[Accepted], refs[LastKnownGood])'
    PROVE  Inv'
<1> USE DEF Inv
<1> DEFINE state == initialState(loaded)
<1>1. /\ Sound(state) /\ Storable(state) /\ Numbered(state) /\ Compiled(state)
      /\ state.safeMode /\ ~isPending(state) /\ reconciledState(state) = state
      /\ Shown(state) = {BuiltIn}
  BY NothingStarts
<1>2. /\ kernel' = state /\ idSequence' = state.sequence /\ receipt' = receipt
      /\ receiptRef' = NoReceipt /\ phase' = "on"
      /\ work' = [step |-> "idle", operation |-> "none", next |-> state, authoring |-> NoCommit,
                  commit |-> NoCommit]
  BY <1>1 DEF Start, Nothing, Idle
<1> HIDE DEF state
<1>3. /\ work'.step = "idle" /\ work'.operation = "none" /\ work'.next = state
      /\ work'.authoring = NoCommit /\ work'.commit = NoCommit
  BY <1>2
<1>4. DecidedDocuments' = DecidedDocuments
  BY DEF StartFrame, DecidedDocuments
<1>5. \A c \in 1..Len(repository'.commits) :
         /\ Storable(SnapshotAt(c)') /\ Numbered(SnapshotAt(c)')
         /\ Shown(SnapshotAt(c)') \subseteq DecidedDocuments'
  BY <1>4, CommittedKeeps
<1>6. NoReceipt \in Receipts
  BY DocumentsAssumption, BranchesAre DEF NoReceipt, Receipts, Commits, NoProposal,
     ProposalReceipts,
     Ids, NoCommit
<1>7. receipt # NoReceipt => Written(receipt)' /\ (~halfSaved => Backed(receipt)')
  <2> SUFFICES ASSUME NEW r, r = receipt, r # NoReceipt
               PROVE  Written(r)' /\ (~halfSaved => Backed(r)')
    BY <1>2 DEF Written, Backed
  <2>1. r \in Receipts /\ Written(r) /\ (~halfSaved => Backed(r))
    BY DEF OneReceipt, Stored, Typed, Written, Backed
  <2> QED
    BY <2>1, GrowingKeeps DEF Committed
<1>8. Typed'
  <2>1. work' \in Works
    BY <1>1, <1>2 DEF Works, Steps, Operations, Commits, NoCommit, Sound
  <2>2. idSequence' \in Nat
    BY <1>1, <1>2 DEF Sound, KernelStates
  <2>3. Len(repository'.commits) \in Nat
    BY DEF Committed
  <2> QED
    BY <1>2, <1>3, <1>6, <2>1, <2>2, <2>3 DEF Typed, StartFrame, Committed, NoCommit
<1>9. KernelIsSound'
  BY <1>1, <1>2, <1>3, <1>5 DEF KernelIsSound, Saving
<1>10. OneReceipt'
  BY <1>2, <1>3, <1>7 DEF OneReceipt, Saving, InitSteps, RepairSteps
<1>11. Unread'
  BY <1>1, <1>2, <1>3 DEF Unread, Saving
<1>12. Follows'
  BY <1>3 DEF Follows, Saving
<1>13. Chain'
  BY <1>3 DEF Chain, InitSteps, RepairSteps, Clearing
<1>14. Matches'
  BY <1>2, <1>3 DEF Matches, Clearing
<1>15. Decided'
  <2>1. BuiltIn \in DecidedDocuments
    BY DEF Typed, DecidedDocuments
  <2> QED
    BY <1>1, <1>2, <1>3, <1>4, <1>5, <2>1 DEF Decided
<1>16. Stored'
  BY <1>2, <1>3, <1>7 DEF Stored, StartFrame
<1>17. StoredSafe'
  BY <1>2 DEF StoredSafe
<1> QED
  BY <1>8, <1>9, <1>10, <1>11, <1>12, <1>13, <1>14, <1>15, <1>16, <1>17

-----------------------------------------------------------------------------
(* Finishing.                                                                   *)

\* What stays as it is at the end of a save.
FinishFrame ==
    /\ marker' \in {"absent", "pending", "clear"} /\ faults' \in 0..MaxFaults
    /\ UNCHANGED <<existed, receipt, receiptRef, stops, sources, products>>

\* The receipt keeps its commits and what they say.
LEMMA ReceiptKept ==
    ASSUME Typed, OneReceipt, Committed, receipt' = receipt, receiptRef' = receiptRef
    PROVE  /\ receipt # NoReceipt => Written(receipt)' /\ (Backed(receipt) => Backed(receipt)')
           /\ receiptRef # NoReceipt =>
                /\ receipt = receiptRef /\ Written(receiptRef) /\ Commit(Current(receiptRef))
                /\ Commit(receiptRef.acceptedCommit) /\ Commit(receiptRef.lastKnownGoodCommit)
                /\ SnapshotAt(Current(receiptRef))' = SnapshotAt(Current(receiptRef))
<1>1. ASSUME NEW r, r = receipt, r # NoReceipt PROVE Written(r)' /\ (Backed(r) => Backed(r)')
  <2>1. r \in Receipts /\ Written(r)
    BY <1>1 DEF OneReceipt, Typed, Written
  <2> QED
    BY <2>1, GrowingKeeps DEF Committed
<1>2. ASSUME receipt # NoReceipt PROVE Written(receipt)' /\ (Backed(receipt) => Backed(receipt)')
  <2> SUFFICES ASSUME NEW r, r = receipt
               PROVE  Written(r)' /\ (Backed(r) => Backed(r)')
    BY DEF Written, Backed
  <2> QED
    BY <1>1, <1>2
<1>3. ASSUME receiptRef # NoReceipt
      PROVE  /\ receipt = receiptRef /\ Written(receiptRef) /\ Commit(Current(receiptRef))
             /\ Commit(receiptRef.acceptedCommit) /\ Commit(receiptRef.lastKnownGoodCommit)
             /\ SnapshotAt(Current(receiptRef))' = SnapshotAt(Current(receiptRef))
  <2>1. receipt = receiptRef /\ Written(receiptRef) /\ Commit(Current(receiptRef))
    BY <1>3 DEF OneReceipt, Written, Current, Commit
  <2>2. SnapshotAt(Current(receiptRef))' = SnapshotAt(Current(receiptRef))
    BY <2>1 DEF Committed, Grows, Commit, SnapshotAt, Current
  <2> QED
    BY <2>1, <2>2 DEF Written
<1> QED
  BY <1>2, <1>3

\* What is offered once safe mode has been entered, when nothing is written for it.
LEMMA EnteredReflects ==
    ASSUME Inv, receiptRef # NoReceipt, ~halfSaved, ~inDoubt, work.step \in Clearing,
           work.commit = NoCommit, Saving
    PROVE  SafeReflects(SnapshotAt(Current(receiptRef)), work.next)
<1> USE DEF Inv
<1> DEFINE s == SnapshotAt(Current(receiptRef))
           l == SnapshotAt(receiptRef.lastKnownGoodCommit)
           a == SnapshotAt(receiptRef.acceptedCommit)
<1>1. /\ work.next.safeMode /\ work.next.lastEvent.type = "safe-mode-entered"
      /\ work.next \in KernelStates
  BY DEF Chain, KernelIsSound, Sound
<1>2. work.next.proposal = NoRevision
  BY <1>1 DEF KernelIsSound, Sound, SafeModeIsSound
<1>3. /\ work.next.lastKnownGood = kernel.lastKnownGood
      /\ work.next.disabledExtensions = kernel.disabledExtensions
  BY <1>1, <1>2 DEF Follows
<1>4. CASE kernel.safeMode
  <2>1. SafeReflects(s, kernel)
    BY <1>4 DEF StoredSafe
  <2> QED
    BY <1>1, <1>3, <2>1 DEF SafeReflects
<1>5. CASE ~kernel.safeMode
  <2>1. Reflects(s, kernel) /\ ((receiptRef.proposal = NoProposal) <=> (kernel.proposal = NoRevision))
    BY <1>5 DEF Stored
  <2>2. s.lastKnownGood.document = kernel.lastKnownGood.document
    BY <2>1 DEF Reflects, SameProduct
  <2>3. s.disabledExtensions = kernel.disabledExtensions
    BY <2>1 DEF Reflects, SameProduct
  <2>4. CASE validateShapingSnapshot(s)
    BY <1>1, <1>3, <2>2, <2>3, <2>4 DEF SafeReflects
  <2>5. CASE ExtensionMade(s) /\ kernel.proposal # NoRevision
    <3>1. receipt = receiptRef /\ receiptRef.proposal # NoProposal /\ Backed(receiptRef)
      BY <2>1, <2>5 DEF OneReceipt, Stored, Backed
    <3>2. /\ Plain(receiptRef.acceptedCommit)
          /\ Pair(receiptRef.acceptedCommit, receiptRef.lastKnownGoodCommit)
          /\ s = SnapshotAt(receiptRef.proposal.commit)
          /\ s.lastKnownGood.document = a.lastKnownGood.document
          /\ s.disabledExtensions = a.disabledExtensions
      BY <3>1 DEF Backed, Current
    <3>3. /\ Plain(receiptRef.lastKnownGoodCommit)
          /\ l.active.document = a.lastKnownGood.document
          /\ l.disabledExtensions = a.disabledExtensions
      BY <3>2 DEF Pair
    <3> QED
      BY <1>1, <1>3, <2>2, <2>3, <2>5, <3>2, <3>3 DEF SafeReflects
  <2> QED
    BY <2>1, <2>4, <2>5 DEF Reflects
<1> QED
  BY <1>4, <1>5

\* A save that succeeded.
LEMMA FinishedInv ==
    ASSUME Inv, FinishFrame, repository' = repository, work.step \in Clearing, phase # "off",
           NEW marking \in Entering, FinishedWith(TRUE, marking)
    PROVE  Inv'
<1> USE DEF Inv
<1>1. Saving /\ phase # "loading" /\ receiptRef # NoReceipt
  BY DEF OneReceipt, Saving, Clearing, InitSteps, RepairSteps
<1>2. /\ kernel' = work.next /\ phase' = "on"
      /\ inDoubt' = (inDoubt /\ work.commit = NoCommit) /\ halfSaved' = halfSaved
      /\ entering' \in Entering /\ idSequence' = idSequence /\ existedRef' = existedRef
      /\ work' = [step |-> "idle", operation |-> "none", next |-> work.next,
                  authoring |-> NoCommit, commit |-> NoCommit]
  BY DEF FinishedWith, Idle, Typed, Entering
<1>3. /\ work'.step = "idle" /\ work'.operation = "none" /\ work'.next = work.next
      /\ work'.authoring = NoCommit /\ work'.commit = NoCommit
  BY <1>2
<1>4. /\ Sound(work.next) /\ Storable(work.next) /\ Numbered(work.next)
      /\ Shown(work.next) \subseteq DecidedDocuments
  BY <1>1 DEF KernelIsSound, Writes, Decided, Clearing
<1>5. DecidedDocuments' = DecidedDocuments /\ refs' = refs /\ Committed
  BY NothingCommitted DEF FinishFrame, DecidedDocuments, refs
<1>6. \A c \in 1..Len(repository'.commits) :
         /\ Storable(SnapshotAt(c)') /\ Numbered(SnapshotAt(c)')
         /\ Shown(SnapshotAt(c)') \subseteq DecidedDocuments'
  BY <1>5, CommittedKeeps
<1>7. /\ receipt' = receipt /\ receiptRef' = receiptRef /\ receipt = receiptRef
      /\ Written(receipt)' /\ (Backed(receipt) => Backed(receipt)')
      /\ Commit(Current(receiptRef)) /\ Written(receiptRef)
      /\ SnapshotAt(Current(receiptRef))' = SnapshotAt(Current(receiptRef))
  BY <1>1, <1>5, ReceiptKept DEF FinishFrame
<1>8. Typed'
  <2>1. work' \in Works
    BY <1>2, <1>4 DEF Works, Steps, Operations, Commits, NoCommit, Sound
  <2> QED
    BY <1>2, <1>3, <1>5, <2>1 DEF Typed, FinishFrame, NoCommit
<1>9. KernelIsSound'
  BY <1>2, <1>3, <1>4, <1>6 DEF KernelIsSound, Saving
<1>10. OneReceipt'
  BY <1>1, <1>2, <1>3, <1>7 DEF OneReceipt, Saving, InitSteps, RepairSteps
<1>11. Unread'
  BY <1>1, <1>7 DEF Unread
<1>12. Follows'
  BY <1>3 DEF Follows, Saving
<1>13. Chain'
  BY <1>3 DEF Chain, InitSteps, RepairSteps, Clearing
<1>14. Matches'
  BY <1>1, <1>2, <1>3, <1>5, <1>7 DEF Matches, Clearing, Match
<1>15. Decided'
  BY <1>2, <1>3, <1>4, <1>5, <1>6 DEF Decided
<1>16. Stored'
  <2> SUFFICES ASSUME ~halfSaved
               PROVE  /\ Backed(receipt)'
                      /\ (refs[Accepted] # NoCommit)' /\ (refs[LastKnownGood] # NoCommit)' =>
                           Pair(refs[Accepted], refs[LastKnownGood])'
                      /\ ~work.next.safeMode =>
                           /\ Reflects(SnapshotAt(Current(receiptRef)), work.next)
                           /\ (receiptRef.proposal = NoProposal) <=> (work.next.proposal = NoRevision)
    BY <1>2, <1>3, <1>7 DEF Stored, Clearing
  <2>1. Backed(receipt) /\ Backed(receipt)'
    BY <1>1, <1>7 DEF Stored
  <2>2. refs[Accepted] # NoCommit /\ refs[LastKnownGood] # NoCommit =>
          Pair(refs[Accepted], refs[LastKnownGood])
    <3>1. CASE work.commit = NoCommit
      BY <3>1 DEF Stored
    <3>2. CASE work.commit # NoCommit
      BY <1>7, <2>1, <3>2 DEF Matches, Match, Backed
    <3> QED
      BY <3>1, <3>2
  <2>3. (refs[Accepted] # NoCommit)' /\ (refs[LastKnownGood] # NoCommit)' =>
          Pair(refs[Accepted], refs[LastKnownGood])'
    BY <1>5, <2>2 DEF Pair, Plain, Commit, SnapshotAt
  <2>4. ~work.next.safeMode =>
           /\ Reflects(SnapshotAt(Current(receiptRef)), work.next)
           /\ (receiptRef.proposal = NoProposal) <=> (work.next.proposal = NoRevision)
    BY <1>1 DEF Stored, Chain
  <2> QED
    BY <2>1, <2>3, <2>4
<1>17. StoredSafe'
  <2> SUFFICES ASSUME ~halfSaved, work.next.safeMode, ~inDoubt'
               PROVE  SafeReflects(SnapshotAt(Current(receiptRef)), work.next)
    BY <1>2, <1>3, <1>7 DEF StoredSafe, Clearing, SafeReflects, Plain, Commit, SnapshotAt
  <2>1. CASE work.commit = NoCommit
    BY <1>1, <1>2, <2>1, EnteredReflects
  <2>2. CASE work.commit # NoCommit
    BY <1>1, <2>2 DEF StoredSafe
  <2> QED
    BY <2>1, <2>2
<1> QED
  BY <1>8, <1>9, <1>10, <1>11, <1>12, <1>13, <1>14, <1>15, <1>16, <1>17

\* A save that failed, or was refused.
LEMMA FailedInv ==
    ASSUME Inv, FinishFrame, Committed, Saving, phase # "off",
           NEW marking \in Entering, FinishedWith(FALSE, marking),
           ~halfSaved /\ work.commit = NoCommit /\ (refs[Accepted] # NoCommit)'
             /\ (refs[LastKnownGood] # NoCommit)' => Pair(refs[Accepted], refs[LastKnownGood])'
    PROVE  Inv'
<1> USE DEF Inv
<1> DEFINE next == IF work.operation \in {"enter", "recover", "reconcile"} THEN work.next ELSE kernel
<1>1. /\ kernel' = next /\ phase' = "on" /\ inDoubt' = TRUE
      /\ halfSaved' = (halfSaved \/ work.commit # NoCommit)
      /\ entering' \in Entering /\ idSequence' = idSequence /\ existedRef' = existedRef
      /\ work' = [step |-> "idle", operation |-> "none", next |-> next,
                  authoring |-> NoCommit, commit |-> NoCommit]
  BY DEF FinishedWith, Idle, Typed, Entering
<1>2. /\ work'.step = "idle" /\ work'.operation = "none" /\ work'.next = next
      /\ work'.authoring = NoCommit /\ work'.commit = NoCommit
  BY <1>1
<1>3. phase # "loading" /\ work.step # "idle"
  BY DEF Saving
<1>4. next = kernel \/ (next = work.next /\ next.safeMode /\ work.operation \in {"enter", "recover"})
  BY DEF Follows
<1>5. Sound(next) /\ Storable(next) /\ Numbered(next) /\ Shown(next) \subseteq DecidedDocuments
  <2>1. CASE next = kernel
    BY <2>1 DEF KernelIsSound, Decided
  <2>2. CASE next = work.next /\ work.operation \in {"enter", "recover"}
    BY <2>2 DEF KernelIsSound, Decided, Writes
  <2> QED
    BY <1>4, <2>1, <2>2
<1>6. receiptRef = NoReceipt => Compiled(next) /\ next.safeMode
  BY <1>3, <1>4 DEF Unread, Typed, OneReceipt
<1> HIDE DEF next
<1>7. DecidedDocuments' = DecidedDocuments
  BY DEF FinishFrame, DecidedDocuments
<1>8. \A c \in 1..Len(repository'.commits) :
         /\ Storable(SnapshotAt(c)') /\ Numbered(SnapshotAt(c)')
         /\ Shown(SnapshotAt(c)') \subseteq DecidedDocuments'
  BY <1>7, CommittedKeeps
<1>9. /\ receipt' = receipt /\ receiptRef' = receiptRef
      /\ receipt # NoReceipt => Written(receipt)' /\ (Backed(receipt) => Backed(receipt)')
      /\ receiptRef # NoReceipt =>
           /\ receipt = receiptRef /\ Written(receiptRef) /\ Commit(Current(receiptRef))
           /\ Commit(receiptRef.acceptedCommit) /\ Commit(receiptRef.lastKnownGoodCommit)
           /\ SnapshotAt(Current(receiptRef))' = SnapshotAt(Current(receiptRef))
  BY ReceiptKept DEF FinishFrame
<1>10. Typed'
  <2>1. work' \in Works
    BY <1>1, <1>5 DEF Works, Steps, Operations, Commits, NoCommit, Sound
  <2>2. Len(repository'.commits) \in Nat
    BY DEF Committed
  <2> QED
    BY <1>1, <1>2, <2>1, <2>2 DEF Typed, FinishFrame, Committed, NoCommit
<1>11. KernelIsSound'
  BY <1>1, <1>2, <1>5, <1>8 DEF KernelIsSound, Saving
<1>12. OneReceipt'
  BY <1>1, <1>2, <1>9 DEF OneReceipt, Saving, InitSteps, RepairSteps
<1>13. Unread'
  BY <1>1, <1>2, <1>6, <1>9 DEF Unread, Saving
<1>14. Follows'
  BY <1>2 DEF Follows, Saving
<1>15. Chain'
  BY <1>2 DEF Chain, InitSteps, RepairSteps, Clearing
<1>16. Matches'
  BY <1>1, <1>2 DEF Matches, Clearing
<1>17. Decided'
  BY <1>1, <1>2, <1>5, <1>7, <1>8 DEF Decided
<1>18. Stored'
  <2> SUFFICES ASSUME ~halfSaved, work.commit = NoCommit
               PROVE  /\ receipt # NoReceipt => Backed(receipt)'
                      /\ receiptRef # NoReceipt /\ ~next.safeMode =>
                           /\ Reflects(SnapshotAt(Current(receiptRef)), next)
                           /\ (receiptRef.proposal = NoProposal) <=> (next.proposal = NoRevision)
    BY <1>1, <1>2, <1>9 DEF Stored, Clearing
  <2>1. receipt # NoReceipt => Backed(receipt)'
    BY <1>9 DEF Stored
  <2>2. ASSUME receiptRef # NoReceipt, ~next.safeMode
        PROVE  /\ Reflects(SnapshotAt(Current(receiptRef)), next)
               /\ (receiptRef.proposal = NoProposal) <=> (next.proposal = NoRevision)
    <3>1. next = kernel
      BY <1>4, <2>2
    <3> QED
      BY <2>2, <3>1 DEF Stored, Clearing, Reflects, SameProduct, ExtensionMade
  <2> QED
    BY <2>1, <2>2
<1>19. StoredSafe'
  BY <1>1, <1>2 DEF StoredSafe, Clearing
<1> QED
  BY <1>10, <1>11, <1>12, <1>13, <1>14, <1>15, <1>16, <1>17, <1>18, <1>19

\* A request that was not made good.
LEMMA GivesUpInv ==
    ASSUME Inv, GivesUp, repository' = repository, faults' \in 0..MaxFaults,
           work.step # "idle", phase # "off"
    PROVE  Inv'
<1> USE DEF Inv
<1>1. Committed
  BY NothingCommitted
<1>2. ~halfSaved /\ work.commit = NoCommit /\ (refs[Accepted] # NoCommit)'
        /\ (refs[LastKnownGood] # NoCommit)' => Pair(refs[Accepted], refs[LastKnownGood])'
  BY DEF Stored, Pair, Plain, Commit, SnapshotAt, refs
<1>3. CASE phase = "loading"
  <2> DEFINE loaded == [unknown EXCEPT !.recovery = FALSE]
  <2>1. Nothing(loaded)
    BY DEF Nothing, unknown, Outcome
  <2>2. Start(loaded) /\ inDoubt' = TRUE
    BY <1>3 DEF GivesUp, LoadedNothing
  <2>3. StartFrame
    BY <1>3 DEF GivesUp, StartFrame, Typed
  <2>4. work.step \in InitSteps
    BY <1>3 DEF OneReceipt
  <2>5. CASE work.commit = NoCommit
    BY <1>1, <1>2, <2>1, <2>2, <2>3, <2>5, StartNothing
  <2>6. CASE work.commit # NoCommit
    <3>1. work.step \in {"init-lkg", "init-receipt"}
      BY <2>4, <2>6 DEF Chain, InitSteps
    <3>2. /\ Commit(work.commit) /\ refs[Accepted] = work.commit
          /\ SnapshotAt(work.commit) = initialBuiltInSnapshot
          /\ refs[LastKnownGood] = NoCommit \/ refs[LastKnownGood] = work.commit
      BY <3>1 DEF Chain, InitSteps
    <3>3. refs[LastKnownGood] # NoCommit => Pair(refs[Accepted], refs[LastKnownGood])
      BY <3>2, BuiltInPair DEF Pair, Plain, Commit, SnapshotAt
    <3>4. (refs[Accepted] # NoCommit)' /\ (refs[LastKnownGood] # NoCommit)' =>
            Pair(refs[Accepted], refs[LastKnownGood])'
      BY <3>3 DEF Pair, Plain, Commit, SnapshotAt, refs
    <3> QED
      BY <1>1, <2>1, <2>2, <2>3, <3>4, StartNothing
  <2> QED
    BY <2>5, <2>6
<1>4. CASE phase # "loading"
  <2>1. FinishedWith(FALSE, entering) /\ FinishFrame /\ entering \in Entering
    BY <1>4 DEF GivesUp, Finished, FinishFrame, Typed
  <2>2. Saving
    BY <1>4 DEF Saving
  <2> QED
    BY <1>1, <1>2, <2>1, <2>2, FailedInv
<1> QED
  BY <1>3, <1>4

\* A save that is refused a request gives up: the invariant holds.
LEMMA RefusedInv ==
    ASSUME Inv, GivesUp, UNCHANGED faults \/ Fails, repository' = repository, work.step # "idle",
           phase # "off"
    PROVE  Inv'
<1>1. faults' \in 0..MaxFaults
  BY BoundsAssumption DEF Inv, Typed, Fails
<1> QED
  BY <1>1, GivesUpInv

-----------------------------------------------------------------------------
(* Going on.                                                                    *)

\* A request that is made good, before the last one.
Proceeds ==
    /\ Continues /\ Committed /\ work.step # "idle" /\ phase # "off"
    /\ work' \in Works /\ work'.step # "idle"
    /\ work'.next = work.next /\ work'.operation = work.operation
    /\ work'.authoring \in 0..Len(repository'.commits)
    /\ work'.commit \in 0..Len(repository'.commits)
    /\ marker' = marker /\ faults' = faults
    /\ receipt' \in Receipts /\ receiptRef' \in Receipts
    /\ receiptRef' = NoReceipt => receiptRef = NoReceipt
    /\ products \subseteq products' /\ products' \subseteq Documents \X (0..MaxSource)

\* A save that goes on leaves the kernel and what it is to become alone.
LEMMA ProceedsInv ==
    ASSUME Inv, Proceeds
    PROVE  /\ Typed' /\ KernelIsSound' /\ Unread' /\ Follows'
           /\ DecidedDocuments \subseteq DecidedDocuments'
           /\ Shown(work.next) \subseteq DecidedDocuments => Decided'
<1> USE DEF Inv
<1>1. /\ kernel' = kernel /\ phase' = phase /\ idSequence' = idSequence
      /\ existedRef' = existedRef /\ entering' = entering /\ stops' = stops
      /\ sources' = sources /\ inDoubt' = inDoubt /\ halfSaved' = halfSaved /\ existed' = existed
      /\ work'.next = work.next /\ work'.operation = work.operation
  BY DEF Proceeds, Continues
<1>2. Saving <=> Saving'
  BY <1>1 DEF Saving, Proceeds
<1>3. DecidedDocuments \subseteq DecidedDocuments'
  BY DEF Proceeds, DecidedDocuments
<1>4. \A c \in 1..Len(repository'.commits) :
         /\ Storable(SnapshotAt(c)') /\ Numbered(SnapshotAt(c)')
         /\ Shown(SnapshotAt(c)') \subseteq DecidedDocuments'
  BY <1>3, CommittedKeeps DEF Proceeds
<1>5. Typed'
  <2>1. Len(repository'.commits) \in Nat
    BY DEF Proceeds, Committed
  <2> QED
    BY <1>1, <2>1 DEF Typed, Proceeds, Committed
<1>6. KernelIsSound'
  BY <1>1, <1>2, <1>4 DEF KernelIsSound
<1>7. Unread'
  BY <1>1, <1>2 DEF Unread, Proceeds
<1>8. Follows'
  BY <1>1, <1>2 DEF Follows
<1>9. Shown(work.next) \subseteq DecidedDocuments => Decided'
  BY <1>1, <1>3, <1>4 DEF Decided
<1> QED
  BY <1>3, <1>5, <1>6, <1>7, <1>8, <1>9

\* A request before the receipt is written leaves what was stored in force.
LEMMA StillStored ==
    ASSUME Inv, Proceeds, receipt' = receipt, receiptRef' = receiptRef,
           work.step \notin Clearing, work'.step \notin Clearing,
           ~halfSaved /\ (work.commit = NoCommit)' /\ (refs[Accepted] # NoCommit)'
             /\ (refs[LastKnownGood] # NoCommit)' => Pair(refs[Accepted], refs[LastKnownGood])'
    PROVE  /\ Stored' /\ StoredSafe'
           /\ receipt # NoReceipt => Written(receipt)'
<1> USE DEF Inv
<1>1. /\ kernel' = kernel /\ inDoubt' = inDoubt /\ halfSaved' = halfSaved /\ Committed
  BY DEF Proceeds, Continues
<1>2. /\ receipt # NoReceipt => Written(receipt)' /\ (Backed(receipt) => Backed(receipt)')
      /\ receiptRef # NoReceipt =>
           /\ receipt = receiptRef /\ Written(receiptRef) /\ Commit(Current(receiptRef))
           /\ Commit(receiptRef.acceptedCommit) /\ Commit(receiptRef.lastKnownGoodCommit)
           /\ SnapshotAt(Current(receiptRef))' = SnapshotAt(Current(receiptRef))
  BY <1>1, ReceiptKept
<1>3. Stored'
  BY <1>1, <1>2 DEF Stored
<1>4. StoredSafe'
  <2> SUFFICES ASSUME ~halfSaved, receiptRef # NoReceipt, kernel.safeMode, ~inDoubt
               PROVE  SafeReflects(SnapshotAt(Current(receiptRef)), kernel)'
    BY <1>1 DEF StoredSafe
  <2>1. SafeReflects(SnapshotAt(Current(receiptRef)), kernel)
    BY DEF StoredSafe
  <2>2. /\ SnapshotAt(receiptRef.lastKnownGoodCommit)' = SnapshotAt(receiptRef.lastKnownGoodCommit)
        /\ Plain(receiptRef.lastKnownGoodCommit) => Plain(receiptRef.lastKnownGoodCommit)'
    BY <1>1, <1>2 DEF Committed, Grows, Plain, Commit, SnapshotAt
  <2> QED
    BY <1>1, <1>2, <2>1, <2>2 DEF SafeReflects
<1> QED
  BY <1>2, <1>3, <1>4

\* The initial snapshot is what a repair starts from.
LEMMA BaseIs ==
    ASSUME Inv, Saving, receiptRef = NoReceipt
    PROVE  base = initialBuiltInSnapshot
<1>1. work.next.active.id = BuiltInId
  BY DEF Inv, Unread, SameProduct, initialBuiltInSnapshot, InitialRevision
<1>2. snapshotFromState(work.next).active = work.next.active
  BY DEF snapshotFromState
<1> QED
  BY <1>1, <1>2 DEF base, baseSnapshotFor

-----------------------------------------------------------------------------
(* The first save of a repository, and the repair of one without a receipt.     *)

\* The commits are a sequence, and every ref is one of them or nothing.
LEMMA RepositoryTyped ==
    ASSUME Typed
    PROVE  /\ repository.commits \in Seq(Contents) /\ Len(repository.commits) \in Nat
           /\ \A branch \in Branches : refs[branch] \in 0..Len(repository.commits)
           /\ repository.commits = <<>> <=> Len(repository.commits) = 0
  BY DEF Typed

\* Storing the compiled interface in a new repository.
LEMMA InitCheckpointInv ==
    ASSUME Inv, initCheckpoint
    PROVE  Inv'
<1> USE DEF Inv
<1> DEFINE content == [snapshot |-> initialBuiltInSnapshot, source |-> 0]
<1>1. work.step = "init" /\ phase # "off" /\ receiptRef = NoReceipt /\ work.commit = NoCommit
  BY DEF initCheckpoint, At, OneReceipt, Chain, InitSteps, RepairSteps
<1>2. (IF phase = "loading" THEN initialBuiltInSnapshot ELSE base) = initialBuiltInSnapshot
  BY <1>1, BaseIs DEF Saving
<1>3. \/ Inv'
      \/ /\ canCheckpoint(repository, Accepted, NoCommit, NoCommit, {})
         /\ Checkpoint(Accepted, content, "init-lkg")
         /\ Continues /\ UNCHANGED <<marker, receipt, receiptRef, products, faults>>
  BY <1>1, <1>2, RefusedInv DEF initCheckpoint, Request, GivesUp
<1> SUFFICES ASSUME canCheckpoint(repository, Accepted, NoCommit, NoCommit, {}),
                    Checkpoint(Accepted, content, "init-lkg"), Continues,
                    UNCHANGED <<marker, receipt, receiptRef, products, faults>>
             PROVE  Inv'
  BY <1>3
<1>4. repository.commits = <<>> /\ Len(repository.commits) = 0
  BY DEF canCheckpoint
<1>5. content \in Contents /\ content.snapshot = initialBuiltInSnapshot
  BY BuiltInIs, BoundsAssumption DEF Contents
<1> HIDE DEF content
<1>6. /\ repository' \in [commits : Seq(Contents), refs : [Branches -> Nat]]
      /\ Len(repository'.commits) = 1
      /\ repository'.commits[1] = content
      /\ \A other \in Branches \ {Accepted} : refs'[other] = refs[other]
      /\ refs'[Accepted] = 1
      /\ \A other \in Branches : refs'[other] \in 0..Len(repository'.commits)
  <2>1. repository' = checkpointed(repository, Accepted, content)
    BY DEF Checkpoint
  <2>2. /\ repository' \in [commits : Seq(Contents), refs : [Branches -> Nat]]
        /\ Len(repository'.commits) = Len(repository.commits) + 1
        /\ repository'.commits[Len(repository.commits) + 1] = content
        /\ \A other \in Branches \ {Accepted} : refs'[other] = refs[other]
        /\ refs'[Accepted] = Len(repository.commits) + 1
        /\ \A other \in Branches : refs'[other] \in 0..Len(repository'.commits)
    BY <1>5, <2>1, Appended, BranchesAre
  <2>3. Len(repository.commits) + 1 = 1
    BY <1>4
  <2> QED
    BY <2>2, <2>3
<1>7. Committed
  <2>1. BuiltIn \in DecidedDocuments'
    BY DEF Typed, DecidedDocuments
  <2>2. \A c \in 1..Len(repository'.commits) : SnapshotAt(c)' = initialBuiltInSnapshot
    BY <1>5, <1>6 DEF SnapshotAt
  <2> QED
    BY <1>4, <1>6, <2>1, <2>2, BuiltInIs DEF Committed, Grows
<1>8. work' = [work EXCEPT !.step = "init-lkg", !.commit = 1]
  BY <1>6 DEF Checkpoint
<1>9. /\ work' \in Works /\ work'.step = "init-lkg" /\ work'.next = work.next
      /\ work'.operation = work.operation /\ work'.authoring = work.authoring
      /\ work'.commit = 1
  BY <1>8 DEF Typed, Works, Steps, Commits
<1>10. Proceeds
  BY <1>1, <1>4, <1>6, <1>7, <1>9 DEF Proceeds, Typed
<1>11. Typed' /\ KernelIsSound' /\ Unread' /\ Follows'
  BY <1>10, ProceedsInv
<1>12. Decided'
  BY <1>1, <1>10, ProceedsInv DEF Decided
<1>13. Stored' /\ StoredSafe' /\ (receipt # NoReceipt => Written(receipt)')
  BY <1>1, <1>9, <1>10, StillStored DEF Clearing, NoCommit
<1>14. OneReceipt'
  BY <1>1, <1>9, <1>13 DEF OneReceipt, Saving, InitSteps, RepairSteps, Continues
<1>15. Chain'
  <2>1. refs'[LastKnownGood] = NoCommit
    BY <1>4, <1>6, RepositoryTyped, BranchesAre DEF NoCommit
  <2> QED
    BY <1>5, <1>6, <1>9, <2>1 DEF Chain, Commit, SnapshotAt, InitSteps, RepairSteps, Clearing
<1>16. Matches'
  BY <1>9 DEF Matches, Clearing
<1> QED
  BY <1>11, <1>12, <1>13, <1>14, <1>15, <1>16

\* The same, cut after its commit.
LEMMA InitTornInv ==
    ASSUME Inv, initTorn
    PROVE  Inv'
<1> USE DEF Inv
<1> DEFINE content == [snapshot |-> initialBuiltInSnapshot, source |-> 0]
<1>1. /\ work.step = "init" /\ phase # "off" /\ receiptRef = NoReceipt /\ work.commit = NoCommit
      /\ repository.commits = <<>> /\ faults' \in 0..MaxFaults
  BY BoundsAssumption DEF initTorn, At, OneReceipt, Chain, InitSteps, RepairSteps, Fails, Typed
<1>2. content \in Contents /\ content.snapshot = initialBuiltInSnapshot
  BY BuiltInIs, BoundsAssumption DEF Contents
<1>3. repository' = [repository EXCEPT !.commits = <<content>>]
  BY DEF initTorn
<1> HIDE DEF content
<1>4. /\ repository' \in [commits : Seq(Contents), refs : [Branches -> Nat]]
      /\ repository'.commits = <<content>> /\ refs' = refs
  <2>1. repository' = [commits |-> <<content>>, refs |-> repository.refs]
    BY <1>3 DEF Typed
  <2>2. <<content>> \in Seq(Contents)
    BY <1>2
  <2> QED
    BY <2>1, <2>2 DEF Typed, refs
<1>5. Len(repository'.commits) = 1 /\ repository'.commits[1] = content
  BY <1>4
<1>6. /\ Len(repository.commits) = 0
      /\ \A branch \in Branches : refs'[branch] = 0
  BY <1>1, <1>4, RepositoryTyped
<1>7. Committed
  <2>1. BuiltIn \in DecidedDocuments'
    BY DEF Typed, DecidedDocuments, initTorn
  <2>2. \A c \in 1..Len(repository'.commits) : SnapshotAt(c)' = initialBuiltInSnapshot
    BY <1>2, <1>5 DEF SnapshotAt
  <2> QED
    BY <1>4, <1>5, <1>6, <2>1, <2>2, BuiltInIs DEF Committed, Grows
<1>8. (refs[Accepted] = NoCommit)'
  BY <1>6, BranchesAre DEF NoCommit
<1>9. CASE phase = "loading"
  <2> DEFINE loaded == [unknown EXCEPT !.recovery = FALSE]
  <2>1. Nothing(loaded)
    BY DEF Nothing, unknown, Outcome
  <2>2. Start(loaded) /\ inDoubt' = TRUE
    BY <1>9 DEF initTorn, LoadedNothing
  <2>3. StartFrame
    BY <1>1, <1>9 DEF initTorn, StartFrame, Typed
  <2> QED
    BY <1>7, <1>8, <2>1, <2>2, <2>3, StartNothing
<1>10. CASE phase # "loading"
  <2>1. FinishedWith(FALSE, entering) /\ FinishFrame /\ entering \in Entering
    BY <1>1, <1>10 DEF initTorn, Finished, FinishFrame, Typed
  <2>2. Saving
    BY <1>1, <1>10 DEF Saving
  <2> QED
    BY <1>1, <1>7, <1>8, <2>1, <2>2, FailedInv
<1> QED
  BY <1>9, <1>10

\* What every moved ref leaves as it is.
LEMMA MovedCommits ==
    ASSUME Typed, NEW branch \in Branches, NEW target \in 1..Len(repository.commits),
           repository' = refMoved(repository, branch, target)
    PROVE  /\ Committed /\ repository'.commits = repository.commits
           /\ Len(repository'.commits) = Len(repository.commits)
           /\ \A c : Commit(c)' = Commit(c) /\ SnapshotAt(c)' = SnapshotAt(c)
           /\ \A other \in Branches \ {branch} : refs'[other] = refs[other]
           /\ refs'[branch] = target
<1>1. /\ repository' \in [commits : Seq(Contents), refs : [Branches -> Nat]]
      /\ repository'.commits = repository.commits
      /\ \A other \in Branches \ {branch} : refs'[other] = refs[other]
      /\ refs'[branch] = target
      /\ \A other \in Branches : refs'[other] \in 0..Len(repository'.commits)
  BY Moved
<1>2. Len(repository.commits) \in Nat
  BY RepositoryTyped
<1>3. \A c : Commit(c)' = Commit(c) /\ SnapshotAt(c)' = SnapshotAt(c)
  BY <1>1 DEF Commit, SnapshotAt
<1>4. Committed
  BY <1>1, <1>2 DEF Committed, Grows, Commit
<1> QED
  BY <1>1, <1>3, <1>4

\* Pointing the last known good at it.
LEMMA InitMoveInv ==
    ASSUME Inv, initMoveLastKnownGood
    PROVE  Inv'
<1> USE DEF Inv
<1>1. /\ work.step = "init-lkg" /\ phase # "off" /\ receiptRef = NoReceipt
      /\ Commit(work.commit) /\ refs[Accepted] = work.commit
      /\ SnapshotAt(work.commit) = initialBuiltInSnapshot
  BY DEF initMoveLastKnownGood, At, OneReceipt, Chain, InitSteps, RepairSteps
<1>2. \/ Inv'
      \/ /\ repository' = refMoved(repository, LastKnownGood, work.commit)
         /\ work' = [work EXCEPT !.step = "init-receipt"]
         /\ Continues /\ UNCHANGED <<marker, receipt, receiptRef, products, faults>>
  BY <1>1, RefusedInv DEF initMoveLastKnownGood, Request, GivesUp
<1> SUFFICES ASSUME repository' = refMoved(repository, LastKnownGood, work.commit),
                    work' = [work EXCEPT !.step = "init-receipt"], Continues,
                    UNCHANGED <<marker, receipt, receiptRef, products, faults>>
             PROVE  Inv'
  BY <1>2
<1>3. /\ Committed /\ Len(repository'.commits) = Len(repository.commits)
      /\ \A c : Commit(c)' = Commit(c) /\ SnapshotAt(c)' = SnapshotAt(c)
      /\ \A other \in Branches \ {LastKnownGood} : refs'[other] = refs[other]
      /\ refs'[LastKnownGood] = work.commit
  BY <1>1, MovedCommits, BranchesAre DEF Commit
<1>4. /\ work' \in Works /\ work'.step = "init-receipt" /\ work'.next = work.next
      /\ work'.operation = work.operation /\ work'.authoring = work.authoring
      /\ work'.commit = work.commit
  BY DEF Typed, Works, Steps
<1>5. Proceeds
  BY <1>1, <1>3, <1>4 DEF Proceeds, Typed
<1>6. Typed' /\ KernelIsSound' /\ Unread' /\ Follows'
  BY <1>5, ProceedsInv
<1>7. Decided'
  BY <1>1, <1>5, ProceedsInv DEF Decided
<1>8. Stored' /\ StoredSafe' /\ (receipt # NoReceipt => Written(receipt)')
  BY <1>1, <1>4, <1>5, StillStored DEF Clearing, NoCommit, Commit
<1>9. OneReceipt'
  BY <1>1, <1>4, <1>8 DEF OneReceipt, Saving, InitSteps, RepairSteps, Continues
<1>10. Chain'
  BY <1>1, <1>3, <1>4, BranchesAre DEF Chain, Commit, SnapshotAt, InitSteps, RepairSteps, Clearing
<1>11. Matches'
  BY <1>4 DEF Matches, Clearing
<1> QED
  BY <1>6, <1>7, <1>8, <1>9, <1>10, <1>11

\* The receipt of a repository that was just initialized or repaired.
LEMMA FirstReceipt ==
    ASSUME Typed, NEW c, Commit(c), SnapshotAt(c) = initialBuiltInSnapshot,
           refs[Accepted] = c, refs[LastKnownGood] = c
    PROVE  LET r == [acceptedCommit |-> c, lastKnownGoodCommit |-> c, proposal |-> NoProposal]
           IN  /\ r \in Receipts /\ Written(r) /\ Backed(r) /\ Match(r) /\ Current(r) = c
               /\ r # NoReceipt /\ r.proposal = NoProposal
<1> DEFINE r == [acceptedCommit |-> c, lastKnownGoodCommit |-> c, proposal |-> NoProposal]
<1>1. /\ r.acceptedCommit = c /\ r.lastKnownGoodCommit = c /\ r.proposal = NoProposal
  OBVIOUS
<1>2. r \in Receipts
  BY BranchesAre, RepositoryTyped DEF Receipts, Commit, Commits, NoProposal, ProposalReceipts,
     Ids, NoCommit
<1> HIDE DEF r
<1>3. Pair(c, c)
  BY BuiltInPair
<1>4. Written(r) /\ Backed(r) /\ Match(r) /\ Current(r) = c
  BY <1>1, <1>3 DEF Written, Backed, Pair, Plain, Commit, SnapshotAt, Match, Current
<1>5. r # NoReceipt
  BY <1>4, WrittenIs
<1> QED
  BY <1>1, <1>2, <1>4, <1>5 DEF r

\* A receipt is written for a save that goes on.
LEMMA FirstReceiptInv ==
    ASSUME Inv, Continues, UNCHANGED <<repository, marker, products, faults>>, Saving, phase # "off",
           work.step \in {"init-receipt", "repair-receipt"}, NEW step \in {"status", "done", "clear"},
           NEW r,
           r = [acceptedCommit |-> work.commit, lastKnownGoodCommit |-> work.commit,
                proposal |-> NoProposal],
           receipt' = r, receiptRef' = r, work' = [work EXCEPT !.step = step]
    PROVE  Inv'
<1> USE DEF Inv
<1>1. /\ receiptRef = NoReceipt /\ Commit(work.commit)
      /\ refs[Accepted] = work.commit /\ refs[LastKnownGood] = work.commit
      /\ SnapshotAt(work.commit) = initialBuiltInSnapshot
  BY DEF OneReceipt, Chain, InitSteps, RepairSteps
<1>2. /\ r \in Receipts /\ Written(r) /\ Backed(r) /\ Match(r) /\ Current(r) = work.commit
      /\ r # NoReceipt /\ r.proposal = NoProposal
  <2> SUFFICES ASSUME NEW c, c = work.commit
               PROVE  /\ r \in Receipts /\ Written(r) /\ Backed(r) /\ Match(r) /\ Current(r) = c
                      /\ r # NoReceipt /\ r.proposal = NoProposal
    OBVIOUS
  <2>1. Commit(c) /\ SnapshotAt(c) = initialBuiltInSnapshot
    BY <1>1 DEF Commit, SnapshotAt
  <2> QED
    BY <1>1, <2>1, FirstReceipt
<1>3. /\ Written(r)' /\ Backed(r)' /\ Match(r)' /\ refs' = refs
      /\ SnapshotAt(work.commit)' = SnapshotAt(work.commit) /\ Committed
  <2>1. work'.commit = work.commit
    BY DEF Typed, Works
  <2> QED
    BY <1>2, <2>1, NothingCommitted DEF Written, Backed, Pair, Plain, Commit, SnapshotAt, Match,
       refs
<1>4. /\ work' \in Works /\ work'.step = step /\ work'.next = work.next
      /\ work'.operation = work.operation /\ work'.authoring = work.authoring
      /\ work'.commit = work.commit
  BY DEF Typed, Works, Steps
<1>5. Proceeds
  BY <1>2, <1>3, <1>4 DEF Proceeds, Typed
<1>6. Typed' /\ KernelIsSound' /\ Unread' /\ Follows'
  BY <1>5, ProceedsInv
<1>7. Decided'
  BY <1>5, ProceedsInv DEF Decided
<1>8. kernel.safeMode /\ inDoubt /\ kernel' = kernel /\ inDoubt' = inDoubt /\ halfSaved' = halfSaved
  BY <1>1 DEF Unread, Saving, Typed, Continues
<1>9. OneReceipt'
  BY <1>2, <1>3, <1>4 DEF OneReceipt, Saving, InitSteps, RepairSteps, Continues
<1>10. work.commit # NoCommit
  BY <1>1 DEF Commit, NoCommit
<1>11. Chain'
  BY <1>4, <1>8, <1>10 DEF Chain, InitSteps, RepairSteps, Clearing
<1>12. Matches'
  BY <1>2, <1>3, <1>4, <1>8 DEF Matches, Clearing, Match
<1>13. /\ SnapshotAt(Current(r)) = initialBuiltInSnapshot
       /\ SameProduct(initialBuiltInSnapshot, work.next)
       /\ work.next.proposal = NoRevision /\ work.next.lastEvent.type # "recovery-requested"
       /\ SnapshotAt(Current(r))' = initialBuiltInSnapshot
  BY <1>1, <1>2, <1>3 DEF Unread, SnapshotAt
<1>14. Stored'
  <2>1. Reflects(initialBuiltInSnapshot, work.next) \/ work.next.safeMode
    BY <1>13, BuiltInIs DEF Reflects
  <2> QED
    BY <1>2, <1>3, <1>4, <1>8, <1>10, <1>13, <2>1 DEF Stored
<1>15. StoredSafe'
  <2> DEFINE s == initialBuiltInSnapshot
  <2>1. /\ validateShapingSnapshot(s) /\ s.lastKnownGood.document = work.next.lastKnownGood.document
        /\ s.disabledExtensions = work.next.disabledExtensions
    BY <1>13, BuiltInIs DEF SameProduct
  <2> HIDE DEF s
  <2>2. SnapshotAt(Current(r))' = s
    BY <1>13 DEF s
  <2> QED
    BY <1>4, <1>8, <1>13, <2>1, <2>2 DEF StoredSafe, SafeReflects
<1> QED
  BY <1>6, <1>7, <1>9, <1>11, <1>12, <1>14, <1>15

\* Writing the first receipt: the kernel starts, or the save that repairs goes on.
LEMMA InitReceiptInv ==
    ASSUME Inv, NEW safeMode \in SafeStarts, initReceipt(safeMode)
    PROVE  Inv'
<1> USE DEF Inv
<1> DEFINE initial == [acceptedCommit |-> work.commit, lastKnownGoodCommit |-> work.commit,
                       proposal |-> NoProposal]
<1>1. /\ work.step = "init-receipt" /\ phase # "off" /\ receiptRef = NoReceipt
      /\ Commit(work.commit) /\ refs[Accepted] = work.commit
      /\ refs[LastKnownGood] = work.commit
      /\ SnapshotAt(work.commit) = initialBuiltInSnapshot /\ safeMode \in BOOLEAN
  BY SafeStartsAssumption DEF initReceipt, At, OneReceipt, Chain, InitSteps, RepairSteps
<1>2. CASE phase = "loading"
  <2> DEFINE loaded == Outcome(IF safeMode THEN safeRecoverySnapshot(initialBuiltInSnapshot)
                                           ELSE initialBuiltInSnapshot,
                               safeMode, initial, initial)
  <2>1. \/ Inv'
        \/ /\ Start(loaded) /\ inDoubt' = safeMode
           /\ UNCHANGED <<existed, repository, marker, existedRef, entering, stops, sources,
                          products, halfSaved, faults>>
    BY <1>1, <1>2, RefusedInv DEF initReceipt, Request, GivesUp
  <2> SUFFICES ASSUME Start(loaded), inDoubt' = safeMode,
                      UNCHANGED <<existed, repository, marker, existedRef, entering, stops, sources,
                                  products, halfSaved, faults>>
               PROVE  Inv'
    BY <2>1
  <2>2. StartFrame
    BY <1>1 DEF StartFrame, Typed
  <2> SUFFICES ASSUME NEW c, c = work.commit, NEW r, r = initial
               PROVE  Inv'
    OBVIOUS
  <2>3. Commit(c) /\ SnapshotAt(c) = initialBuiltInSnapshot
    BY <1>1 DEF Commit, SnapshotAt
  <2>4. /\ r \in Receipts /\ Written(r) /\ Backed(r) /\ Match(r) /\ Current(r) = c
        /\ r # NoReceipt /\ r.proposal = NoProposal
    BY <1>1, <2>3, FirstReceipt
  <2>5. /\ loaded.receipt = r /\ loaded.receiptRef = r /\ loaded.recovered = safeMode
        /\ loaded.recovery \in BOOLEAN
        /\ loaded.snapshot = IF safeMode THEN safeRecoverySnapshot(initialBuiltInSnapshot)
                                         ELSE initialBuiltInSnapshot
    BY DEF Outcome
  <2>6. initialBuiltInSnapshot.proposal.id = r.proposal.revisionId
    BY <2>4, BuiltInIs DEF NoRevision, NoProposal
  <2> HIDE DEF loaded
  <2>7. Known(loaded, r, c)
    BY <1>1, <2>3, <2>4, <2>5, <2>6, BuiltInIs DEF Known
  <2> QED
    BY <2>2, <2>4, <2>5, <2>7, StartKnown
<1>3. CASE phase # "loading"
  <2>1. \/ Inv'
        \/ /\ receipt' = initial /\ receiptRef' = initial
           /\ work' = [work EXCEPT !.step = FirstStep(work.next)]
           /\ Continues /\ UNCHANGED <<repository, marker, products, faults>>
    BY <1>1, <1>3, RefusedInv DEF initReceipt, Request, GivesUp
  <2> SUFFICES ASSUME receipt' = initial, receiptRef' = initial,
                      work' = [work EXCEPT !.step = FirstStep(work.next)],
                      Continues, UNCHANGED <<repository, marker, products, faults>>
               PROVE  Inv'
    BY <2>1
  <2> SUFFICES ASSUME NEW r, r = initial, NEW step, step = FirstStep(work.next)
               PROVE  Inv'
    OBVIOUS
  <2>2. step \in {"status", "done", "clear"} /\ Saving
    BY <1>1, <1>3 DEF FirstStep, Saving
  <2> QED
    BY <1>1, <2>2, FirstReceiptInv
<1> QED
  BY <1>2, <1>3

\* What a checkpoint leaves as it is, and what it adds.
LEMMA CheckpointCommits ==
    ASSUME Typed, NEW branch \in Branches, NEW content \in Contents,
           repository' = checkpointed(repository, branch, content),
           NEW n, n = Len(repository.commits) + 1,
           Storable(content.snapshot), Numbered(content.snapshot),
           Shown(content.snapshot) \subseteq DecidedDocuments'
    PROVE  /\ Committed /\ n \in Nat /\ n # NoCommit /\ Len(repository'.commits) = n
           /\ SnapshotAt(n)' = content.snapshot /\ Commit(n)'
           /\ \A c \in 0..Len(repository.commits) : c \in 0..n
           /\ \A other \in Branches \ {branch} : refs'[other] = refs[other]
           /\ refs'[branch] = n
<1>1. /\ repository' \in [commits : Seq(Contents), refs : [Branches -> Nat]]
      /\ Len(repository'.commits) = n
      /\ \A c \in 1..Len(repository.commits) : repository'.commits[c] = repository.commits[c]
      /\ repository'.commits[n] = content
      /\ \A other \in Branches \ {branch} : refs'[other] = refs[other]
      /\ refs'[branch] = n
      /\ \A other \in Branches : refs'[other] \in 0..Len(repository'.commits)
  BY Appended
<1>2. Len(repository.commits) \in Nat /\ n \in Nat /\ n # NoCommit
  BY RepositoryTyped DEF NoCommit
<1>3. SnapshotAt(n)' = content.snapshot /\ Commit(n)'
  BY <1>1, <1>2 DEF SnapshotAt, Commit, NoCommit
<1>4. Committed
  <2>1. \A c \in 1..Len(repository'.commits) : Commit(c) \/ c = n
    BY <1>1, <1>2 DEF Commit
  <2>2. Grows
    BY <1>1, <1>2 DEF Grows
  <2>3. \A c \in 1..Len(repository'.commits) :
          Commit(c) \/ (/\ Storable(SnapshotAt(c)') /\ Numbered(SnapshotAt(c)')
                        /\ Shown(SnapshotAt(c)') \subseteq DecidedDocuments')
    BY <1>3, <2>1
  <2> QED
    BY <1>1, <2>2, <2>3 DEF Committed
<1> QED
  BY <1>1, <1>2, <1>3, <1>4

\* The repair of a repository without a receipt stores the compiled interface again.
LEMMA RepairInv ==
    ASSUME Inv, repair
    PROVE  Inv'
<1> USE DEF Inv
<1> DEFINE content == [snapshot |-> base, source |-> contentAt(refs[Accepted]).source]
<1>1. /\ work.step = "repair" /\ phase # "off" /\ receiptRef = NoReceipt /\ work.commit = NoCommit
      /\ Saving
  BY DEF repair, At, OneReceipt, Chain, InitSteps, RepairSteps, Saving
<1>2. base = initialBuiltInSnapshot
  BY <1>1, BaseIs
<1>3. CASE existedRef /\ refs[Accepted] # NoCommit
  <2>1. \/ Inv'
        \/ /\ repository' = checkpointed(repository, Accepted, content)
           /\ work' = [work EXCEPT !.step = "repair-lkg", !.commit = Len(repository'.commits),
                                   !.authoring = refs[Authoring]]
           /\ Continues /\ UNCHANGED <<marker, receipt, receiptRef, products, faults>>
    BY <1>1, <1>3, RefusedInv DEF repair, Request, GivesUp
  <2> SUFFICES ASSUME repository' = checkpointed(repository, Accepted, content),
                      work' = [work EXCEPT !.step = "repair-lkg", !.commit = Len(repository'.commits),
                                           !.authoring = refs[Authoring]],
                      Continues, UNCHANGED <<marker, receipt, receiptRef, products, faults>>
               PROVE  Inv'
    BY <2>1
  <2>2. content \in Contents /\ content.snapshot = initialBuiltInSnapshot
    <3> SUFFICES ASSUME NEW c, c = refs[Accepted]
                 PROVE  content \in Contents /\ content.snapshot = initialBuiltInSnapshot
      OBVIOUS
    <3>1. Commit(c)
      BY <1>3, RepositoryTyped, BranchesAre DEF Commit, NoCommit
    <3>2. contentAt(c).source \in 0..MaxSource
      BY <3>1, CommitIs
    <3> QED
      BY <1>2, <3>2, BuiltInIs DEF Contents, contentAt
  <2> HIDE DEF content
  <2> SUFFICES ASSUME NEW n, n = Len(repository.commits) + 1
               PROVE  Inv'
    OBVIOUS
  <2>3. BuiltIn \in DecidedDocuments'
    BY DEF Typed, DecidedDocuments
  <2>4. /\ Committed /\ n \in Nat /\ n # NoCommit /\ Len(repository'.commits) = n
        /\ SnapshotAt(n)' = initialBuiltInSnapshot /\ Commit(n)'
        /\ \A c \in 0..Len(repository.commits) : c \in 0..n
        /\ \A other \in Branches \ {Accepted} : refs'[other] = refs[other]
        /\ refs'[Accepted] = n
    BY <2>2, <2>3, BuiltInIs, CheckpointCommits, BranchesAre
  <2>5. refs[Authoring] \in Nat /\ refs[Authoring] \in 0..n
    BY <2>4, RepositoryTyped, BranchesAre
  <2>6. work' = [work EXCEPT !.step = "repair-lkg", !.commit = n, !.authoring = refs[Authoring]]
    BY <2>4
  <2>7. /\ work' \in Works /\ work'.step = "repair-lkg" /\ work'.next = work.next
        /\ work'.operation = work.operation /\ work'.authoring = refs[Authoring]
        /\ work'.commit = n
    BY <2>4, <2>5, <2>6 DEF Typed, Works, Steps, Commits
  <2>9. Proceeds
    BY <1>1, <2>4, <2>5, <2>7 DEF Proceeds, Typed
  <2>10. Typed' /\ KernelIsSound' /\ Unread' /\ Follows'
    BY <2>9, ProceedsInv
  <2>11. Decided'
    BY <1>1, <2>9, ProceedsInv DEF Decided
  <2>12. Stored' /\ StoredSafe' /\ (receipt # NoReceipt => Written(receipt)')
    BY <1>1, <2>4, <2>7, <2>9, StillStored DEF Clearing, NoCommit
  <2>13. OneReceipt'
    BY <1>1, <2>7, <2>12 DEF OneReceipt, Saving, InitSteps, RepairSteps, Continues
  <2>14. Chain'
    <3>1. /\ Commit(work.commit)' /\ (refs[Accepted] = work.commit)'
          /\ (SnapshotAt(work.commit) = initialBuiltInSnapshot)'
      BY <2>4, <2>7 DEF Commit, SnapshotAt
    <3> QED
      BY <2>7, <3>1 DEF Chain, InitSteps, RepairSteps, Clearing
  <2>15. Matches'
    BY <2>7 DEF Matches, Clearing
  <2> QED
    BY <2>10, <2>11, <2>12, <2>13, <2>14, <2>15
<1>4. CASE ~(existedRef /\ refs[Accepted] # NoCommit)
  <2>1. /\ work' = [work EXCEPT !.step = "init"] /\ Continues
        /\ UNCHANGED <<repository, marker, receipt, receiptRef, faults, products>>
    BY <1>4 DEF repair
  <2>2. Committed
    BY <2>1, NothingCommitted
  <2>3. /\ work' \in Works /\ work'.step = "init" /\ work'.next = work.next
        /\ work'.operation = work.operation /\ work'.authoring = work.authoring
        /\ work'.commit = NoCommit
    BY <1>1, <2>1 DEF Typed, Works, Steps
  <2>4. Proceeds
    BY <1>1, <2>1, <2>2, <2>3 DEF Proceeds, Typed
  <2>5. Typed' /\ KernelIsSound' /\ Unread' /\ Follows'
    BY <2>4, ProceedsInv
  <2>6. Decided'
    BY <1>1, <2>4, ProceedsInv DEF Decided
  <2>7. Stored' /\ StoredSafe' /\ (receipt # NoReceipt => Written(receipt)')
    <3>1. ~halfSaved /\ (refs[Accepted] # NoCommit)' /\ (refs[LastKnownGood] # NoCommit)' =>
            Pair(refs[Accepted], refs[LastKnownGood])'
      BY <1>1, <2>1 DEF Stored, Pair, Plain, Commit, SnapshotAt, refs
    <3> QED
      BY <1>1, <2>1, <2>3, <2>4, <3>1, StillStored DEF Clearing
  <2>8. OneReceipt'
    BY <1>1, <2>1, <2>3, <2>7 DEF OneReceipt, Saving, InitSteps, RepairSteps, Continues
  <2>9. Chain'
    BY <2>3 DEF Chain, InitSteps, RepairSteps, Clearing
  <2>10. Matches'
    BY <2>3 DEF Matches, Clearing
  <2> QED
    BY <2>5, <2>6, <2>7, <2>8, <2>9, <2>10
<1> QED
  BY <1>3, <1>4

\* It points the last known good at it,
LEMMA RepairMoveInv ==
    ASSUME Inv, repairLastKnownGood
    PROVE  Inv'
<1> USE DEF Inv
<1> DEFINE step == IF work.authoring = NoCommit THEN "repair-receipt" ELSE "repair-authoring"
<1>1. /\ work.step = "repair-lkg" /\ phase # "off" /\ receiptRef = NoReceipt
      /\ Commit(work.commit) /\ refs[Accepted] = work.commit
      /\ SnapshotAt(work.commit) = initialBuiltInSnapshot
  BY DEF repairLastKnownGood, At, OneReceipt, Chain, InitSteps, RepairSteps
<1>2. \/ Inv'
      \/ /\ repository' = refMoved(repository, LastKnownGood, work.commit)
         /\ work' = [work EXCEPT !.step = step]
         /\ Continues /\ UNCHANGED <<marker, receipt, receiptRef, products, faults>>
  BY <1>1, RefusedInv DEF repairLastKnownGood, Request, GivesUp
<1> SUFFICES ASSUME repository' = refMoved(repository, LastKnownGood, work.commit),
                    work' = [work EXCEPT !.step = step], Continues,
                    UNCHANGED <<marker, receipt, receiptRef, products, faults>>
             PROVE  Inv'
  BY <1>2
<1>3. /\ Committed /\ Len(repository'.commits) = Len(repository.commits)
      /\ \A c : Commit(c)' = Commit(c) /\ SnapshotAt(c)' = SnapshotAt(c)
      /\ \A other \in Branches \ {LastKnownGood} : refs'[other] = refs[other]
      /\ refs'[LastKnownGood] = work.commit
  BY <1>1, MovedCommits, BranchesAre DEF Commit
<1>4. /\ work' \in Works /\ work'.step \in {"repair-receipt", "repair-authoring"}
      /\ work'.next = work.next
      /\ work'.operation = work.operation /\ work'.authoring = work.authoring
      /\ work'.commit = work.commit
  BY DEF Typed, Works, Steps
<1>5. Proceeds
  BY <1>1, <1>3, <1>4 DEF Proceeds, Typed
<1>6. Typed' /\ KernelIsSound' /\ Unread' /\ Follows'
  BY <1>5, ProceedsInv
<1>7. Decided'
  BY <1>1, <1>5, ProceedsInv DEF Decided
<1>8. Stored' /\ StoredSafe' /\ (receipt # NoReceipt => Written(receipt)')
  BY <1>1, <1>4, <1>5, StillStored DEF Clearing, NoCommit, Commit
<1>9. OneReceipt'
  BY <1>1, <1>4, <1>8 DEF OneReceipt, Saving, InitSteps, RepairSteps, Continues
<1>10. Chain'
  BY <1>1, <1>3, <1>4, BranchesAre DEF Chain, Commit, SnapshotAt, InitSteps, RepairSteps, Clearing
<1>11. Matches'
  BY <1>4 DEF Matches, Clearing
<1> QED
  BY <1>6, <1>7, <1>8, <1>9, <1>10, <1>11

\* then the authoring branch,
LEMMA RepairAuthoringInv ==
    ASSUME Inv, repairAuthoring
    PROVE  Inv'
<1> USE DEF Inv
<1>1. /\ work.step = "repair-authoring" /\ phase # "off" /\ receiptRef = NoReceipt
      /\ Commit(work.commit) /\ refs[Accepted] = work.commit
      /\ refs[LastKnownGood] = work.commit
      /\ SnapshotAt(work.commit) = initialBuiltInSnapshot
  BY DEF repairAuthoring, At, OneReceipt, Chain, InitSteps, RepairSteps
<1>2. \/ Inv'
      \/ /\ repository' = refMoved(repository, Authoring, work.commit)
         /\ work' = [work EXCEPT !.step = "repair-receipt"]
         /\ Continues /\ UNCHANGED <<marker, receipt, receiptRef, products, faults>>
  BY <1>1, RefusedInv DEF repairAuthoring, Request, GivesUp
<1> SUFFICES ASSUME repository' = refMoved(repository, Authoring, work.commit),
                    work' = [work EXCEPT !.step = "repair-receipt"], Continues,
                    UNCHANGED <<marker, receipt, receiptRef, products, faults>>
             PROVE  Inv'
  BY <1>2
<1>3. /\ Committed /\ Len(repository'.commits) = Len(repository.commits)
      /\ \A c : Commit(c)' = Commit(c) /\ SnapshotAt(c)' = SnapshotAt(c)
      /\ \A other \in Branches \ {Authoring} : refs'[other] = refs[other]
  BY <1>1, MovedCommits, BranchesAre DEF Commit
<1>4. /\ work' \in Works /\ work'.step = "repair-receipt" /\ work'.next = work.next
      /\ work'.operation = work.operation /\ work'.authoring = work.authoring
      /\ work'.commit = work.commit
  BY DEF Typed, Works, Steps
<1>5. Proceeds
  BY <1>1, <1>3, <1>4 DEF Proceeds, Typed
<1>6. Typed' /\ KernelIsSound' /\ Unread' /\ Follows'
  BY <1>5, ProceedsInv
<1>7. Decided'
  BY <1>1, <1>5, ProceedsInv DEF Decided
<1>8. Stored' /\ StoredSafe' /\ (receipt # NoReceipt => Written(receipt)')
  BY <1>1, <1>4, <1>5, StillStored DEF Clearing, NoCommit, Commit
<1>9. OneReceipt'
  BY <1>1, <1>4, <1>8 DEF OneReceipt, Saving, InitSteps, RepairSteps, Continues
<1>10. Chain'
  BY <1>1, <1>3, <1>4, BranchesAre DEF Chain, Commit, SnapshotAt, InitSteps, RepairSteps, Clearing
<1>11. Matches'
  BY <1>4 DEF Matches, Clearing
<1> QED
  BY <1>6, <1>7, <1>8, <1>9, <1>10, <1>11

\* and writes the receipt that was missing.
LEMMA RepairReceiptInv ==
    ASSUME Inv, repairReceipt
    PROVE  Inv'
<1> DEFINE repaired == [acceptedCommit |-> work.commit, lastKnownGoodCommit |-> work.commit,
                        proposal |-> NoProposal]
<1>1. work.step = "repair-receipt" /\ phase # "off" /\ Saving
  BY DEF repairReceipt, At, Inv, OneReceipt, Saving, InitSteps
<1>2. \/ Inv'
      \/ /\ receipt' = repaired /\ receiptRef' = repaired
         /\ work' = [work EXCEPT !.step = AfterSave(work.next)]
         /\ Continues /\ UNCHANGED <<repository, marker, products, faults>>
  BY <1>1, RefusedInv DEF repairReceipt, Request, GivesUp
<1> SUFFICES ASSUME receipt' = repaired, receiptRef' = repaired,
                    work' = [work EXCEPT !.step = AfterSave(work.next)],
                    Continues, UNCHANGED <<repository, marker, products, faults>>
             PROVE  Inv'
  BY <1>2
<1> SUFFICES ASSUME NEW r, r = repaired, NEW step, step = AfterSave(work.next)
             PROVE  Inv'
  OBVIOUS
<1>3. step \in {"status", "done", "clear"}
  BY DEF AfterSave
<1> QED
  BY <1>1, <1>3, FirstReceiptInv

-----------------------------------------------------------------------------
(* A save with a receipt.                                                       *)

\* A save reads where the authoring branch is.
LEMMA ReadStatusInv ==
    ASSUME Inv, readStatus
    PROVE  Inv'
<1> USE DEF Inv
<1>1. /\ work.step = "status" /\ phase # "off" /\ phase # "loading" /\ Saving
      /\ receiptRef # NoReceipt
  BY DEF readStatus, At, OneReceipt, InitSteps, RepairSteps, Saving
<1>2. \/ Inv'
      \/ /\ work' = [work EXCEPT !.step = "checkpoint", !.authoring = refs[Authoring]]
         /\ Continues /\ UNCHANGED <<repository, marker, receipt, receiptRef, products, faults>>
  BY <1>1, RefusedInv DEF readStatus, Request, GivesUp
<1> SUFFICES ASSUME work' = [work EXCEPT !.step = "checkpoint", !.authoring = refs[Authoring]],
                    Continues, UNCHANGED <<repository, marker, receipt, receiptRef, products, faults>>
             PROVE  Inv'
  BY <1>2
<1>3. Committed /\ refs[Authoring] \in 0..Len(repository'.commits) /\ refs[Authoring] \in Nat
  BY NothingCommitted, RepositoryTyped, BranchesAre
<1>4. /\ work' \in Works /\ work'.step = "checkpoint" /\ work'.next = work.next
      /\ work'.operation = work.operation /\ work'.authoring = refs[Authoring]
      /\ work'.commit = work.commit
  BY <1>3 DEF Typed, Works, Steps, Commits
<1>5. Proceeds
  BY <1>1, <1>3, <1>4 DEF Proceeds, Typed
<1>6. Typed' /\ KernelIsSound' /\ Unread' /\ Follows'
  BY <1>5, ProceedsInv
<1>7. Stored' /\ StoredSafe' /\ (receipt # NoReceipt => Written(receipt)')
  <2>1. ~halfSaved /\ (work.commit = NoCommit)' /\ (refs[Accepted] # NoCommit)'
          /\ (refs[LastKnownGood] # NoCommit)' => Pair(refs[Accepted], refs[LastKnownGood])'
    BY <1>4 DEF Stored, Pair, Plain, Commit, SnapshotAt, refs
  <2> QED
    BY <1>1, <1>4, <1>5, <2>1, StillStored DEF Clearing
<1>8. OneReceipt'
  BY <1>1, <1>4, <1>7 DEF OneReceipt, Saving, InitSteps, RepairSteps, Continues
<1>9. Chain'
  BY <1>4 DEF Chain, InitSteps, RepairSteps, Clearing
<1>10. Matches'
  BY <1>1, <1>4 DEF Matches, Clearing, Match, Continues, refs
<1>11. Decided'
  <2>1. DecidedDocuments' = DecidedDocuments /\ kernel' = kernel
    BY DEF DecidedDocuments, Continues
  <2> QED
    BY <1>1, <1>4, <2>1 DEF Decided, SnapshotAt
<1> QED
  BY <1>6, <1>7, <1>8, <1>9, <1>10, <1>11

\* What is saved can be read back, but for what is known to be refused.
LEMMA NextIs ==
    ASSUME Inv, Saving, NEW s, s = snapshotFromState(work.next)
    PROVE  /\ s \in Snapshots /\ Storable(s) /\ Numbered(s) /\ Shown(s) = Shown(work.next)
           /\ s.active = work.next.active /\ s.lastKnownGood = work.next.lastKnownGood
           /\ s.proposal = work.next.proposal /\ s.safeMode = work.next.safeMode
           /\ s.disabledExtensions = work.next.disabledExtensions
           /\ s.lastEvent = work.next.lastEvent /\ SameProduct(s, work.next)
           /\ \/ validateShapingSnapshot(s)
              \/ ExtensionMade(s) /\ ExtensionMade(work.next)
              \/ FailedInSafeMode(s)
           /\ work.next.proposal # NoRevision => ~work.next.safeMode
           /\ work.next \in KernelStates
<1>1. Sound(work.next) /\ Writes(work.next) /\ Numbered(work.next)
  BY DEF Inv, KernelIsSound
<1>2. /\ s \in Snapshots /\ Storable(s) /\ Numbered(s) /\ Shown(s) = Shown(work.next)
      /\ s.active = work.next.active /\ s.lastKnownGood = work.next.lastKnownGood
      /\ s.proposal = work.next.proposal /\ s.safeMode = work.next.safeMode
      /\ s.disabledExtensions = work.next.disabledExtensions
      /\ s.lastEvent = work.next.lastEvent /\ SameProduct(s, work.next)
  BY <1>1, SnapshotIs DEF Writes
<1>3. Loadable(s)
  BY <1>1 DEF Writes
<1>4. \/ validateShapingSnapshot(s)
      \/ ExtensionMade(s) /\ ExtensionMade(work.next)
      \/ FailedInSafeMode(s)
  BY <1>2, <1>3 DEF Loadable, ExtensionMade, FailedInSafeMode
<1> QED
  BY <1>1, <1>2, <1>4 DEF Sound, CandidateIsSound

\* The refs of the candidate's branch.
LEMMA BranchOfNextIs ==
    ASSUME Inv, Saving, receiptRef # NoReceipt, work.next.proposal # NoRevision
    PROVE  /\ work.next.proposal.id \in 1..MaxId
           /\ branchOfNext \in Branches \ {Accepted, LastKnownGood, Authoring}
           /\ branchOfNext \in {ProposalBranch(id) : id \in 1..MaxId}
<1>1. work.next.proposal.id \in 1..MaxId
  BY DEF Inv, KernelIsSound, Numbered
<1>2. Written(receiptRef)
  BY DEF Inv, OneReceipt, Written
<1>3. branchOfNext \in {ProposalBranch(id) : id \in 1..MaxId}
  BY <1>1, <1>2 DEF branchOfNext, Written
<1> QED
  BY <1>1, <1>3, BranchesAre

\* Storing a candidate on its branch, guarded by the receipt.
LEMMA CheckpointProposalInv ==
    ASSUME Inv, checkpointProposal
    PROVE  Inv'
<1> USE DEF Inv
<1> DEFINE s == snapshotFromState(work.next)
           existing == receiptRef.proposal
           guards == {Guard(Accepted, receiptRef.acceptedCommit),
                      Guard(LastKnownGood, receiptRef.lastKnownGoodCommit)} \union AuthoringGuard
           from == IF work.authoring # NoCommit THEN work.authoring
                   ELSE IF existing = NoProposal THEN receiptRef.acceptedCommit ELSE existing.commit
           content == [snapshot |-> s, source |-> contentAt(from).source]
           start == IF existing = NoProposal THEN receiptRef.acceptedCommit ELSE NoCommit
<1>1. /\ work.step = "checkpoint" /\ phase # "off" /\ phase # "loading" /\ Saving
      /\ receiptRef # NoReceipt /\ work.next.proposal # NoRevision
  BY DEF checkpointProposal, At, OneReceipt, InitSteps, RepairSteps, Saving
<1>2. /\ branchOfNext \in Branches \ {Accepted, LastKnownGood, Authoring}
  BY <1>1, BranchOfNextIs
<1>3. \/ Inv'
      \/ /\ canCheckpoint(repository, branchOfNext, existing.commit, start, guards)
         /\ Checkpoint(branchOfNext, content, "write-receipt")
         /\ Continues /\ UNCHANGED <<marker, receipt, receiptRef, products, faults>>
  BY <1>1, RefusedInv DEF checkpointProposal, Request, GivesUp, branchOfNext
<1> SUFFICES ASSUME canCheckpoint(repository, branchOfNext, existing.commit, start, guards),
                    Checkpoint(branchOfNext, content, "write-receipt"),
                    Continues, UNCHANGED <<marker, receipt, receiptRef, products, faults>>
             PROVE  Inv'
  BY <1>3
<1>4. refs[Accepted] = receiptRef.acceptedCommit /\ refs[LastKnownGood] = receiptRef.lastKnownGoodCommit
  <2>1. \A guard \in guards : refs[guard.branch] = guard.commit
    BY DEF canCheckpoint, holds, refs
  <2>2. /\ Guard(Accepted, receiptRef.acceptedCommit) \in guards
        /\ Guard(LastKnownGood, receiptRef.lastKnownGoodCommit) \in guards
    OBVIOUS
  <2> HIDE DEF guards
  <2> QED
    BY <2>1, <2>2 DEF Guard
<1>5. content \in Contents /\ content.snapshot = s
  <2> SUFFICES ASSUME NEW f, f = from
               PROVE  content \in Contents /\ content.snapshot = s
    OBVIOUS
  <2>1. Written(receiptRef)
    BY <1>1 DEF OneReceipt, Written
  <2>2. Commit(f)
    BY <2>1, RepositoryTyped DEF Typed, Written, Commit, NoCommit
  <2>3. contentAt(f).source \in 0..MaxSource
    BY <2>2, CommitIs
  <2>4. s \in Snapshots
    BY <1>1, NextIs
  <2> QED
    BY <2>3, <2>4 DEF Contents, contentAt
<1> SUFFICES ASSUME NEW b, b = branchOfNext, NEW n, n = Len(repository.commits) + 1,
                    NEW k, k = content
             PROVE  Inv'
  OBVIOUS
<1>6. /\ repository' = checkpointed(repository, b, k)
      /\ work' = [work EXCEPT !.step = "write-receipt", !.commit = Len(repository'.commits)]
  BY DEF Checkpoint
<1> HIDE DEF content, from
<1>7. DecidedDocuments' = DecidedDocuments /\ kernel' = kernel /\ inDoubt' = inDoubt
  BY DEF DecidedDocuments, Continues
<1>8. Shown(work.next) \subseteq DecidedDocuments
  BY <1>1 DEF Decided
<1>9. /\ Storable(k.snapshot) /\ Numbered(k.snapshot)
      /\ Shown(k.snapshot) \subseteq DecidedDocuments'
  BY <1>1, <1>5, <1>7, <1>8, NextIs
<1>10. /\ Committed /\ n \in Nat /\ n # NoCommit /\ Len(repository'.commits) = n
       /\ SnapshotAt(n)' = s /\ Commit(n)'
       /\ \A c \in 0..Len(repository.commits) : c \in 0..n
       /\ \A other \in Branches \ {b} : refs'[other] = refs[other]
       /\ refs'[b] = n
  BY <1>2, <1>5, <1>6, <1>9, CheckpointCommits
<1>11. work' = [work EXCEPT !.step = "write-receipt", !.commit = n]
  BY <1>6, <1>10
<1>12. /\ work' \in Works /\ work'.step = "write-receipt" /\ work'.next = work.next
       /\ work'.operation = work.operation /\ work'.authoring = work.authoring
       /\ work'.commit = n
  BY <1>10, <1>11 DEF Typed, Works, Steps, Commits
<1>13. Proceeds
  BY <1>1, <1>10, <1>12 DEF Proceeds, Typed
<1>14. Typed' /\ KernelIsSound' /\ Unread' /\ Follows' /\ Decided'
  BY <1>8, <1>13, ProceedsInv
<1>15. Stored' /\ StoredSafe' /\ (receipt # NoReceipt => Written(receipt)')
  BY <1>1, <1>10, <1>12, <1>13, StillStored DEF Clearing
<1>16. OneReceipt'
  BY <1>1, <1>12, <1>15 DEF OneReceipt, Saving, InitSteps, RepairSteps, Continues
<1>17. Chain'
  <2>1. refs'[Accepted] = receiptRef.acceptedCommit /\ refs'[LastKnownGood] = receiptRef.lastKnownGoodCommit
    BY <1>2, <1>4, <1>10, BranchesAre
  <2>2. branchOfNext' = b
    BY <1>12 DEF branchOfNext
  <2>3. Commit(work.commit)' /\ (SnapshotAt(work.commit) = s)' /\ refs'[b] = work'.commit
    <3>1. snapshotFromState(work.next)' = s
      BY <1>12 DEF snapshotFromState
    <3> QED
      BY <1>10, <1>12, <3>1 DEF Commit, SnapshotAt
  <2> QED
    BY <1>1, <1>12, <2>1, <2>2, <2>3 DEF Chain, InitSteps, RepairSteps, Clearing
<1>18. Matches'
  BY <1>12 DEF Matches, Clearing
<1> QED
  BY <1>14, <1>15, <1>16, <1>17, <1>18

\* The branch of a new candidate is made, and the commit on it fails.
LEMMA ProposalTornInv ==
    ASSUME Inv, proposalTorn
    PROVE  Inv'
<1> USE DEF Inv
<1>1. /\ work.step = "checkpoint" /\ phase # "off" /\ phase # "loading" /\ Saving
      /\ receiptRef # NoReceipt /\ work.next.proposal # NoRevision
      /\ faults' \in 0..MaxFaults
  BY BoundsAssumption DEF proposalTorn, At, OneReceipt, InitSteps, RepairSteps, Saving, Fails,
     Typed
<1>2. branchOfNext = ProposalBranch(work.next.proposal.id)
  BY DEF proposalTorn, branchOfNext
<1> SUFFICES ASSUME NEW b, b = branchOfNext, NEW t, t = receiptRef.acceptedCommit
             PROVE  Inv'
  OBVIOUS
<1>3. b \in Branches \ {Accepted, LastKnownGood, Authoring} /\ t \in 1..Len(repository.commits)
  BY <1>1, BranchOfNextIs DEF OneReceipt, Written, Commit
<1>4. repository' = refMoved(repository, b, t)
  BY <1>2 DEF proposalTorn
<1>5. /\ Committed /\ \A c : Commit(c)' = Commit(c) /\ SnapshotAt(c)' = SnapshotAt(c)
      /\ \A other \in Branches \ {b} : refs'[other] = refs[other]
  BY <1>3, <1>4, MovedCommits
<1>6. refs'[Accepted] = refs[Accepted] /\ refs'[LastKnownGood] = refs[LastKnownGood]
  BY <1>3, <1>5, BranchesAre
<1>7. ~halfSaved /\ work.commit = NoCommit /\ (refs[Accepted] # NoCommit)'
        /\ (refs[LastKnownGood] # NoCommit)' => Pair(refs[Accepted], refs[LastKnownGood])'
  BY <1>5, <1>6 DEF Stored, Pair, Plain
<1>8. FinishedWith(FALSE, entering) /\ FinishFrame /\ entering \in Entering
  BY <1>1 DEF proposalTorn, Finished, FinishFrame, Typed
<1> QED
  BY <1>1, <1>5, <1>7, <1>8, FailedInv

\* Storing everything else on the accepted branch.
LEMMA CheckpointAcceptedInv ==
    ASSUME Inv, checkpointAccepted
    PROVE  Inv'
<1> USE DEF Inv
<1> DEFINE s == snapshotFromState(work.next)
           guards == {Guard(LastKnownGood, receiptRef.lastKnownGoodCommit)} \union sourceRef
           from == IF sourceRef = {} THEN receiptRef.acceptedCommit
                   ELSE (CHOOSE guard \in sourceRef : TRUE).commit
           source == contentAt(from).source
           candidate == receiptRef.proposal.commit
           decided == IF candidate = NoCommit THEN source ELSE contentAt(candidate).source
           content == [snapshot |-> s, source |-> source]
           accepting == work.next.lastEvent.type = "revision-accepted"
           more == IF accepting THEN products \union {<<work.next.active.document, decided>>}
                                ELSE products
<1>1. /\ work.step = "checkpoint" /\ phase # "off" /\ phase # "loading" /\ Saving
      /\ receiptRef # NoReceipt /\ work.next.proposal = NoRevision
  BY DEF checkpointAccepted, At, OneReceipt, InitSteps, RepairSteps, Saving
<1>2. \/ Inv'
      \/ /\ canCheckpoint(repository, Accepted, receiptRef.acceptedCommit, NoCommit, guards)
         /\ Checkpoint(Accepted, content, "move-lkg")
         /\ products' = more
         /\ Continues /\ UNCHANGED <<marker, receipt, receiptRef, faults>>
  BY <1>1, RefusedInv DEF checkpointAccepted, Request, GivesUp
<1> SUFFICES ASSUME canCheckpoint(repository, Accepted, receiptRef.acceptedCommit, NoCommit, guards),
                    Checkpoint(Accepted, content, "move-lkg"), products' = more,
                    Continues, UNCHANGED <<marker, receipt, receiptRef, faults>>
             PROVE  Inv'
  BY <1>2
<1>3. refs[LastKnownGood] = receiptRef.lastKnownGoodCommit
  <2>1. \A guard \in guards : refs[guard.branch] = guard.commit
    BY DEF canCheckpoint, holds, refs
  <2>2. Guard(LastKnownGood, receiptRef.lastKnownGoodCommit) \in guards
    OBVIOUS
  <2> HIDE DEF guards
  <2> QED
    BY <2>1, <2>2 DEF Guard
<1>4. Written(receiptRef)
  BY <1>1 DEF OneReceipt, Written
<1>5. source \in 0..MaxSource
  <2> SUFFICES ASSUME NEW f, f = from
               PROVE  contentAt(f).source \in 0..MaxSource
    BY DEF contentAt
  <2>1. Commit(f)
    <3>1. CASE sourceRef = {}
      BY <1>4, <3>1 DEF Written
    <3>2. CASE sourceRef # {}
      <4>1. PICK branch, commit :
              /\ sourceRef = {Guard(branch, commit)}
              /\ \/ receiptRef.proposal # NoProposal /\ commit = receiptRef.proposal.commit
                 \/ work.authoring # NoCommit /\ commit = work.authoring
                 \/ commit = receiptRef.lastKnownGoodCommit
        BY <3>2 DEF sourceRef, AuthoringGuard
      <4>2. Commit(commit)
        BY <1>4, <4>1, RepositoryTyped DEF Written, Commit, NoCommit, Typed
      <4>3. (CHOOSE guard \in sourceRef : TRUE) = Guard(branch, commit)
        BY <4>1
      <4>4. Guard(branch, commit).commit = commit
        BY DEF Guard
      <4>5. f = commit
        BY <3>2, <4>3, <4>4
      <4> QED
        BY <4>2, <4>5
    <3> QED
      BY <3>1, <3>2
  <2> QED
    BY <2>1, CommitIs
<1>6. decided \in 0..MaxSource
  <2>1. CASE candidate = NoCommit
    BY <1>5, <2>1
  <2>2. CASE candidate # NoCommit
    <3> SUFFICES ASSUME NEW c, c = candidate
                 PROVE  contentAt(c).source \in 0..MaxSource
      BY <2>2 DEF contentAt
    <3>1. Commit(c)
      BY <1>4, <2>2 DEF Written, NoProposal, Commit
    <3> QED
      BY <3>1, CommitIs
  <2> QED
    BY <2>1, <2>2
<1>7. content \in Contents /\ content.snapshot = s
  BY <1>1, <1>5, NextIs DEF Contents
<1>8. /\ products \subseteq products' /\ products' \subseteq Documents \X (0..MaxSource)
      /\ accepting => work.next.active.document \in DecidedDocuments'
      /\ DecidedDocuments \subseteq DecidedDocuments'
  <2>1. work.next.active.document \in Documents
    BY <1>1, NextIs DEF KernelStates, Revisions
  <2>2. products \subseteq products' /\ products' \subseteq Documents \X (0..MaxSource)
    <3>1. <<work.next.active.document, decided>> \in Documents \X (0..MaxSource)
      BY <1>6, <2>1
    <3> HIDE DEF decided
    <3> QED
      BY <3>1 DEF Typed
  <2>3. DecidedDocuments \subseteq DecidedDocuments'
    BY <2>2 DEF DecidedDocuments
  <2>4. ASSUME accepting PROVE work.next.active.document \in DecidedDocuments'
    <3> DEFINE product == <<work.next.active.document, decided>>
    <3>1. product \in products' /\ product[1] = work.next.active.document
      BY <2>4
    <3> HIDE DEF product
    <3> QED
      BY <3>1 DEF DecidedDocuments
  <2> QED
    BY <2>2, <2>3, <2>4
<1>9. Shown(work.next) \subseteq DecidedDocuments'
  BY <1>8 DEF Decided, Shown
<1> SUFFICES ASSUME NEW n, n = Len(repository.commits) + 1, NEW k, k = content
             PROVE  Inv'
  OBVIOUS
<1>10. /\ repository' = checkpointed(repository, Accepted, k)
       /\ work' = [work EXCEPT !.step = "move-lkg", !.commit = Len(repository'.commits)]
  BY DEF Checkpoint
<1> HIDE DEF content, from, more, source, decided, accepting
<1>11. /\ Storable(k.snapshot) /\ Numbered(k.snapshot)
       /\ Shown(k.snapshot) \subseteq DecidedDocuments'
  BY <1>1, <1>7, <1>9, NextIs
<1>12. /\ Committed /\ n \in Nat /\ n # NoCommit /\ Len(repository'.commits) = n
       /\ SnapshotAt(n)' = s /\ Commit(n)'
       /\ \A c \in 0..Len(repository.commits) : c \in 0..n
       /\ \A other \in Branches \ {Accepted} : refs'[other] = refs[other]
       /\ refs'[Accepted] = n
  BY <1>7, <1>10, <1>11, CheckpointCommits, BranchesAre
<1>13. work' = [work EXCEPT !.step = "move-lkg", !.commit = n]
  BY <1>10, <1>12
<1>14. /\ work' \in Works /\ work'.step = "move-lkg" /\ work'.next = work.next
       /\ work'.operation = work.operation /\ work'.authoring = work.authoring
       /\ work'.commit = n
  BY <1>12, <1>13 DEF Typed, Works, Steps, Commits
<1>15. Proceeds
  BY <1>1, <1>8, <1>12, <1>14 DEF Proceeds, Typed
<1>16. Typed' /\ KernelIsSound' /\ Unread' /\ Follows'
  BY <1>15, ProceedsInv
<1>17. Decided'
  <2>1. Shown(kernel') \subseteq DecidedDocuments'
    BY <1>8 DEF Decided, Continues
  <2>2. \A c \in 1..Len(repository'.commits) : Shown(SnapshotAt(c)') \subseteq DecidedDocuments'
    BY <1>8, <1>12, CommittedKeeps
  <2> QED
    BY <1>9, <1>14, <2>1, <2>2 DEF Decided
<1>18. Stored' /\ StoredSafe' /\ (receipt # NoReceipt => Written(receipt)')
  BY <1>1, <1>12, <1>14, <1>15, StillStored DEF Clearing
<1>19. OneReceipt'
  BY <1>1, <1>14, <1>18 DEF OneReceipt, Saving, InitSteps, RepairSteps, Continues
<1>20. Chain'
  <2>1. refs'[LastKnownGood] = receiptRef.lastKnownGoodCommit /\ refs'[Accepted] = n
    BY <1>3, <1>12, BranchesAre
  <2>2. Commit(work.commit)' /\ (SnapshotAt(work.commit) = snapshotFromState(work.next))'
    <3>1. snapshotFromState(work.next)' = s
      BY <1>14 DEF snapshotFromState
    <3> QED
      BY <1>12, <1>14, <3>1 DEF Commit, SnapshotAt
  <2> QED
    BY <1>1, <1>14, <2>1, <2>2 DEF Chain, InitSteps, RepairSteps, Clearing
<1>21. Matches'
  BY <1>14 DEF Matches, Clearing
<1> QED
  BY <1>16, <1>17, <1>18, <1>19, <1>20, <1>21

\* What the last known good is to be pointed at exists.
LEMMA NextLastKnownGoodIs ==
    ASSUME Inv, Saving, receiptRef # NoReceipt, Commit(work.commit)
    PROVE  Commit(nextLastKnownGood)
<1>1. Written(receiptRef)
  BY DEF Inv, OneReceipt, Written
<1> QED
  BY <1>1 DEF Written, nextLastKnownGood, Commit

\* Pointing the last known good at the product before the decision, or after a rollback.
LEMMA MoveLastKnownGoodInv ==
    ASSUME Inv, moveLastKnownGood
    PROVE  Inv'
<1> USE DEF Inv
<1> DEFINE step == IF work.authoring = NoCommit THEN "write-receipt" ELSE "move-authoring"
<1>1. /\ work.step = "move-lkg" /\ phase # "off" /\ phase # "loading" /\ Saving
      /\ receiptRef # NoReceipt /\ work.next.proposal = NoRevision
      /\ Commit(work.commit) /\ refs[Accepted] = work.commit
      /\ SnapshotAt(work.commit) = snapshotFromState(work.next)
  BY DEF moveLastKnownGood, At, OneReceipt, InitSteps, RepairSteps, Saving, Chain
<1>2. \/ Inv'
      \/ /\ repository' = refMoved(repository, LastKnownGood, nextLastKnownGood)
         /\ work' = [work EXCEPT !.step = step]
         /\ Continues /\ UNCHANGED <<marker, receipt, receiptRef, products, faults>>
  BY <1>1, RefusedInv DEF moveLastKnownGood, Request, GivesUp
<1> SUFFICES ASSUME repository' = refMoved(repository, LastKnownGood, nextLastKnownGood),
                    work' = [work EXCEPT !.step = step],
                    Continues, UNCHANGED <<marker, receipt, receiptRef, products, faults>>
             PROVE  Inv'
  BY <1>2
<1> SUFFICES ASSUME NEW t, t = nextLastKnownGood
             PROVE  Inv'
  OBVIOUS
<1>3. t \in 1..Len(repository.commits)
  BY <1>1, NextLastKnownGoodIs DEF Commit
<1>4. /\ Committed /\ Len(repository'.commits) = Len(repository.commits)
      /\ \A c : Commit(c)' = Commit(c) /\ SnapshotAt(c)' = SnapshotAt(c)
      /\ \A other \in Branches \ {LastKnownGood} : refs'[other] = refs[other]
      /\ refs'[LastKnownGood] = t
  BY <1>3, MovedCommits, BranchesAre
<1>5. /\ work' \in Works /\ work'.step \in {"write-receipt", "move-authoring"}
      /\ work'.next = work.next
      /\ work'.operation = work.operation /\ work'.authoring = work.authoring
      /\ work'.commit = work.commit
  BY DEF Typed, Works, Steps
<1>6. Proceeds
  BY <1>1, <1>4, <1>5 DEF Proceeds, Typed
<1>7. Typed' /\ KernelIsSound' /\ Unread' /\ Follows'
  BY <1>6, ProceedsInv
<1>8. Decided'
  BY <1>1, <1>6, ProceedsInv DEF Decided
<1>9. Stored' /\ StoredSafe' /\ (receipt # NoReceipt => Written(receipt)')
  BY <1>1, <1>5, <1>6, StillStored DEF Clearing, NoCommit, Commit
<1>10. OneReceipt'
  BY <1>1, <1>5, <1>9 DEF OneReceipt, Saving, InitSteps, RepairSteps, Continues
<1>11. Chain'
  <2>1. nextLastKnownGood' = t
    BY <1>5 DEF nextLastKnownGood
  <2>2. /\ Commit(work.commit)' /\ refs'[Accepted] = work.commit
        /\ (SnapshotAt(work.commit) = snapshotFromState(work.next))'
    BY <1>1, <1>4, <1>5, BranchesAre DEF Commit, SnapshotAt, snapshotFromState
  <2> QED
    BY <1>1, <1>4, <1>5, <2>1, <2>2 DEF Chain, InitSteps, RepairSteps, Clearing
<1>12. Matches'
  BY <1>5 DEF Matches, Clearing
<1> QED
  BY <1>7, <1>8, <1>9, <1>10, <1>11, <1>12

\* Pointing the authoring branch at what was stored.
LEMMA MoveAuthoringInv ==
    ASSUME Inv, moveAuthoring
    PROVE  Inv'
<1> USE DEF Inv
<1>1. /\ work.step = "move-authoring" /\ phase # "off" /\ phase # "loading" /\ Saving
      /\ receiptRef # NoReceipt /\ work.next.proposal = NoRevision
      /\ Commit(work.commit) /\ refs[Accepted] = work.commit
      /\ refs[LastKnownGood] = nextLastKnownGood
      /\ SnapshotAt(work.commit) = snapshotFromState(work.next)
  BY DEF moveAuthoring, At, OneReceipt, InitSteps, RepairSteps, Saving, Chain
<1>2. \/ Inv'
      \/ /\ repository' = refMoved(repository, Authoring, work.commit)
         /\ work' = [work EXCEPT !.step = "write-receipt"]
         /\ Continues /\ UNCHANGED <<marker, receipt, receiptRef, products, faults>>
  BY <1>1, RefusedInv DEF moveAuthoring, Request, GivesUp
<1> SUFFICES ASSUME repository' = refMoved(repository, Authoring, work.commit),
                    work' = [work EXCEPT !.step = "write-receipt"],
                    Continues, UNCHANGED <<marker, receipt, receiptRef, products, faults>>
             PROVE  Inv'
  BY <1>2
<1>3. /\ Committed /\ Len(repository'.commits) = Len(repository.commits)
      /\ \A c : Commit(c)' = Commit(c) /\ SnapshotAt(c)' = SnapshotAt(c)
      /\ \A other \in Branches \ {Authoring} : refs'[other] = refs[other]
  BY <1>1, MovedCommits, BranchesAre DEF Commit
<1>4. /\ work' \in Works /\ work'.step = "write-receipt" /\ work'.next = work.next
      /\ work'.operation = work.operation /\ work'.authoring = work.authoring
      /\ work'.commit = work.commit
  BY DEF Typed, Works, Steps
<1>5. Proceeds
  BY <1>1, <1>3, <1>4 DEF Proceeds, Typed
<1>6. Typed' /\ KernelIsSound' /\ Unread' /\ Follows'
  BY <1>5, ProceedsInv
<1>7. Decided'
  BY <1>1, <1>5, ProceedsInv DEF Decided
<1>8. Stored' /\ StoredSafe' /\ (receipt # NoReceipt => Written(receipt)')
  BY <1>1, <1>4, <1>5, StillStored DEF Clearing, NoCommit, Commit
<1>9. OneReceipt'
  BY <1>1, <1>4, <1>8 DEF OneReceipt, Saving, InitSteps, RepairSteps, Continues
<1>10. Chain'
  <2>1. nextLastKnownGood' = nextLastKnownGood
    BY <1>4 DEF nextLastKnownGood
  <2>2. /\ Commit(work.commit)' /\ refs'[Accepted] = work.commit
        /\ (SnapshotAt(work.commit) = snapshotFromState(work.next))'
    BY <1>1, <1>3, <1>4, BranchesAre DEF Commit, SnapshotAt, snapshotFromState
  <2>3. refs'[LastKnownGood] = nextLastKnownGood
    BY <1>1, <1>3, BranchesAre
  <2> QED
    BY <1>1, <1>4, <2>1, <2>2, <2>3 DEF Chain, InitSteps, RepairSteps, Clearing
<1>11. Matches'
  BY <1>4 DEF Matches, Clearing
<1> QED
  BY <1>6, <1>7, <1>8, <1>9, <1>10, <1>11

\* The product that a save starts from, where the receipt has it.
LEMMA BaseOf ==
    ASSUME Inv, work.step \notin Clearing, receiptRef # NoReceipt, ~halfSaved, ~kernel.safeMode
    PROVE  LET a == SnapshotAt(receiptRef.acceptedCommit)
               l == SnapshotAt(receiptRef.lastKnownGoodCommit)
           IN  /\ Plain(receiptRef.acceptedCommit) /\ Plain(receiptRef.lastKnownGoodCommit)
               /\ Pair(receiptRef.acceptedCommit, receiptRef.lastKnownGoodCommit)
               /\ a.active.document = kernel.active.document
               /\ a.lastKnownGood.document = kernel.lastKnownGood.document
               /\ a.disabledExtensions = kernel.disabledExtensions
               /\ l.active.document = kernel.lastKnownGood.document
               /\ l.disabledExtensions = kernel.disabledExtensions
<1> USE DEF Inv
<1> DEFINE s == SnapshotAt(Current(receiptRef))
           a == SnapshotAt(receiptRef.acceptedCommit)
           l == SnapshotAt(receiptRef.lastKnownGoodCommit)
<1>1. /\ receipt = receiptRef /\ Backed(receiptRef) /\ Reflects(s, kernel)
      /\ (receiptRef.proposal = NoProposal) <=> (kernel.proposal = NoRevision)
  BY DEF OneReceipt, Stored, Backed
<1>2. /\ s.active.document = kernel.active.document
      /\ s.lastKnownGood.document = kernel.lastKnownGood.document
      /\ s.disabledExtensions = kernel.disabledExtensions
  BY <1>1 DEF Reflects, SameProduct
<1>3. /\ Plain(receiptRef.acceptedCommit)
      /\ a.active.document = s.active.document
      /\ a.lastKnownGood.document = s.lastKnownGood.document
      /\ a.disabledExtensions = s.disabledExtensions
  <2>1. CASE receiptRef.proposal = NoProposal
    <3>1. validateShapingSnapshot(s) /\ ~s.safeMode /\ Current(receiptRef) = receiptRef.acceptedCommit
      BY <1>1, <2>1 DEF Reflects, Current
    <3>2. Commit(receiptRef.acceptedCommit)
      BY <1>1 DEF Backed, Pair
    <3> QED
      BY <3>1, <3>2 DEF Plain, SnapshotAt
  <2>2. CASE receiptRef.proposal # NoProposal
    <3>1. Current(receiptRef) = receiptRef.proposal.commit
      BY <2>2 DEF Current
    <3> QED
      BY <1>1, <2>2, <3>1 DEF Backed, SnapshotAt
  <2> QED
    BY <2>1, <2>2
<1>4. Pair(receiptRef.acceptedCommit, receiptRef.lastKnownGoodCommit)
  BY <1>1 DEF Backed
<1>5. /\ Plain(receiptRef.lastKnownGoodCommit)
      /\ l.active.document = a.lastKnownGood.document
      /\ l.disabledExtensions = a.disabledExtensions
  BY <1>3, <1>4 DEF Pair
<1> QED
  BY <1>2, <1>3, <1>4, <1>5

\* The receipt of a save, and what its commit says.
LEMMA NextReceipt ==
    ASSUME Inv, Saving, work.step = "write-receipt", receiptRef # NoReceipt, NEW r,
           r = IF work.next.proposal # NoRevision
               THEN [receiptRef EXCEPT !.proposal = [revisionId |-> work.next.proposal.id,
                                                     branch |-> branchOfNext,
                                                     commit |-> work.commit]]
               ELSE [acceptedCommit |-> work.commit, lastKnownGoodCommit |-> nextLastKnownGood,
                     proposal |-> NoProposal]
    PROVE  /\ r \in Receipts /\ Written(r) /\ Match(r) /\ r # NoReceipt
           /\ Current(r) = work.commit
           /\ (r.proposal = NoProposal) <=> (work.next.proposal = NoRevision)
           /\ ~halfSaved => Backed(r)
<1> USE DEF Inv
<1>1. /\ Commit(work.commit) /\ SnapshotAt(work.commit) = snapshotFromState(work.next)
      /\ Written(receiptRef) /\ work.step \notin Clearing
      /\ receiptRef \in Receipts
  BY DEF Chain, OneReceipt, Written, Clearing, Typed
<1> DEFINE s == snapshotFromState(work.next)
<1>2. /\ s.active = work.next.active /\ s.lastKnownGood = work.next.lastKnownGood
      /\ s.proposal = work.next.proposal /\ s.safeMode = work.next.safeMode
      /\ s.disabledExtensions = work.next.disabledExtensions
      /\ s.lastEvent = work.next.lastEvent
      /\ \/ validateShapingSnapshot(s)
         \/ ExtensionMade(s) /\ ExtensionMade(work.next)
         \/ FailedInSafeMode(s)
      /\ work.next.proposal # NoRevision => ~work.next.safeMode
  BY NextIs
<1> SUFFICES ASSUME NEW c, c = work.commit, NEW acc, acc = receiptRef.acceptedCommit,
                    NEW lkg, lkg = receiptRef.lastKnownGoodCommit
             PROVE  /\ r \in Receipts /\ Written(r) /\ Match(r) /\ r # NoReceipt
                    /\ Current(r) = c
                    /\ (r.proposal = NoProposal) <=> (work.next.proposal = NoRevision)
                    /\ ~halfSaved => Backed(r)
  OBVIOUS
<1>3. Commit(c) /\ SnapshotAt(c) = s /\ Commit(acc) /\ Commit(lkg) /\ c \in Nat /\ c # NoCommit
  BY <1>1, RepositoryTyped DEF Commit, SnapshotAt, Written, NoCommit
<1> HIDE DEF s
<1>4. CASE work.next.proposal # NoRevision
  <2> DEFINE proposal == [revisionId |-> work.next.proposal.id, branch |-> branchOfNext, commit |-> c]
  <2>1. /\ work.next.proposal.id \in 1..MaxId
        /\ branchOfNext \in Branches \ {Accepted, LastKnownGood, Authoring}
        /\ branchOfNext \in {ProposalBranch(id) : id \in 1..MaxId}
    BY <1>4, BranchOfNextIs
  <2>2. /\ proposal.revisionId = work.next.proposal.id /\ proposal.branch = branchOfNext
        /\ proposal.commit = c /\ proposal \in ProposalReceipts /\ proposal # NoProposal
    BY <1>3, <2>1, MaxIdAssumption DEF ProposalReceipts, Commits, Ids, NoProposal, NoCommit
  <2>3. r = [receiptRef EXCEPT !.proposal = proposal]
    BY <1>4
  <2> HIDE DEF proposal
  <2>4. /\ r \in Receipts /\ r.acceptedCommit = acc /\ r.lastKnownGoodCommit = lkg
        /\ r.proposal = proposal
    BY <1>1, <2>2, <2>3 DEF Receipts
  <2>5. Written(r)
    BY <1>3, <2>1, <2>2, <2>4 DEF Written, Commit
  <2>6. r # NoReceipt /\ Current(r) = c
    BY <2>2, <2>4, <2>5, WrittenIs DEF Current
  <2>7. Match(r)
    <3>1. /\ refs[Accepted] = acc /\ refs[LastKnownGood] = lkg /\ refs[branchOfNext] = c
      BY <1>4 DEF Chain
    <3> QED
      BY <2>2, <2>4, <3>1 DEF Match
  <2>8. ASSUME ~halfSaved PROVE Backed(r)
    <3>1. /\ ~kernel.safeMode
          /\ s.active = kernel.active /\ s.lastKnownGood = kernel.lastKnownGood
          /\ s.disabledExtensions = kernel.disabledExtensions
      BY <1>2, <1>4 DEF Follows
    <3>2. /\ Plain(acc) /\ Pair(acc, lkg)
          /\ SnapshotAt(acc).active.document = kernel.active.document
          /\ SnapshotAt(acc).lastKnownGood.document = kernel.lastKnownGood.document
          /\ SnapshotAt(acc).disabledExtensions = kernel.disabledExtensions
      BY <1>1, <2>8, <3>1, BaseOf DEF Plain, Pair, Commit, SnapshotAt
    <3>3. ~s.safeMode
      BY <1>2, <1>4
    <3>4. SnapshotAt(r.acceptedCommit) = SnapshotAt(acc) /\ SnapshotAt(r.proposal.commit) = s
      BY <1>3, <2>2, <2>4 DEF SnapshotAt
    <3>5. Plain(r.acceptedCommit) /\ Pair(r.acceptedCommit, r.lastKnownGoodCommit)
      BY <2>4, <3>2 DEF Plain, Pair, Commit, SnapshotAt
    <3> QED
      BY <1>2, <2>2, <2>4, <3>1, <3>2, <3>3, <3>4, <3>5 DEF Backed
  <2> QED
    BY <1>4, <2>2, <2>4, <2>5, <2>6, <2>7, <2>8
<1>5. CASE work.next.proposal = NoRevision
  <2> SUFFICES ASSUME NEW l, l = nextLastKnownGood
               PROVE  /\ r \in Receipts /\ Written(r) /\ Match(r) /\ r # NoReceipt
                      /\ Current(r) = c /\ r.proposal = NoProposal
                      /\ ~halfSaved => Backed(r)
    BY <1>5
  <2>1. r = [acceptedCommit |-> c, lastKnownGoodCommit |-> l, proposal |-> NoProposal]
    BY <1>5
  <2>2. Commit(l) /\ l \in Nat
    BY <1>1, NextLastKnownGoodIs, RepositoryTyped DEF Commit
  <2>3. /\ r \in Receipts /\ r.acceptedCommit = c /\ r.lastKnownGoodCommit = l
        /\ r.proposal = NoProposal
    BY <1>3, <2>1, <2>2, BranchesAre DEF Receipts, Commits, NoProposal, ProposalReceipts, Ids,
       NoCommit
  <2>4. Written(r)
    BY <1>3, <2>2, <2>3 DEF Written, Commit
  <2>5. r # NoReceipt /\ Current(r) = c
    BY <2>3, <2>4, WrittenIs DEF Current
  <2>6. Match(r)
    BY <1>5, <2>3 DEF Chain, Match
  <2>7. ASSUME ~halfSaved PROVE Backed(r)
    <3>1. Pair(c, l)
      <4> SUFFICES ASSUME Plain(c)
                   PROVE  /\ Plain(l)
                          /\ SnapshotAt(l).active.document = s.lastKnownGood.document
                          /\ SnapshotAt(l).disabledExtensions = s.disabledExtensions
        BY <1>2, <1>3, <1>5, <2>2 DEF Pair
      <4>1. ~work.next.safeMode
        BY <1>2, <1>3 DEF Plain
      <4>2. CASE work.next.lastEvent.type = "revision-accepted"
        <5>1. /\ ~kernel.safeMode /\ work.next.lastKnownGood = kernel.active
              /\ work.next.disabledExtensions = kernel.disabledExtensions
          BY <1>5, <4>2 DEF Follows
        <5>2. l = acc
          BY <4>2 DEF nextLastKnownGood
        <5>3. /\ Plain(l) /\ SnapshotAt(l).active.document = kernel.active.document
              /\ SnapshotAt(l).disabledExtensions = kernel.disabledExtensions
          BY <1>1, <2>7, <5>1, <5>2, BaseOf DEF Plain, Commit, SnapshotAt
        <5> QED
          BY <1>2, <5>1, <5>3
      <4>3. CASE work.next.lastEvent.type = "revision-rolled-back"
        <5>1. work.next.active = work.next.lastKnownGood
          BY <1>5, <4>3 DEF Follows
        <5>2. l = c
          BY <4>3 DEF nextLastKnownGood
        <5> QED
          BY <1>2, <1>3, <5>1, <5>2
      <4>4. CASE work.next.lastEvent.type \notin {"revision-accepted", "revision-rolled-back"}
        <5>1. /\ ~kernel.safeMode /\ work.next.lastKnownGood = kernel.lastKnownGood
              /\ work.next.disabledExtensions = kernel.disabledExtensions
          BY <1>5, <4>1, <4>4 DEF Follows
        <5>2. l = lkg
          BY <4>4 DEF nextLastKnownGood
        <5>3. /\ Plain(l) /\ SnapshotAt(l).active.document = kernel.lastKnownGood.document
              /\ SnapshotAt(l).disabledExtensions = kernel.disabledExtensions
          BY <1>1, <2>7, <5>1, <5>2, BaseOf DEF Plain, Commit, SnapshotAt
        <5> QED
          BY <1>2, <5>1, <5>3
      <4> QED
        BY <4>2, <4>3, <4>4
    <3> QED
      BY <2>3, <3>1 DEF Backed, Pair, Plain, Commit, SnapshotAt
  <2> QED
    BY <2>3, <2>4, <2>5, <2>6, <2>7
<1> QED
  BY <1>4, <1>5

\* Writing the receipt of what was stored.
LEMMA WriteReceiptInv ==
    ASSUME Inv, writeReceipt
    PROVE  Inv'
<1> USE DEF Inv
<1> DEFINE s == snapshotFromState(work.next)
           activated ==
             IF work.next.proposal # NoRevision
             THEN [receiptRef EXCEPT !.proposal = [revisionId |-> work.next.proposal.id,
                                                   branch |-> branchOfNext,
                                                   commit |-> work.commit]]
             ELSE [acceptedCommit |-> work.commit, lastKnownGoodCommit |-> nextLastKnownGood,
                   proposal |-> NoProposal]
<1>1. /\ work.step = "write-receipt" /\ phase # "off" /\ phase # "loading" /\ Saving
      /\ receiptRef # NoReceipt /\ Commit(work.commit) /\ work.commit # NoCommit
      /\ SnapshotAt(work.commit) = s
  BY DEF writeReceipt, At, OneReceipt, InitSteps, RepairSteps, Saving, Chain, Commit, NoCommit
<1>2. \/ Inv'
      \/ /\ receipt' = activated /\ receiptRef' = activated
         /\ work' = [work EXCEPT !.step = AfterSave(work.next)]
         /\ Continues /\ UNCHANGED <<repository, marker, products, faults>>
  BY <1>1, RefusedInv DEF writeReceipt, Request, GivesUp, branchOfNext
<1> SUFFICES ASSUME receipt' = activated, receiptRef' = activated,
                    work' = [work EXCEPT !.step = AfterSave(work.next)],
                    Continues, UNCHANGED <<repository, marker, products, faults>>
             PROVE  Inv'
  BY <1>2
<1> SUFFICES ASSUME NEW r, r = activated, NEW c, c = work.commit
             PROVE  Inv'
  OBVIOUS
<1>3. /\ r \in Receipts /\ Written(r) /\ Match(r) /\ r # NoReceipt
      /\ Current(r) = c /\ c # NoCommit
      /\ (r.proposal = NoProposal) <=> (work.next.proposal = NoRevision)
      /\ ~halfSaved => Backed(r)
  BY <1>1, NextReceipt
<1>4. receipt' = r /\ receiptRef' = r
  OBVIOUS
<1> HIDE DEF activated
<1>5. /\ Written(r)' /\ (~halfSaved => Backed(r)') /\ Match(r)' /\ refs' = refs
      /\ Committed /\ \A d : Commit(d)' = Commit(d) /\ SnapshotAt(d)' = SnapshotAt(d)
  BY <1>3, NothingCommitted DEF Written, Backed, Pair, Plain, Commit, SnapshotAt, Match, refs
<1>6. /\ work' \in Works /\ work'.step = AfterSave(work.next)
      /\ work'.step \in {"done", "clear"} /\ work'.next = work.next
      /\ work'.operation = work.operation /\ work'.authoring = work.authoring
      /\ work'.commit = c
  BY DEF Typed, Works, Steps, AfterSave
<1>7. Proceeds
  BY <1>1, <1>3, <1>4, <1>5, <1>6 DEF Proceeds, Typed
<1>8. Typed' /\ KernelIsSound' /\ Unread' /\ Follows'
  BY <1>7, ProceedsInv
<1>9. Decided'
  BY <1>1, <1>7, ProceedsInv DEF Decided
<1>10. OneReceipt'
  BY <1>1, <1>3, <1>4, <1>5, <1>6 DEF OneReceipt, Saving, InitSteps, RepairSteps, Continues
<1>11. Matches'
  BY <1>4, <1>5, <1>6 DEF Matches, Clearing, Match
<1>13. /\ (SnapshotAt(Current(receiptRef)) = s)' /\ s' = s
       /\ halfSaved' = halfSaved /\ SnapshotAt(Current(r)) = s
       /\ (SnapshotAt(Current(r)) = s)'
  <2>1. s' = s
    BY <1>6 DEF snapshotFromState
  <2> QED
    BY <1>1, <1>3, <1>4, <1>5, <2>1 DEF SnapshotAt, Current, Continues
<1>12. Chain'
  BY <1>3, <1>6, <1>13 DEF Chain, InitSteps, RepairSteps, Clearing
<1>14. /\ s.safeMode = work.next.safeMode
       /\ s.lastKnownGood = work.next.lastKnownGood
       /\ s.disabledExtensions = work.next.disabledExtensions
       /\ s.proposal = work.next.proposal
       /\ s.lastEvent = work.next.lastEvent /\ SameProduct(s, work.next)
       /\ \/ validateShapingSnapshot(s)
          \/ ExtensionMade(s) /\ ExtensionMade(work.next)
          \/ FailedInSafeMode(s)
       /\ work.next.proposal # NoRevision => ~work.next.safeMode
  BY <1>1, NextIs
<1>15. work.next.proposal = NoRevision => ~ExtensionMade(s)
  BY <1>1, <1>14 DEF Follows, ExtensionMade
<1>16. Stored'
  <2>1. ASSUME ~work.next.safeMode PROVE Reflects(s, work.next)
    BY <1>14, <1>15, <2>1 DEF Reflects, FailedInSafeMode
  <2>2. work'.step \in Clearing /\ work'.commit # NoCommit
    BY <1>3, <1>6 DEF Clearing
  <2> HIDE DEF s
  <2>3. (SnapshotAt(Current(receiptRef)))' = s
    BY <1>13
  <2> QED
    BY <1>3, <1>4, <1>5, <1>6, <1>13, <2>1, <2>2, <2>3 DEF Stored
<1>17. StoredSafe'
  <2>1. ASSUME work.next.safeMode
        PROVE  \/ FailedInSafeMode(s)
               \/ /\ validateShapingSnapshot(s)
                  /\ s.lastKnownGood.document = work.next.lastKnownGood.document
                  /\ s.disabledExtensions = work.next.disabledExtensions
                  /\ work.next.lastEvent.type = "recovery-requested" => s.safeMode
    BY <1>14, <1>15, <2>1
  <2>2. work'.step \in Clearing /\ work'.commit # NoCommit
    BY <1>3, <1>6 DEF Clearing
  <2> HIDE DEF s
  <2>3. (SnapshotAt(Current(receiptRef)))' = s
    BY <1>13
  <2> QED
    BY <1>6, <2>1, <2>2, <2>3 DEF StoredSafe, SafeReflects
<1> QED
  BY <1>8, <1>9, <1>10, <1>11, <1>12, <1>16, <1>17

\* Reading whether there is a recovery marker to clear.
LEMMA ClearRecoveryInv ==
    ASSUME Inv, clearRecovery
    PROVE  Inv'
<1> USE DEF Inv
<1>1. /\ work.step = "clear" /\ phase # "off" /\ phase # "loading" /\ Saving
      /\ receiptRef # NoReceipt
  BY DEF clearRecovery, At, OneReceipt, InitSteps, RepairSteps, Saving
<1>2. \/ Inv'
      \/ /\ marker = "absent" /\ Finished(TRUE)
         /\ UNCHANGED <<durable, receiptRef, stops, sources, products, faults>>
      \/ /\ marker # "absent" /\ work' = [work EXCEPT !.step = "write-clear"]
         /\ Continues /\ UNCHANGED <<repository, marker, receipt, receiptRef, products, faults>>
  BY <1>1, RefusedInv DEF clearRecovery, Request, GivesUp
<1>3. CASE Finished(TRUE) /\ UNCHANGED <<durable, receiptRef, stops, sources, products, faults>>
  <2>1. FinishedWith(TRUE, entering) /\ entering \in Entering /\ FinishFrame /\ repository' = repository
    BY <1>3 DEF Finished, durable, Typed, FinishFrame
  <2> QED
    BY <1>1, <2>1, FinishedInv DEF Clearing
<1>4. CASE /\ work' = [work EXCEPT !.step = "write-clear"]
           /\ Continues /\ UNCHANGED <<repository, marker, receipt, receiptRef, products, faults>>
  <2>1. /\ work' \in Works /\ work'.step = "write-clear" /\ work'.next = work.next
        /\ work'.operation = work.operation /\ work'.authoring = work.authoring
        /\ work'.commit = work.commit
    BY <1>4 DEF Typed, Works, Steps
  <2>2. Committed /\ refs' = refs /\ \A c : Commit(c)' = Commit(c) /\ SnapshotAt(c)' = SnapshotAt(c)
    BY <1>4, NothingCommitted DEF refs, Commit, SnapshotAt
  <2>3. Proceeds
    BY <1>1, <1>4, <2>1, <2>2 DEF Proceeds, Typed
  <2>4. Typed' /\ KernelIsSound' /\ Unread' /\ Follows'
    BY <2>3, ProceedsInv
  <2>5. Decided'
    BY <1>1, <2>3, ProceedsInv DEF Decided
  <2>6. OneReceipt'
    <3>1. receipt # NoReceipt => Written(receipt)'
      BY <1>4, <2>2, ReceiptKept
    <3> QED
      BY <1>1, <1>4, <2>1, <3>1 DEF OneReceipt, Saving, InitSteps, RepairSteps, Continues
  <2>7. Chain'
    <3>1. snapshotFromState(work.next)' = snapshotFromState(work.next)
      BY <2>1 DEF snapshotFromState
    <3> QED
      BY <1>1, <1>4, <2>1, <2>2, <3>1 DEF Chain, InitSteps, RepairSteps, Clearing, Continues,
         SnapshotAt,
         Current
  <2>8. Matches'
    BY <1>1, <1>4, <2>1, <2>2 DEF Matches, Clearing, Match, Continues
  <2>9. Stored'
    BY <1>1, <1>4, <2>1, <2>2 DEF Stored, Clearing, Continues, Backed, Pair, Plain, Commit,
       SnapshotAt, Current, refs
  <2>10. StoredSafe'
    BY <1>1, <1>4, <2>1, <2>2 DEF StoredSafe, Clearing, Continues, SafeReflects, Plain, Commit,
       SnapshotAt, Current
  <2> QED
    BY <2>4, <2>5, <2>6, <2>7, <2>8, <2>9, <2>10
<1> QED
  BY <1>2, <1>3, <1>4

\* Clearing it, unless it was written in between.
LEMMA WriteClearInv ==
    ASSUME Inv, writeClear
    PROVE  Inv'
<1> USE DEF Inv
<1> DEFINE marking == IF entering = "marking" THEN "mark-refused" ELSE entering
<1>1. work.step \in {"write-clear", "clear-refused"} /\ phase # "off"
  BY DEF writeClear
<1>2. \/ Inv'
      \/ /\ marker' = "clear" /\ FinishedWith(TRUE, marking)
         /\ UNCHANGED <<existed, repository, receipt, receiptRef, stops, sources, products, faults>>
  BY <1>1, RefusedInv DEF writeClear, Request, GivesUp
<1>3. CASE /\ marker' = "clear" /\ FinishedWith(TRUE, marking)
           /\ UNCHANGED <<existed, repository, receipt, receiptRef, stops, sources, products, faults>>
  <2>1. marking \in Entering /\ FinishFrame
    BY <1>3 DEF Typed, Entering, FinishFrame
  <2> QED
    BY <1>1, <1>3, <2>1, FinishedInv DEF Clearing
<1> QED
  BY <1>2, <1>3

\* A save that succeeded is the kernel's new state.
LEMMA SaveDoneInv ==
    ASSUME Inv, saveDone
    PROVE  Inv'
<1>1. work.step = "done" /\ phase # "off" /\ FinishedWith(TRUE, entering)
  BY DEF saveDone, At, Finished
<1>2. entering \in Entering /\ FinishFrame /\ repository' = repository
  BY DEF saveDone, Inv, Typed, FinishFrame, durable
<1> QED
  BY <1>1, <1>2, FinishedInv DEF Clearing

\* Every step of a save.
LEMMA SaveInv ==
    ASSUME Inv, Save
    PROVE  Inv'
  BY InitCheckpointInv, InitTornInv, InitMoveInv, InitReceiptInv, RepairInv, RepairMoveInv,
     RepairAuthoringInv, RepairReceiptInv, ReadStatusInv, CheckpointProposalInv, ProposalTornInv,
     CheckpointAcceptedInv, MoveLastKnownGoodInv, MoveAuthoringInv, WriteReceiptInv,
     ClearRecoveryInv, WriteClearInv, SaveDoneInv DEF Save

-----------------------------------------------------------------------------
(* Starting and stopping.                                                       *)

\* The kernel of a program that is not running.
Off == initialState([snapshot |-> NoSnapshot, recovered |-> FALSE, recovery |-> FALSE])

\* It shows the compiled interface.
LEMMA OffIs ==
    /\ Sound(Off) /\ Storable(Off) /\ Numbered(Off) /\ Compiled(Off)
    /\ Shown(Off) = {BuiltIn} /\ Idle(Off) \in Works
    /\ Idle(Off) = [step |-> "idle", operation |-> "none", next |-> Off, authoring |-> NoCommit,
                    commit |-> NoCommit]
<1> DEFINE loaded == [snapshot |-> NoSnapshot, recovered |-> FALSE, recovery |-> FALSE]
<1>1. /\ Off.active = InitialRevision /\ Off.lastKnownGood = InitialRevision
      /\ Off.proposal = NoRevision /\ Off.safeMode = FALSE /\ Off.disabledExtensions = {}
      /\ Off.failureCounts = NoFailures
  BY DEF Off, initialState
<1>2. Sound(initialState(loaded))
  BY InitialStateSound, ConstantTypes
<1>3. Sound(Off)
  BY <1>2 DEF Off
<1>4. Storable(Off) /\ Numbered(Off) /\ Compiled(Off) /\ Shown(Off) = {BuiltIn}
  BY <1>1 DEF Storable, Numbered, Compiled, Shown, ValidDecided, isInitialRevision,
     InitialRevision, BuiltInId, NoId
<1> QED
  BY <1>3, <1>4 DEF Idle, Works, Steps, Operations, Commits, NoCommit, Sound

\* The invariant holds before the first start.
LEMMA InitInv ==
    ASSUME Init
    PROVE  Inv
<1>1. kernel = Off /\ work = Idle(Off)
  BY DEF Init, Off
<1>2. /\ work.step = "idle" /\ work.operation = "none" /\ work.next = Off
      /\ work.authoring = NoCommit /\ work.commit = NoCommit /\ work \in Works
      /\ Sound(Off) /\ Storable(Off) /\ Numbered(Off) /\ Compiled(Off) /\ Shown(Off) = {BuiltIn}
  BY <1>1, OffIs
<1>3. /\ repository.commits = <<>> /\ refs = [branch \in Branches |-> NoCommit]
      /\ Len(repository.commits) = 0
      /\ repository \in [commits : Seq(Contents), refs : [Branches -> Nat]]
      /\ \A branch \in Branches : refs[branch] = 0
  BY DEF Init, EmptyRepository, refs, NoCommit
<1>4. NoReceipt \in Receipts
  BY DocumentsAssumption, BranchesAre DEF NoReceipt, Receipts, Commits, NoProposal,
     ProposalReceipts,
     Ids, NoCommit
<1>5. Typed
  <2>1. /\ BuiltIn \in Documents /\ 0 \in 0..MaxSource /\ 0 \in 0..MaxFaults /\ 0 \in 0..MaxStops
    BY BoundsAssumption, DocumentsAssumption
  <2>2. products \subseteq Documents \X (0..MaxSource) /\ <<BuiltIn, 0>> \in products
    BY <2>1 DEF Init
  <2>3. /\ existed = FALSE /\ existedRef = FALSE /\ marker = "absent" /\ receipt = NoReceipt
        /\ receiptRef = NoReceipt /\ phase = "off" /\ idSequence = 0 /\ entering = "idle"
        /\ faults = 0 /\ stops = 0 /\ sources = 0 /\ inDoubt = FALSE /\ halfSaved = FALSE
    BY DEF Init
  <2>4. /\ \A branch \in Branches : refs[branch] \in 0..Len(repository.commits)
        /\ work.authoring \in 0..Len(repository.commits)
        /\ work.commit \in 0..Len(repository.commits)
    BY <1>2, <1>3 DEF NoCommit
  <2>5. /\ faults \in 0..MaxFaults /\ stops \in 0..MaxStops /\ sources \in 0..MaxSource
        /\ idSequence \in Nat /\ entering \in Entering
    BY <2>1, <2>3 DEF Entering
  <2> QED
    BY <1>2, <1>3, <1>4, <2>2, <2>3, <2>4, <2>5 DEF Typed
<1>6. KernelIsSound
  BY <1>1, <1>2, <1>3 DEF KernelIsSound, Saving
<1>7. OneReceipt
  BY <1>2 DEF Init, OneReceipt, Saving, InitSteps, RepairSteps
<1>8. Unread
  BY <1>1, <1>2 DEF Init, Unread, Saving
<1>9. Follows /\ Chain
  BY <1>2 DEF Follows, Chain, Saving, InitSteps, RepairSteps, Clearing
<1>10. Matches
  BY <1>2 DEF Init, Matches, Clearing
<1>11. Decided
  <2>1. <<BuiltIn, 0>> \in products /\ <<BuiltIn, 0>>[1] = BuiltIn
    BY DEF Init
  <2>2. BuiltIn \in DecidedDocuments
    BY <2>1 DEF DecidedDocuments
  <2> QED
    BY <1>1, <1>2, <1>3, <2>2 DEF Decided
<1>12. Stored /\ StoredSafe
  BY <1>3, BranchesAre DEF Init, Stored, StoredSafe, NoCommit
<1> QED
  BY <1>5, <1>6, <1>7, <1>8, <1>9, <1>10, <1>11, <1>12 DEF Inv

\* Nothing changes.
LEMMA StutterInv ==
    ASSUME Inv, UNCHANGED vars
    PROVE  Inv'
<1> USE DEF Inv, vars, durable, memory, history
<1>1. Typed' /\ KernelIsSound'
  BY DEF Typed, KernelIsSound, Saving, SnapshotAt, refs
<1>2. OneReceipt' /\ Unread' /\ Follows'
  BY DEF OneReceipt, Unread, Follows, Saving, Written, Commit
<1>3. Chain'
  BY DEF Chain, Commit, SnapshotAt, refs, nextLastKnownGood, branchOfNext
<1>4. Matches' /\ Decided'
  BY DEF Matches, Match, refs, Decided, DecidedDocuments, SnapshotAt
<1>5. Stored' /\ StoredSafe'
  BY DEF Stored, StoredSafe, refs, SnapshotAt, Commit, Backed, Pair, Plain, Current, SafeReflects
<1> QED
  BY <1>1, <1>2, <1>3, <1>4, <1>5

\* A first start finds no repository and begins to make one.
LEMMA LoadNewInv ==
    ASSUME Inv, loadNew
    PROVE  Inv'
<1> USE DEF Inv
<1>1. /\ phase = "off" /\ receiptRef = NoReceipt /\ work.step = "idle" /\ work.commit = NoCommit
      /\ existed' = TRUE /\ existedRef' = FALSE /\ phase' = "loading"
      /\ UNCHANGED <<repository, marker, receipt, kernel, idSequence, receiptRef, entering,
                     faults, stops, sources, products, inDoubt, halfSaved>>
  BY DEF loadNew, OneReceipt, Chain, history
<1>2. /\ work' = [step |-> "init", operation |-> "none", next |-> kernel, authoring |-> NoCommit,
                  commit |-> NoCommit]
  BY DEF loadNew, Idle
<1>3. /\ work'.step = "init" /\ work'.operation = "none" /\ work'.next = kernel
      /\ work'.authoring = NoCommit /\ work'.commit = NoCommit
  BY <1>2
<1>4. work' \in Works /\ kernel \in KernelStates
  BY <1>2 DEF Works, Steps, Operations, Commits, NoCommit, Sound, KernelIsSound
<1>5. /\ refs' = refs /\ DecidedDocuments' = DecidedDocuments
      /\ \A c : Commit(c)' = Commit(c) /\ SnapshotAt(c)' = SnapshotAt(c)
  BY <1>1 DEF refs, DecidedDocuments, Commit, SnapshotAt
<1>6. receipt # NoReceipt => Written(receipt)' /\ (~halfSaved => Backed(receipt)')
  BY <1>1, <1>5 DEF OneReceipt, Written, Stored, Backed, Pair, Plain, Commit, SnapshotAt
<1>7. Typed'
  BY <1>1, <1>3, <1>4, <1>5 DEF Typed, NoCommit
<1>8. KernelIsSound'
  BY <1>1, <1>3, <1>5 DEF KernelIsSound, Saving
<1>9. OneReceipt'
  BY <1>1, <1>3, <1>6 DEF OneReceipt, Saving, InitSteps, RepairSteps
<1>10. Unread'
  BY <1>1, <1>3 DEF Unread, Saving
<1>11. Follows' /\ Chain'
  BY <1>1, <1>3 DEF Follows, Chain, Saving, InitSteps, RepairSteps, Clearing
<1>12. Matches'
  BY <1>1, <1>3 DEF Matches, Clearing
<1>13. Decided'
  BY <1>1, <1>3, <1>5 DEF Decided, KernelIsSound
<1>14. Stored'
  BY <1>1, <1>3, <1>5, <1>6 DEF Stored, Pair, Plain, Commit, SnapshotAt
<1>15. StoredSafe'
  BY <1>1 DEF StoredSafe
<1> QED
  BY <1>7, <1>8, <1>9, <1>10, <1>11, <1>12, <1>13, <1>14, <1>15

\* A start is made with what was stored when the program last stopped.
LEMMA RebuiltIsBacked ==
    ASSUME Inv, phase = "off", ~halfSaved,
           refs[Accepted] # NoCommit, refs[LastKnownGood] # NoCommit, NEW r,
           r = [acceptedCommit |-> refs[Accepted], lastKnownGoodCommit |-> refs[LastKnownGood],
                proposal |-> NoProposal]
    PROVE  Backed(r)
<1>1. work.commit = NoCommit
  BY DEF Inv, OneReceipt, Chain
<1>2. Pair(refs[Accepted], refs[LastKnownGood])
  BY <1>1 DEF Inv, Stored
<1> QED
  BY <1>2 DEF Backed, Pair, Plain, Commit, SnapshotAt

\* A start without a receipt that can be followed recovers from the refs, or in safe mode.
LEMMA RecoverInv ==
    ASSUME Inv, StartFrame, phase = "off", repository' = repository, NEW loaded,
           loaded \in {unknown, recoverActivation}, Start(loaded), inDoubt'
    PROVE  Inv'
<1> USE DEF Inv
<1> DEFINE r == [acceptedCommit |-> refs[Accepted],
                 lastKnownGoodCommit |-> refs[LastKnownGood], proposal |-> NoProposal]
<1>1. Committed
  BY NothingCommitted
<1>2. work.commit = NoCommit
  BY DEF OneReceipt, Chain
<1>3. ~halfSaved /\ (refs[Accepted] # NoCommit)' /\ (refs[LastKnownGood] # NoCommit)' =>
        Pair(refs[Accepted], refs[LastKnownGood])'
  BY <1>2 DEF Stored, Pair, Plain, Commit, SnapshotAt, refs
<1>4. CASE loaded = unknown
  <2>1. Nothing(loaded)
    BY <1>4, UnknownIs
  <2> QED
    BY <1>1, <1>3, <2>1, StartNothing
<1>5. CASE loaded = recoverActivation /\ recoverActivation # unknown
  <2>1. /\ refs[Accepted] # NoCommit /\ refs[LastKnownGood] # NoCommit
        /\ Known(loaded, r, refs[LastKnownGood])
    BY <1>5, RecoverIs
  <2>2. ~halfSaved => Backed(r)
    BY <2>1, RebuiltIsBacked
  <2> SUFFICES ASSUME NEW c, c = refs[LastKnownGood], NEW q, q = r
               PROVE  Inv'
    OBVIOUS
  <2>3. Known(loaded, q, c) /\ (~halfSaved => Backed(q))
    BY <2>1, <2>2
  <2> QED
    BY <2>3, StartKnown
<1> QED
  BY <1>4, <1>5

\* A start that reads the receipt, asked for safe mode or not.
LEMMA LoadExistingInv ==
    ASSUME Inv, NEW safeMode \in SafeStarts, loadExisting(safeMode)
    PROVE  Inv'
<1> USE DEF Inv
<1>1. safeMode \in BOOLEAN
  BY SafeStartsAssumption
<1>2. /\ StartFrame /\ phase = "off" /\ repository' = repository
      /\ Start(load(safeMode)) /\ inDoubt' = (safeMode \/ load(safeMode).recovered)
  <2>1. (safeMode \/ load(safeMode).recovered) \in BOOLEAN
    OBVIOUS
  <2> QED
    BY <2>1 DEF loadExisting, StartFrame, Typed
<1>3. CASE activation # {}
  <2>1. /\ Known(load(safeMode), receipt, Current(receipt)) /\ load(safeMode).recovered = safeMode
        /\ receipt # NoReceipt
    BY <1>1, <1>3, LoadIs, ActivationIs
  <2>2. ~halfSaved => Backed(receipt)
    BY <2>1 DEF Stored
  <2> SUFFICES ASSUME NEW r, r = receipt, NEW c, c = Current(receipt), NEW loaded,
                      loaded = load(safeMode)
               PROVE  Inv'
    OBVIOUS
  <2>3. /\ Known(loaded, r, c) /\ Start(loaded) /\ (loaded.recovered => inDoubt')
        /\ (~halfSaved => Backed(r))
    BY <1>2, <2>1, <2>2 DEF Known, Backed, Pair, Plain, Commit, SnapshotAt, Written, Match
  <2> QED
    BY <1>2, <2>3, StartKnown
<1>4. CASE activation = {}
  <2> SUFFICES ASSUME NEW loaded, loaded = load(safeMode)
               PROVE  Inv'
    OBVIOUS
  <2>1. loaded = recoverActivation /\ Start(loaded) /\ loaded.recovered
    BY <1>1, <1>2, <1>4, LoadIs, RecoverIs, UnknownIs
  <2>2. inDoubt'
    BY <1>2, <2>1
  <2> QED
    BY <1>2, <2>1, <2>2, RecoverInv
<1> QED
  BY <1>3, <1>4

\* A start that a failing request keeps from the receipt, the refs or the marker.
LEMMA LoadFailsInv ==
    ASSUME Inv, NEW outcome \in {unknown, recoverActivation, unreadMarker}, loadFails(outcome)
    PROVE  Inv'
<1> USE DEF Inv
<1>1. /\ StartFrame /\ phase = "off" /\ repository' = repository
      /\ Start(outcome) /\ inDoubt'
  BY BoundsAssumption DEF loadFails, StartFrame, Typed, Fails
<1>2. CASE outcome \in {unknown, recoverActivation}
  BY <1>1, <1>2, RecoverInv
<1>3. CASE outcome = unreadMarker
  <2>1. \/ /\ activation # {} /\ Known(load(FALSE), receipt, Current(receipt))
           /\ load(FALSE).recovered = FALSE
           /\ load(FALSE).snapshot = SnapshotAt(Current(receipt))
        \/ load(FALSE) = recoverActivation
    BY LoadIs
  <2>2. CASE /\ activation # {} /\ Known(load(FALSE), receipt, Current(receipt))
             /\ load(FALSE).recovered = FALSE
             /\ load(FALSE).snapshot = SnapshotAt(Current(receipt))
    <3>1. receipt # NoReceipt
      BY <2>2, ActivationIs
    <3>2. ~halfSaved => Backed(receipt)
      BY <3>1 DEF Stored
    <3> SUFFICES ASSUME NEW r, r = receipt, NEW c, c = Current(receipt)
                 PROVE  Inv'
      OBVIOUS
    <3>3. load(FALSE) \in [snapshot : {load(FALSE).snapshot}, recovered : BOOLEAN,
                            recovery : BOOLEAN, receipt : {receipt}, receiptRef : {receipt}]
      BY <2>2 DEF load, Outcome, Known
    <3>4. /\ outcome.snapshot = load(FALSE).snapshot /\ outcome.recovered = FALSE
          /\ outcome.recovery = TRUE /\ outcome.receipt = r /\ outcome.receiptRef = r
      BY <1>3, <2>2, <3>3 DEF unreadMarker
    <3>5. Known(outcome, r, c) /\ (~halfSaved => Backed(r))
      BY <2>2, <3>2, <3>4 DEF Known, Backed, Pair, Plain, Commit, SnapshotAt, Written, Match
    <3> QED
      BY <1>1, <3>5, StartKnown
  <2>3. CASE load(FALSE) = recoverActivation
    <3>1. CASE recoverActivation = unknown
      <4>1. Nothing(outcome)
        <5>1. outcome = [unknown EXCEPT !.recovery = TRUE]
          BY <1>3, <2>3, <3>1 DEF unreadMarker
        <5> QED
          BY <5>1 DEF unknown, Outcome, Nothing
      <4>2. Committed
        BY <1>1, NothingCommitted
      <4>3. work.commit = NoCommit
        BY <1>1 DEF OneReceipt, Chain
      <4>4. ~halfSaved /\ (refs[Accepted] # NoCommit)' /\ (refs[LastKnownGood] # NoCommit)' =>
              Pair(refs[Accepted], refs[LastKnownGood])'
        BY <1>1, <4>3 DEF Stored, Pair, Plain, Commit, SnapshotAt, refs
      <4> QED
        BY <1>1, <4>1, <4>2, <4>4, StartNothing
    <3>2. CASE recoverActivation # unknown
      <4> DEFINE r == [acceptedCommit |-> refs[Accepted],
                       lastKnownGoodCommit |-> refs[LastKnownGood], proposal |-> NoProposal]
      <4>1. /\ refs[Accepted] # NoCommit /\ refs[LastKnownGood] # NoCommit
            /\ Known(recoverActivation, r, refs[LastKnownGood])
            /\ recoverActivation.recovered
        BY <3>2, RecoverIs
      <4>2. ~halfSaved => Backed(r)
        BY <1>1, <4>1, RebuiltIsBacked
      <4> SUFFICES ASSUME NEW c, c = refs[LastKnownGood], NEW q, q = r
                   PROVE  Inv'
        OBVIOUS
      <4>3. recoverActivation \in [snapshot : {recoverActivation.snapshot}, recovered : BOOLEAN,
                                   recovery : BOOLEAN, receipt : {recoverActivation.receipt},
                                   receiptRef : {recoverActivation.receiptRef}]
        BY DEF recoverActivation, unknown, Outcome
      <4>4. /\ outcome.snapshot = recoverActivation.snapshot
            /\ outcome.recovered = recoverActivation.recovered
            /\ outcome.recovery = TRUE /\ outcome.receipt = recoverActivation.receipt
            /\ outcome.receiptRef = recoverActivation.receiptRef
        BY <1>3, <2>3, <4>3 DEF unreadMarker
      <4>5. Known(outcome, q, c) /\ (~halfSaved => Backed(q))
        BY <4>1, <4>2, <4>4 DEF Known
      <4> QED
        BY <1>1, <4>5, StartKnown
    <3> QED
      BY <3>1, <3>2
  <2> QED
    BY <2>1, <2>2, <2>3
<1> QED
  BY <1>2, <1>3

\* The program stops between two requests: what is in memory is gone.
LEMMA StopInv ==
    ASSUME Inv, stop
    PROVE  Inv'
<1> USE DEF Inv
<1>1. /\ kernel' = Off /\ work' = Idle(Off) /\ phase' = "off" /\ receiptRef' = NoReceipt
      /\ idSequence' = 0 /\ existedRef' = FALSE /\ entering' = "idle" /\ stops' = stops + 1
      /\ stops < MaxStops /\ halfSaved' = (halfSaved \/ work.commit # NoCommit)
      /\ UNCHANGED <<existed, repository, marker, receipt, faults, sources, products, inDoubt>>
  BY DEF stop, Off, durable
<1>2. /\ work'.step = "idle" /\ work'.operation = "none" /\ work'.next = Off
      /\ work'.authoring = NoCommit /\ work'.commit = NoCommit /\ work' \in Works
      /\ Sound(Off) /\ Storable(Off) /\ Numbered(Off) /\ Compiled(Off) /\ Shown(Off) = {BuiltIn}
  BY <1>1, OffIs
<1>3. /\ refs' = refs /\ DecidedDocuments' = DecidedDocuments
      /\ \A c : Commit(c)' = Commit(c) /\ SnapshotAt(c)' = SnapshotAt(c)
  BY <1>1 DEF refs, DecidedDocuments, Commit, SnapshotAt
<1>4. receipt # NoReceipt => Written(receipt)' /\ (~halfSaved => Backed(receipt)')
  BY <1>1, <1>3 DEF OneReceipt, Written, Stored, Backed, Pair, Plain, Commit, SnapshotAt
<1>5. NoReceipt \in Receipts
  BY DocumentsAssumption, BranchesAre DEF NoReceipt, Receipts, Commits, NoProposal,
     ProposalReceipts,
     Ids, NoCommit
<1>6. Typed'
  <2>1. stops' \in 0..MaxStops /\ 0 \in Nat /\ entering' \in Entering
    BY <1>1, BoundsAssumption DEF Typed, Entering
  <2>2. halfSaved' \in BOOLEAN
    BY <1>1 DEF Typed
  <2>3. /\ 0 \in 0..Len(repository'.commits) /\ work'.authoring = 0 /\ work'.commit = 0
    BY <1>1, <1>2, RepositoryTyped DEF NoCommit
  <2>4. work'.authoring \in 0..Len(repository'.commits) /\ work'.commit \in 0..Len(repository'.commits)
    BY <2>3
  <2> QED
    BY <1>1, <1>2, <1>3, <1>5, <2>1, <2>2, <2>4 DEF Typed
<1>7. KernelIsSound'
  BY <1>1, <1>2, <1>3 DEF KernelIsSound, Saving
<1>8. OneReceipt'
  BY <1>1, <1>2, <1>4 DEF OneReceipt, Saving, InitSteps, RepairSteps
<1>9. Unread'
  BY <1>1, <1>2 DEF Unread, Saving
<1>10. Follows' /\ Chain'
  BY <1>2 DEF Follows, Chain, Saving, InitSteps, RepairSteps, Clearing
<1>11. Matches'
  BY <1>1, <1>2 DEF Matches, Clearing
<1>12. Decided'
  <2>1. BuiltIn \in DecidedDocuments
    BY DEF Typed, DecidedDocuments
  <2> QED
    BY <1>1, <1>2, <1>3, <2>1 DEF Decided
<1>13. Stored'
  BY <1>1, <1>2, <1>3, <1>4 DEF Stored, Pair, Plain, Commit, SnapshotAt
<1>14. StoredSafe'
  BY <1>1 DEF StoredSafe
<1> QED
  BY <1>6, <1>7, <1>8, <1>9, <1>10, <1>11, <1>12, <1>13, <1>14

-----------------------------------------------------------------------------
(* The marker, and the agent.                                                   *)

\* Reading the marker of a pending recovery.
LEMMA ReadMarkerInv ==
    ASSUME Inv, readMarker
    PROVE  Inv'
<1> USE DEF Inv, readMarker, durable, history
<1>1. Typed' /\ KernelIsSound'
  BY DEF Typed, KernelIsSound, Saving, SnapshotAt, refs, Entering
<1>2. OneReceipt' /\ Unread' /\ Follows'
  BY DEF OneReceipt, Unread, Follows, Saving, Written, Commit
<1>3. Chain'
  BY DEF Chain, Commit, SnapshotAt, refs, nextLastKnownGood, branchOfNext
<1>4. Matches' /\ Decided'
  BY DEF Matches, Match, refs, Decided, DecidedDocuments, SnapshotAt
<1>5. Stored' /\ StoredSafe'
  BY DEF Stored, StoredSafe, refs, SnapshotAt, Commit, Backed, Pair, Plain, Current, SafeReflects
<1> QED
  BY <1>1, <1>2, <1>3, <1>4, <1>5

\* A marker is written: a clear that has read the old one will be refused.
LEMMA MarkRecoveryInv ==
    ASSUME Inv, markRecovery
    PROVE  Inv'
<1> USE DEF Inv, history
<1>1. /\ phase = "on" /\ entering' \in Entering /\ marker' \in {"absent", "pending", "clear"}
      /\ faults' \in 0..MaxFaults
      /\ \/ work' = work
         \/ work.step = "write-clear" /\ work' = [work EXCEPT !.step = "clear-refused"]
      /\ UNCHANGED <<existed, repository, receipt, phase, kernel, idSequence, receiptRef, existedRef,
                     stops, sources, products, inDoubt, halfSaved>>
  BY BoundsAssumption DEF markRecovery, Entering, Typed, Fails
<1>2. /\ work' \in Works /\ work'.next = work.next /\ work'.operation = work.operation
      /\ work'.authoring = work.authoring /\ work'.commit = work.commit
      /\ \/ work'.step = work.step
         \/ work.step = "write-clear" /\ work'.step = "clear-refused"
  BY <1>1 DEF Typed, Works, Steps
<1>3. Typed' /\ KernelIsSound'
  BY <1>1, <1>2 DEF Typed, KernelIsSound, Saving, SnapshotAt, refs
<1>4. OneReceipt' /\ Unread'
  BY <1>1, <1>2 DEF OneReceipt, Unread, Saving, Written, Commit, InitSteps, RepairSteps
<1>5. Follows'
  BY <1>1, <1>2 DEF Follows, Saving
<1>6. Chain'
  BY <1>1, <1>2 DEF Chain, Commit, SnapshotAt, refs, nextLastKnownGood, branchOfNext, InitSteps,
     RepairSteps, Clearing
<1>7. Matches' /\ Decided'
  BY <1>1, <1>2 DEF Matches, Match, refs, Decided, DecidedDocuments, SnapshotAt, Clearing
<1>8. (work'.step \in Clearing) <=> (work.step \in Clearing)
  BY <1>2 DEF Clearing
<1>9. Stored'
  BY <1>1, <1>2, <1>8 DEF Stored, refs, SnapshotAt, Commit, Backed, Pair, Plain, Current
<1>10. StoredSafe'
  BY <1>1, <1>2, <1>8 DEF StoredSafe, SnapshotAt, Commit, Plain, Current, SafeReflects
<1> QED
  BY <1>3, <1>4, <1>5, <1>6, <1>7, <1>9, <1>10

\* The agent commits to flect/authoring, which no receipt names.
LEMMA AuthorSourceInv ==
    ASSUME Inv, authorSource
    PROVE  Inv'
<1> USE DEF Inv
<1> DEFINE parent == IF refs[Authoring] # NoCommit THEN refs[Authoring] ELSE refs[Accepted]
           content == [snapshot |-> contentAt(parent).snapshot, source |-> sources + 1]
<1>1. /\ phase = "on" /\ sources < MaxSource /\ sources' = sources + 1
      /\ refs[Accepted] # NoCommit
      /\ repository' = checkpointed(repository, Authoring, content)
      /\ UNCHANGED <<existed, marker, receipt, phase, kernel, idSequence, receiptRef, existedRef,
                     entering, work, faults, stops, products, inDoubt, halfSaved>>
  BY DEF authorSource, memory, history
<1>2. Commit(parent)
  BY <1>1, BranchesAre DEF Typed, Commit, NoCommit
<1>3. /\ content.snapshot = SnapshotAt(parent) /\ content \in Contents
      /\ Storable(content.snapshot) /\ Numbered(content.snapshot)
      /\ Shown(content.snapshot) \subseteq DecidedDocuments'
  <2>1. /\ SnapshotAt(parent) \in Snapshots /\ Storable(SnapshotAt(parent))
        /\ Numbered(SnapshotAt(parent)) /\ contentAt(parent).snapshot = SnapshotAt(parent)
    BY <1>2, CommitIs
  <2>2. Shown(SnapshotAt(parent)) \subseteq DecidedDocuments /\ DecidedDocuments' = DecidedDocuments
    BY <1>1, <1>2 DEF Decided, Commit, DecidedDocuments
  <2>3. sources + 1 \in 0..MaxSource
    BY <1>1, BoundsAssumption DEF Typed
  <2> QED
    BY <2>1, <2>2, <2>3 DEF Contents
<1> HIDE DEF content
<1>4. /\ Committed /\ Len(repository'.commits) = Len(repository.commits) + 1
      /\ \A c \in 0..Len(repository.commits) : c \in 0..Len(repository'.commits)
      /\ \A other \in Branches \ {Authoring} : refs'[other] = refs[other]
  <2> SUFFICES ASSUME NEW n, n = Len(repository.commits) + 1
               PROVE  /\ Committed /\ Len(repository'.commits) = n
                      /\ \A c \in 0..Len(repository.commits) : c \in 0..n
                      /\ \A other \in Branches \ {Authoring} : refs'[other] = refs[other]
    OBVIOUS
  <2> QED
    BY <1>1, <1>3, BranchesAre, CheckpointCommits
<1>5. /\ refs'[Accepted] = refs[Accepted] /\ refs'[LastKnownGood] = refs[LastKnownGood]
      /\ \A id \in 1..MaxId : refs'[ProposalBranch(id)] = refs[ProposalBranch(id)]
  BY <1>4, BranchesAre
<1>6. /\ \A c : Commit(c) => Commit(c)' /\ SnapshotAt(c)' = SnapshotAt(c)
      /\ \A c \in 1..Len(repository'.commits) :
           /\ Storable(SnapshotAt(c)') /\ Numbered(SnapshotAt(c)')
           /\ Shown(SnapshotAt(c)') \subseteq DecidedDocuments'
      /\ DecidedDocuments' = DecidedDocuments
  <2>1. DecidedDocuments' = DecidedDocuments
    BY <1>1 DEF DecidedDocuments
  <2>2. \A c : Commit(c) => Commit(c)' /\ SnapshotAt(c)' = SnapshotAt(c)
    BY <1>4, GrowingKeeps DEF Committed
  <2> QED
    BY <1>4, <2>1, <2>2, CommittedKeeps
<1>7. /\ receipt # NoReceipt => Written(receipt)' /\ (Backed(receipt) => Backed(receipt)')
      /\ receiptRef # NoReceipt =>
           /\ receipt = receiptRef /\ Written(receiptRef)
           /\ Commit(receiptRef.acceptedCommit) /\ Commit(receiptRef.lastKnownGoodCommit)
           /\ SnapshotAt(Current(receiptRef))' = SnapshotAt(Current(receiptRef))
  BY <1>1, <1>4, ReceiptKept
<1>8. Typed'
  <2>1. sources' \in 0..MaxSource
    BY <1>1, BoundsAssumption DEF Typed
  <2> QED
    BY <1>1, <1>4, <2>1 DEF Typed, Committed
<1>9. KernelIsSound'
  BY <1>1, <1>6 DEF KernelIsSound, Saving
<1>10. OneReceipt'
  BY <1>1, <1>7 DEF OneReceipt, Saving
<1>11. Unread'
  BY <1>1 DEF Unread, Saving
<1>12. Follows'
  BY <1>1 DEF Follows, Saving
<1>13. ASSUME receiptRef # NoReceipt, Match(receiptRef) PROVE Match(receiptRef)'
  <2>1. receiptRef.proposal # NoProposal =>
          refs'[receiptRef.proposal.branch] = refs[receiptRef.proposal.branch]
    BY <1>5, <1>7, <1>13 DEF Written
  <2> QED
    BY <1>1, <1>5, <1>13, <2>1 DEF Match
<1>14. Matches'
  <2>1. work.step \in Clearing => receiptRef # NoReceipt
    BY <1>1 DEF OneReceipt, Saving, Clearing, InitSteps, RepairSteps
  <2> QED
    BY <1>1, <1>13, <2>1 DEF Matches
<1>15. Decided'
  BY <1>1, <1>6 DEF Decided
<1>16. Chain'
  <2>1. Saving /\ work.step \in {"move-authoring", "write-receipt"} /\ work.next.proposal # NoRevision =>
          refs'[branchOfNext] = refs[branchOfNext]
    <3> SUFFICES ASSUME Saving, work.step \in {"move-authoring", "write-receipt"},
                        work.next.proposal # NoRevision
                 PROVE  refs'[branchOfNext] = refs[branchOfNext]
      OBVIOUS
    <3>1. receiptRef # NoReceipt
      BY DEF OneReceipt, InitSteps, RepairSteps
    <3> QED
      BY <1>4, <1>5, <3>1, BranchOfNextIs
  <2>2. Saving <=> work.step # "idle"
    BY <1>1 DEF Saving
  <2>3. /\ branchOfNext' = branchOfNext /\ nextLastKnownGood' = nextLastKnownGood
        /\ snapshotFromState(work.next)' = snapshotFromState(work.next)
    BY <1>1 DEF branchOfNext, nextLastKnownGood, snapshotFromState
  <2> SUFFICES ASSUME NEW c, c = work.commit
               PROVE  Chain'
    OBVIOUS
  <2>4. Commit(c) => Commit(c)' /\ SnapshotAt(c)' = SnapshotAt(c)
    BY <1>6
  <2>5. /\ (Commit(work.commit))' <=> Commit(c)'
        /\ (SnapshotAt(work.commit))' = SnapshotAt(c)'
        /\ Commit(work.commit) <=> Commit(c)
        /\ SnapshotAt(work.commit) = SnapshotAt(c)
    BY <1>1 DEF Commit, SnapshotAt
  <2>6. /\ work.step \in Clearing => receiptRef # NoReceipt
        /\ receiptRef # NoReceipt =>
             (SnapshotAt(Current(receiptRef)))' = SnapshotAt(Current(receiptRef))
    <3>1. SnapshotAt(Current(receiptRef))' = (SnapshotAt(Current(receiptRef)))'
      BY <1>1 DEF SnapshotAt, Current
    <3> QED
      BY <1>1, <1>7, <3>1 DEF OneReceipt, Saving, Clearing, InitSteps, RepairSteps
  <2>7. /\ work' = work /\ inDoubt' = inDoubt /\ receiptRef' = receiptRef
        /\ refs'[Accepted] = refs[Accepted] /\ refs'[LastKnownGood] = refs[LastKnownGood]
    BY <1>1, <1>5
  <2>8. work.step \in Clearing /\ work.commit # NoCommit /\ ~inDoubt =>
          (SnapshotAt(Current(receiptRef)) = snapshotFromState(work.next))'
    BY <2>3, <2>6 DEF Chain
  <2> QED
    BY <2>1, <2>2, <2>3, <2>4, <2>5, <2>7, <2>8 DEF Chain, InitSteps, RepairSteps
<1>17. Stored'
  <2> SUFFICES ASSUME ~halfSaved
               PROVE  Stored'
    BY <1>1 DEF Stored
  <2>1. receipt # NoReceipt => Backed(receipt)'
    BY <1>7 DEF Stored
  <2>2. /\ refs[Accepted] # NoCommit /\ refs[LastKnownGood] # NoCommit /\ work.commit = NoCommit =>
             Pair(refs[Accepted], refs[LastKnownGood])'
    <3> SUFFICES ASSUME NEW a, a = refs[Accepted], NEW l, l = refs[LastKnownGood],
                        work.commit = NoCommit, a # NoCommit, l # NoCommit
                 PROVE  Pair(refs[Accepted], refs[LastKnownGood])'
      OBVIOUS
    <3>1. Pair(a, l)
      BY DEF Stored, Pair, Plain, Commit, SnapshotAt
    <3>2. Pair(a, l)'
      BY <1>4, <3>1, GrowingKeeps DEF Committed
    <3> QED
      BY <1>5, <3>2 DEF Pair, Plain, Commit, SnapshotAt
  <2>3. receiptRef # NoReceipt =>
          SnapshotAt(Current(receiptRef))' = SnapshotAt(Current(receiptRef))
    BY <1>7
  <2> QED
    BY <1>1, <1>5, <2>1, <2>2, <2>3 DEF Stored
<1>18. StoredSafe'
  <2> SUFFICES ASSUME receiptRef # NoReceipt
               PROVE  StoredSafe'
    BY <1>1 DEF StoredSafe
  <2> SUFFICES ASSUME NEW l, l = receiptRef.lastKnownGoodCommit
               PROVE  StoredSafe'
    OBVIOUS
  <2>1. SnapshotAt(l)' = SnapshotAt(l) /\ Commit(l) /\ Commit(l)'
    BY <1>6, <1>7 DEF Commit, SnapshotAt
  <2>2. /\ (SnapshotAt(receiptRef.lastKnownGoodCommit))' = SnapshotAt(receiptRef.lastKnownGoodCommit)
        /\ Plain(receiptRef.lastKnownGoodCommit)' = Plain(receiptRef.lastKnownGoodCommit)
    BY <1>1, <2>1 DEF SnapshotAt, Plain, Commit
  <2>3. SnapshotAt(Current(receiptRef))' = SnapshotAt(Current(receiptRef))
    BY <1>7
  <2> QED
    BY <1>1, <2>2, <2>3 DEF StoredSafe, SafeReflects
<1> QED
  BY <1>8, <1>9, <1>10, <1>11, <1>12, <1>14, <1>15, <1>16, <1>17, <1>18

-----------------------------------------------------------------------------
(* The operations of the kernel.                                                *)

\* A state that an operation may ask to save.
Opens(operation, next) ==
    /\ Sound(next) /\ Writes(next) /\ Numbered(next)
    /\ operation \in {"plain", "restore", "enter", "recover"}
    /\ operation \in {"enter", "recover"} => next.safeMode
    /\ IF next.proposal # NoRevision
       THEN /\ ~kernel.safeMode
            /\ next.active = kernel.active /\ next.lastKnownGood = kernel.lastKnownGood
            /\ next.disabledExtensions = kernel.disabledExtensions
       ELSE CASE next.lastEvent.type = "revision-accepted" ->
                   /\ ~kernel.safeMode /\ ~next.safeMode
                   /\ next.lastKnownGood = kernel.active
                   /\ next.disabledExtensions = kernel.disabledExtensions
              [] next.lastEvent.type = "revision-rolled-back" ->
                   /\ ~next.safeMode /\ next.active = next.lastKnownGood
                   /\ next.lastKnownGood.document = kernel.lastKnownGood.document
              [] OTHER ->
                   /\ next.lastEvent.type \in {"revision-rejected", "extension-failed",
                                               "recovery-requested", "safe-mode-entered"}
                   /\ next.lastKnownGood = kernel.lastKnownGood
                   /\ next.disabledExtensions = kernel.disabledExtensions \/
                        (next.lastEvent.type = "recovery-requested" /\ next.safeMode)
                   /\ next.safeMode \/ (~kernel.safeMode /\ next.active = kernel.active)
                   /\ next.lastEvent.type = "extension-failed" => next.safeMode = kernel.safeMode
    /\ receiptRef = NoReceipt =>
         /\ SameProduct(initialBuiltInSnapshot, next)
         /\ next.proposal = NoRevision
         /\ next.lastEvent.type \notin {"revision-accepted", "recovery-requested"}
         /\ operation \in {"plain", "restore", "enter"}
         /\ operation = "enter" => Compiled(next)
    /\ \/ Shown(next) \subseteq DecidedDocuments
       \/ /\ operation = "plain" /\ ~next.safeMode
          /\ next.lastEvent.type = "revision-accepted" /\ next.proposal = NoRevision
          /\ next.lastKnownGood.document \in DecidedDocuments

\* The first step of a save.
First(next, step) ==
    IF receiptRef = NoReceipt THEN step = "repair"
    ELSE \/ step = "status"
         \/ step = "done" /\ next.safeMode /\ next.lastEvent.type = "safe-mode-entered"

\* Such a save is begun in a state where everything holds.
LEMMA OpensInv ==
    ASSUME Inv, phase = "on", work.step = "idle", NEW operation, NEW next, Opens(operation, next),
           NEW step, First(next, step),
           work' = [Idle(next) EXCEPT !.operation = operation, !.step = step],
           marker' \in {"absent", "pending", "clear"}, faults' \in 0..MaxFaults,
           idSequence' \in Nat,
           UNCHANGED <<existed, repository, receipt, phase, kernel, receiptRef, existedRef,
                       entering, stops, sources, products, inDoubt, halfSaved>>
    PROVE  Inv'
<1> USE DEF Inv
<1>0. /\ work' = [step |-> step, operation |-> operation, next |-> next, authoring |-> NoCommit,
                  commit |-> NoCommit]
      /\ work'.step = step /\ work'.operation = operation /\ work'.next = next
      /\ work'.authoring = NoCommit /\ work'.commit = NoCommit
  <2> SUFFICES ASSUME NEW begun, begun = work'
               PROVE  /\ begun = [step |-> step, operation |-> operation, next |-> next,
                                  authoring |-> NoCommit, commit |-> NoCommit]
                      /\ begun.step = step /\ begun.operation = operation /\ begun.next = next
                      /\ begun.authoring = NoCommit /\ begun.commit = NoCommit
    OBVIOUS
  <2>1. begun = [Idle(next) EXCEPT !.operation = operation, !.step = step]
    OBVIOUS
  <2> QED
    BY ONLY <2>1 DEF Idle
<1>1. /\ step \in {"repair", "status", "done"}
      /\ next \in KernelStates /\ work.commit = NoCommit
  BY DEF First, Opens, Sound, Chain
<1>3. work' \in Works
  BY <1>0, <1>1 DEF Works, Steps, Operations, Commits, NoCommit, Opens
<1>4. /\ refs' = refs /\ DecidedDocuments' = DecidedDocuments
      /\ \A c : Commit(c)' = Commit(c) /\ SnapshotAt(c)' = SnapshotAt(c)
  BY DEF refs, DecidedDocuments, Commit, SnapshotAt
<1>5. receipt # NoReceipt => Written(receipt)' /\ (~halfSaved => Backed(receipt)')
  BY <1>4 DEF OneReceipt, Written, Stored, Backed, Pair, Plain, Commit, SnapshotAt
<1>6. Typed'
  BY <1>0, <1>3, <1>4, RepositoryTyped DEF Typed, NoCommit
<1>7. KernelIsSound'
  BY <1>1, <1>0, <1>4 DEF KernelIsSound, Saving, Opens
<1>8. OneReceipt'
  BY <1>1, <1>0, <1>5 DEF OneReceipt, Saving, InitSteps, RepairSteps, First
<1>9. Unread'
  BY <1>0 DEF Unread, Saving, Opens
<1>10. Follows'
  BY <1>0 DEF Follows, Saving, Opens
<1>11. Chain'
  BY <1>1, <1>0 DEF Chain, InitSteps, RepairSteps, Clearing, First
<1>12. Matches'
  BY <1>1, <1>0, <1>4 DEF Matches, Clearing, Match, First
<1>13. Decided'
  <2>1. receiptRef = NoReceipt \/ next.safeMode => next.lastEvent.type # "revision-accepted"
                                                  \/ Shown(next) \subseteq DecidedDocuments
    BY DEF Opens
  <2>2. \/ Shown(next) \subseteq DecidedDocuments
        \/ /\ step \in {"status", "checkpoint"} /\ operation = "plain"
           /\ next.lastEvent.type = "revision-accepted" /\ next.proposal = NoRevision
           /\ next.lastKnownGood.document \in DecidedDocuments
    BY <2>1 DEF Opens, First
  <2> QED
    BY <1>0, <1>4, <2>2 DEF Decided
<1>14. Stored'
  BY <1>1, <1>0, <1>4, <1>5 DEF Stored, Pair, Plain, Commit, SnapshotAt, Current
<1>15. StoredSafe'
  BY <1>1, <1>0, <1>4 DEF StoredSafe, SafeReflects, Plain, Commit, SnapshotAt, Current
<1> QED
  BY <1>6, <1>7, <1>8, <1>9, <1>10, <1>11, <1>12, <1>13, <1>14, <1>15

\* Such a save, in the words of the model.
LEMMA BeginInv ==
    ASSUME Inv, phase = "on", work.step = "idle", NEW operation, NEW next, Opens(operation, next),
           Begin(operation, next), idSequence' \in Nat, UNCHANGED history
    PROVE  Inv'
<1> DEFINE step == IF receiptRef = NoReceipt THEN "repair" ELSE FirstStep(next)
<1>1. First(next, step)
  BY DEF First, FirstStep
<1>2. /\ work' = [Idle(next) EXCEPT !.operation = operation, !.step = step]
      /\ marker' \in {"absent", "pending", "clear"} /\ faults' \in 0..MaxFaults
      /\ UNCHANGED <<existed, repository, receipt, phase, kernel, receiptRef, existedRef,
                     entering, stops, sources, products, inDoubt, halfSaved>>
  BY DEF Begin, durable, history, Inv, Typed
<1> HIDE DEF step
<1> QED
  BY <1>1, <1>2, OpensInv

\* What an operation starts from.
LEMMA ReadyIs ==
    ASSUME Inv, phase = "on"
    PROVE  /\ Sound(kernel) /\ Storable(kernel) /\ Numbered(kernel) /\ kernel \in KernelStates
           /\ Shown(kernel) \subseteq DecidedDocuments /\ idSequence \in Nat
           /\ kernel.active \in Revisions /\ kernel.lastKnownGood \in Revisions
           /\ kernel.proposal \in Revisions
           /\ kernel.active.document \in DecidedDocuments
           /\ kernel.lastKnownGood.document \in DecidedDocuments
           /\ receiptRef = NoReceipt => kernel.safeMode /\ Compiled(kernel)
           /\ kernel.proposal # NoRevision => ~kernel.safeMode /\ receiptRef # NoReceipt
  BY DEF Inv, KernelIsSound, Decided, Typed, Unread, Sound, KernelStates, Shown, CandidateIsSound,
     Compiled

\* An identifier that is taken names a branch.
LEMMA TakenId ==
    ASSUME Inv, TakeId
    PROVE  nextId \in Nat /\ nextId \in 1..MaxId /\ idSequence' \in Nat /\ nextId # NoId
  BY MaxIdAssumption DEF TakeId, nextId, Inv, Typed, NoId

\* Operations that open, or go on with, a candidate.
LEMMA CandidateOpens ==
    ASSUME Inv, phase = "on", ~kernel.safeMode, NEW next, Sound(next), Writes(next), Numbered(next),
           Shown(next) = Shown(kernel), next.proposal # NoRevision, next.active = kernel.active,
           next.lastKnownGood = kernel.lastKnownGood,
           next.disabledExtensions = kernel.disabledExtensions
    PROVE  Opens("plain", next)
  BY ReadyIs DEF Opens

\* A proposal.
LEMMA ProposeInv ==
    ASSUME Inv, NEW document \in Documents, propose(document)
    PROVE  Inv'
<1> DEFINE next == proposed(kernel, nextId, document, "shaper")
<1>1. /\ phase = "on" /\ work.step = "idle" /\ canPropose(kernel) /\ Begin("plain", next)
      /\ UNCHANGED history /\ ~kernel.safeMode
  BY DEF propose, Ready, canPropose
<1>2. /\ nextId \in Nat /\ nextId \in 1..MaxId /\ nextId # NoId /\ idSequence' \in Nat
  BY TakenId DEF propose
<1>3. Sound(next) /\ Shown(next) = Shown(kernel) /\ Writes(next)
  BY <1>1, <1>2, ReadyIs, ProposedSound, ProposedWrites DEF Sources
<1>4. /\ next.active = kernel.active /\ next.lastKnownGood = kernel.lastKnownGood
      /\ next.disabledExtensions = kernel.disabledExtensions /\ next.proposal.id = nextId
  BY <1>1, ReadyIs DEF proposed, Sequenced, KernelStates, NewRevision
<1>5. next.proposal # NoRevision
  BY <1>2, <1>4 DEF NoRevision
<1> HIDE DEF next
<1>6. Opens("plain", next)
  BY <1>1, <1>2, <1>3, <1>4, <1>5, CandidateOpens DEF Numbered
<1> QED
  BY <1>1, <1>2, <1>6, BeginInv

\* A candidate that an extension asked for.
LEMMA ApplyExtensionIntentsInv ==
    ASSUME Inv, NEW document \in Documents, NEW extension \in Extensions,
           applyExtensionIntents(document, extension)
    PROVE  Inv'
<1> DEFINE next == extensionProposed(kernel, nextId, document, extension, "accepted")
<1>1. /\ phase = "on" /\ work.step = "idle" /\ canApplyExtensionIntents(kernel, "accepted")
      /\ Begin("plain", next) /\ UNCHANGED history /\ ~kernel.safeMode
  BY DEF applyExtensionIntents, Ready, canApplyExtensionIntents
<1>2. /\ nextId \in Nat /\ nextId \in 1..MaxId /\ nextId # NoId /\ idSequence' \in Nat
  BY TakenId DEF applyExtensionIntents
<1>3. Sound(next) /\ Shown(next) = Shown(kernel) /\ Writes(next)
  BY <1>1, <1>2, ReadyIs, ExtensionProposedSound, ExtensionProposedWrites
<1>4. /\ next.active = kernel.active /\ next.lastKnownGood = kernel.lastKnownGood
      /\ next.disabledExtensions = kernel.disabledExtensions /\ next.proposal.id = nextId
  BY <1>1, ReadyIs DEF extensionProposed, Sequenced, KernelStates, NewRevision
<1>5. next.proposal # NoRevision
  BY <1>2, <1>4 DEF NoRevision
<1> HIDE DEF next
<1>6. Opens("plain", next)
  BY <1>1, <1>2, <1>3, <1>4, <1>5, CandidateOpens DEF Numbered
<1> QED
  BY <1>1, <1>2, <1>6, BeginInv

\* A candidate that takes the place of another.
LEMMA SupersedeInv ==
    ASSUME Inv, NEW document \in Documents, supersede(document)
    PROVE  Inv'
<1> DEFINE next == superseded(kernel, nextId, document, "shaper")
<1>1. /\ phase = "on" /\ work.step = "idle" /\ canSupersede(kernel, kernel.proposal.id)
      /\ Begin("plain", next) /\ UNCHANGED history /\ ~kernel.safeMode
  BY DEF supersede, Ready, canSupersede
<1>2. /\ nextId \in Nat /\ nextId \in 1..MaxId /\ nextId # NoId /\ idSequence' \in Nat
  BY TakenId DEF supersede
<1>3. Sound(next) /\ Shown(next) = Shown(kernel) /\ Writes(next)
  BY <1>1, <1>2, ReadyIs, SupersededSound, SupersededWrites DEF Sources
<1>4. /\ next.active = kernel.active /\ next.lastKnownGood = kernel.lastKnownGood
      /\ next.disabledExtensions = kernel.disabledExtensions /\ next.proposal.id = nextId
  BY <1>1, ReadyIs DEF superseded, Sequenced, KernelStates, NewRevision
<1>5. next.proposal # NoRevision
  BY <1>2, <1>4 DEF NoRevision
<1> HIDE DEF next
<1>6. Opens("plain", next)
  BY <1>1, <1>2, <1>3, <1>4, <1>5, CandidateOpens DEF Numbered
<1> QED
  BY <1>1, <1>2, <1>6, BeginInv

\* A candidate is shown beside the product.
LEMMA PreviewInv ==
    ASSUME Inv, preview
    PROVE  Inv'
<1> DEFINE next == previewed(kernel, kernel.proposal.id)
<1>1. /\ phase = "on" /\ work.step = "idle" /\ canPreview(kernel, kernel.proposal.id)
      /\ Begin("plain", next) /\ UNCHANGED history /\ idSequence' = idSequence
      /\ kernel.proposal # NoRevision
  BY DEF preview, Decision, Ready, canPreview, isProposal
<1>2. Sound(next) /\ Shown(next) = Shown(kernel) /\ Writes(next)
  BY <1>1, ReadyIs, PreviewedSound, PreviewedWrites
<1>3. /\ next.active = kernel.active /\ next.lastKnownGood = kernel.lastKnownGood
      /\ next.disabledExtensions = kernel.disabledExtensions
      /\ next.proposal = [kernel.proposal EXCEPT !.status = "previewed"]
  <2> DEFINE sequenced == Sequenced(kernel, "revision-previewed", kernel.proposal.id, NoExtension)
  <2>1. /\ sequenced \in KernelStates /\ sequenced.active = kernel.active
        /\ sequenced.lastKnownGood = kernel.lastKnownGood
        /\ sequenced.disabledExtensions = kernel.disabledExtensions
        /\ sequenced.proposal = kernel.proposal
    <3>1. kernel \in KernelStates /\ kernel.proposal.id \in Ids /\ "revision-previewed" \in EventTypes
      BY <1>1, ReadyIs DEF Revisions, EventTypes
    <3> QED
      BY <3>1, SequencedType
  <2>2. next = [sequenced EXCEPT !.proposal.status = "previewed"]
    BY DEF previewed
  <2> HIDE DEF sequenced, next
  <2> QED
    BY <2>1, <2>2 DEF KernelStates
<1>4. next.proposal.id = kernel.proposal.id /\ next.proposal # NoRevision
  BY <1>1, <1>3, ReadyIs DEF Revisions, NoRevision
<1> HIDE DEF next
<1>5. Numbered(next) /\ ~kernel.safeMode /\ idSequence' \in Nat
  BY <1>1, <1>4, ReadyIs DEF Numbered
<1>6. Opens("plain", next)
  BY <1>1, <1>2, <1>3, <1>4, <1>5, CandidateOpens
<1> QED
  BY <1>1, <1>5, <1>6, BeginInv

\* What deciding on a revision does to the state.
LEMMA DecidingIs ==
    ASSUME NEW state \in KernelStates, NEW revision \in Revisions
    PROVE  LET next == deciding(state, revision)
           IN  /\ next.active = revision /\ next.lastKnownGood = state.active
               /\ next.proposal = NoRevision /\ next.safeMode = FALSE
               /\ next.disabledExtensions = state.disabledExtensions
               /\ next.lastEvent.type = "revision-accepted"
<1> DEFINE sequenced == Sequenced(state, "revision-accepted", revision.id, NoExtension)
           next == deciding(state, revision)
<1>1. revision.id \in Ids /\ "revision-accepted" \in EventTypes
  BY DEF Revisions, EventTypes
<1>2. sequenced \in KernelStates /\ sequenced.disabledExtensions = state.disabledExtensions
  BY <1>1, SequencedType
<1>3. sequenced.lastEvent.type = "revision-accepted"
  BY DEF Sequenced, eventFor, KernelStates
<1>4. next = [sequenced EXCEPT !.active = revision, !.lastKnownGood = state.active,
                               !.proposal = NoRevision, !.safeMode = FALSE,
                               !.failureCounts = NoFailures]
  BY DEF deciding
<1> HIDE DEF sequenced, next
<1>5. /\ next.active = revision /\ next.lastKnownGood = state.active
      /\ next.proposal = NoRevision /\ next.safeMode = FALSE
      /\ next.disabledExtensions = sequenced.disabledExtensions
      /\ next.lastEvent = sequenced.lastEvent
  BY <1>2, <1>4 DEF KernelStates
<1> QED
  BY <1>2, <1>3, <1>5 DEF next

\* A decision may be asked for outside safe mode.
LEMMA DecidingOpens ==
    ASSUME Inv, phase = "on", ~kernel.safeMode, NEW revision \in Revisions, NEW next,
           next = deciding(kernel, revision), Sound(next), Writes(next)
    PROVE  Opens("plain", next)
<1>1. /\ next.active = revision /\ next.lastKnownGood = kernel.active
      /\ next.proposal = NoRevision /\ next.safeMode = FALSE
      /\ next.disabledExtensions = kernel.disabledExtensions
      /\ next.lastEvent.type = "revision-accepted"
  BY ReadyIs, DecidingIs
<1>2. receiptRef # NoReceipt /\ kernel.active.document \in DecidedDocuments
  BY ReadyIs
<1> QED
  BY <1>1, <1>2 DEF Opens, Numbered

\* A revision that is decided as it is made.
LEMMA ApplyLocalRevisionInv ==
    ASSUME Inv, NEW document \in Documents, applyLocalRevision(document)
    PROVE  Inv'
<1> DEFINE revision == NewRevision(kernel, nextId, "accepted", "user", document)
           next == applied(kernel, nextId, document, "user")
<1>1. phase = "on" /\ work.step = "idle" /\ UNCHANGED history
  BY DEF applyLocalRevision, Ready
<1>2. /\ nextId \in Nat /\ nextId \in 1..MaxId /\ nextId # NoId /\ idSequence' \in Nat
  BY TakenId DEF applyLocalRevision
<1>3. CASE canPropose(kernel)
  <2>1. ~kernel.safeMode /\ Begin("plain", next)
    BY <1>3 DEF applyLocalRevision, canPropose
  <2>2. Sound(next) /\ Writes(next)
    BY <1>1, <1>2, ReadyIs, AppliedSound, AppliedWrites DEF Sources
  <2>3. revision \in Revisions /\ next = deciding(kernel, revision)
    BY <1>1, <1>2, ReadyIs, NewRevisionType DEF Statuses, Sources, applied
  <2> HIDE DEF next, revision
  <2>4. Opens("plain", next)
    BY <1>1, <2>1, <2>2, <2>3, DecidingOpens
  <2> QED
    BY <1>1, <1>2, <2>1, <2>4, BeginInv
<1>4. CASE ~canPropose(kernel)
  <2>1. UNCHANGED <<existed, repository, marker, receipt, phase, kernel, receiptRef, existedRef,
                    entering, work, faults, stops, sources, products, inDoubt, halfSaved>>
    BY <1>4 DEF applyLocalRevision, durable, history
  <2> USE DEF Inv
  <2>2. Typed' /\ KernelIsSound'
    BY <1>2, <2>1 DEF Typed, KernelIsSound, Saving, SnapshotAt, refs
  <2>3. OneReceipt' /\ Unread' /\ Follows'
    BY <2>1 DEF OneReceipt, Unread, Follows, Saving, Written, Commit
  <2>4. Chain'
    BY <2>1 DEF Chain, Commit, SnapshotAt, refs, nextLastKnownGood, branchOfNext
  <2>5. Matches' /\ Decided'
    BY <2>1 DEF Matches, Match, refs, Decided, DecidedDocuments, SnapshotAt
  <2>6. Stored' /\ StoredSafe'
    BY <2>1 DEF Stored, StoredSafe, refs, SnapshotAt, Commit, Backed, Pair, Plain, Current,
       SafeReflects
  <2> QED
    BY <2>2, <2>3, <2>4, <2>5, <2>6
<1> QED
  BY <1>3, <1>4

\* The acceptance of the candidate.
LEMMA AcceptInv ==
    ASSUME Inv, accept
    PROVE  Inv'
<1> DEFINE revision == [kernel.proposal EXCEPT !.status = "accepted"]
           next == accepted(kernel)
<1>1. /\ phase = "on" /\ work.step = "idle" /\ canAccept(kernel, kernel.proposal.id)
      /\ Begin("plain", next) /\ UNCHANGED history /\ idSequence' = idSequence
      /\ kernel.proposal # NoRevision
  BY DEF accept, Decision, Ready, canAccept, isProposal
<1>2. Sound(next) /\ Writes(next)
  BY <1>1, ReadyIs, AcceptedSound, AcceptedWrites
<1>3. revision \in Revisions /\ next = deciding(kernel, revision) /\ ~kernel.safeMode
  BY <1>1, ReadyIs DEF Revisions, Statuses, accepted
<1>4. idSequence' \in Nat
  BY <1>1, ReadyIs
<1> HIDE DEF next, revision
<1>5. Opens("plain", next)
  BY <1>1, <1>2, <1>3, DecidingOpens
<1> QED
  BY <1>1, <1>4, <1>5, BeginInv

\* Its rejection.
LEMMA RejectInv ==
    ASSUME Inv, reject
    PROVE  Inv'
<1> DEFINE sequenced == Sequenced(kernel, "revision-rejected", kernel.proposal.id, NoExtension)
           next == rejected(kernel)
<1>1. /\ phase = "on" /\ work.step = "idle" /\ kernel.proposal # NoRevision
      /\ Begin("plain", next) /\ UNCHANGED history /\ idSequence' = idSequence
  BY DEF reject, Decision, Ready
<1>2. /\ Sound(next) /\ Writes(next) /\ Shown(next) = Shown(kernel)
      /\ ~kernel.safeMode /\ receiptRef # NoReceipt /\ Shown(kernel) \subseteq DecidedDocuments
  BY <1>1, ReadyIs, RejectedSound, RejectedWrites
<1>3. /\ next.active = kernel.active /\ next.lastKnownGood = kernel.lastKnownGood
      /\ next.proposal = NoRevision /\ next.disabledExtensions = kernel.disabledExtensions
      /\ next.lastEvent.type = "revision-rejected"
  <2>1. kernel \in KernelStates /\ kernel.proposal.id \in Ids /\ "revision-rejected" \in EventTypes
    BY <1>1, ReadyIs DEF Revisions, EventTypes
  <2>2. /\ sequenced \in KernelStates /\ sequenced.active = kernel.active
        /\ sequenced.lastKnownGood = kernel.lastKnownGood
        /\ sequenced.disabledExtensions = kernel.disabledExtensions
    BY <2>1, SequencedType
  <2>3. sequenced.lastEvent.type = "revision-rejected"
    BY <2>1 DEF Sequenced, eventFor, KernelStates
  <2>4. next = [sequenced EXCEPT !.proposal = NoRevision]
    BY DEF rejected
  <2> HIDE DEF sequenced, next
  <2> QED
    BY <2>2, <2>3, <2>4 DEF KernelStates
<1> HIDE DEF next
<1>4. Opens("plain", next) /\ idSequence' \in Nat
  BY <1>1, <1>2, <1>3, ReadyIs DEF Opens, Numbered
<1> QED
  BY <1>1, <1>4, BeginInv

\* Undoing, and leaving safe mode.
LEMMA RolledBackOpens ==
    ASSUME Inv, phase = "on", NEW next, next = rolledBack(kernel),
           NEW operation \in {"plain", "restore"}
    PROVE  Opens(operation, next)
<1> DEFINE recovered == [kernel.lastKnownGood EXCEPT !.source = "recovery", !.status = "accepted"]
           sequenced == Sequenced(kernel, "revision-rolled-back", recovered.id, NoExtension)
<1>1. /\ Sound(next) /\ Writes(next) /\ Shown(next) = {kernel.lastKnownGood.document}
      /\ kernel.lastKnownGood.document \in DecidedDocuments
      /\ kernel \in KernelStates /\ kernel.lastKnownGood \in Revisions
  BY ReadyIs, RolledBackSound, RolledBackWrites
<1>2. /\ recovered.id = kernel.lastKnownGood.id /\ recovered.document = kernel.lastKnownGood.document
      /\ recovered.id \in Ids
  BY <1>1 DEF Revisions
<1>3. next = [sequenced EXCEPT !.active = recovered, !.lastKnownGood = recovered,
                               !.proposal = NoRevision, !.safeMode = FALSE,
                               !.failureCounts = NoFailures]
  BY DEF rolledBack
<1>4. /\ sequenced \in KernelStates
      /\ sequenced.disabledExtensions = kernel.disabledExtensions
  BY <1>1, <1>2, SequencedType DEF EventTypes
<1>5. sequenced.lastEvent.type = "revision-rolled-back"
  BY <1>1 DEF Sequenced, eventFor, KernelStates
<1> HIDE DEF recovered, sequenced
<1>6. /\ next.active = recovered /\ next.lastKnownGood = recovered
      /\ next.proposal = NoRevision /\ next.safeMode = FALSE
      /\ next.disabledExtensions = sequenced.disabledExtensions
      /\ next.lastEvent = sequenced.lastEvent
  BY <1>3, <1>4 DEF KernelStates
<1>7. ASSUME receiptRef = NoReceipt PROVE SameProduct(initialBuiltInSnapshot, next)
  <2>1. /\ kernel.lastKnownGood = InitialRevision /\ kernel.disabledExtensions = {}
    BY <1>7, ReadyIs DEF Compiled
  <2> QED
    BY <1>2, <1>4, <1>6, <2>1, BuiltInIs DEF SameProduct
<1> QED
  BY <1>1, <1>2, <1>4, <1>5, <1>6, <1>7 DEF Opens, Numbered

\* The undo of a decision,
LEMMA RollbackInv ==
    ASSUME Inv, rollback
    PROVE  Inv'
<1> DEFINE next == rolledBack(kernel)
<1>1. /\ phase = "on" /\ work.step = "idle" /\ Begin("plain", next) /\ UNCHANGED history
      /\ idSequence' = idSequence
  BY DEF rollback, Decision, Ready
<1>2. idSequence' \in Nat
  BY <1>1, ReadyIs
<1>3. Opens("plain", next)
  BY <1>1, RolledBackOpens
<1> HIDE DEF next
<1> QED
  BY <1>1, <1>2, <1>3, BeginInv

\* and the restore out of safe mode.
LEMMA RestoreInv ==
    ASSUME Inv, restoreLastKnownGood
    PROVE  Inv'
<1> DEFINE next == rolledBack(kernel)
<1>1. /\ phase = "on" /\ work.step = "idle" /\ Begin("restore", next) /\ UNCHANGED history
      /\ idSequence' = idSequence
  BY DEF restoreLastKnownGood, Ready
<1>2. idSequence' \in Nat
  BY <1>1, ReadyIs
<1>3. Opens("restore", next)
  BY <1>1, RolledBackOpens
<1> HIDE DEF next
<1> QED
  BY <1>1, <1>2, <1>3, BeginInv

\* An extension failed.
LEMMA RecordExtensionFailureInv ==
    ASSUME Inv, NEW extension \in Extensions, recordExtensionFailure(extension)
    PROVE  Inv'
<1> DEFINE sequenced == Sequenced(kernel, "extension-failed", NoId, extension)
           counts == [kernel.failureCounts EXCEPT ![extension] = @ + 1]
           next == extensionFailed(kernel, extension)
<1>1. /\ phase = "on" /\ work.step = "idle" /\ extension \notin kernel.disabledExtensions
      /\ ~shouldRecover(kernel, extension)
      /\ Begin("plain", next) /\ UNCHANGED history /\ idSequence' = idSequence
  BY DEF recordExtensionFailure, Decision, Ready
<1>2. /\ Sound(next) /\ Writes(next) /\ Shown(next) = Shown(kernel)
      /\ Shown(kernel) \subseteq DecidedDocuments /\ kernel \in KernelStates
  BY <1>1, ReadyIs, ExtensionFailedSound, ExtensionFailedWrites
<1>3. /\ next.active = kernel.active /\ next.lastKnownGood = kernel.lastKnownGood
      /\ next.proposal = kernel.proposal /\ next.safeMode = kernel.safeMode
      /\ next.disabledExtensions = kernel.disabledExtensions
      /\ next.lastEvent.type = "extension-failed"
  <2>1. /\ sequenced \in KernelStates /\ sequenced.active = kernel.active
        /\ sequenced.lastKnownGood = kernel.lastKnownGood
        /\ sequenced.proposal = kernel.proposal /\ sequenced.safeMode = kernel.safeMode
        /\ sequenced.disabledExtensions = kernel.disabledExtensions
        /\ sequenced.failureCounts = kernel.failureCounts
    <3>1. /\ NoId \in Ids /\ "extension-failed" \in EventTypes
          /\ extension \in Extensions \union {NoExtension}
      BY DEF Ids, EventTypes
    <3> QED
      BY <1>2, <3>1, SequencedType
  <2>2. sequenced.lastEvent.type = "extension-failed"
    BY <1>2 DEF Sequenced, eventFor, KernelStates
  <2>3. next = [sequenced EXCEPT !.failureCounts[extension] = @ + 1]
    BY DEF extensionFailed
  <2> HIDE DEF sequenced, next, counts
  <2> QED
    BY <2>1, <2>2, <2>3 DEF KernelStates
<1>4. Numbered(next) /\ idSequence' \in Nat
  BY <1>1, <1>3, ReadyIs DEF Numbered
<1>5. ASSUME receiptRef = NoReceipt
      PROVE  SameProduct(initialBuiltInSnapshot, next) /\ next.proposal = NoRevision
  <2>1. /\ kernel.lastKnownGood = InitialRevision /\ kernel.disabledExtensions = {}
        /\ kernel.proposal = NoRevision /\ kernel.active = InitialRevision
    BY <1>1, <1>5, ReadyIs DEF Compiled, Sound, SafeModeIsSound
  <2> QED
    BY <1>3, <2>1, BuiltInIs DEF SameProduct
<1>6. kernel.proposal # NoRevision => ~kernel.safeMode
  BY <1>1, ReadyIs
<1> HIDE DEF next
<1>7. Opens("plain", next)
  BY <1>2, <1>3, <1>4, <1>5, <1>6 DEF Opens
<1> QED
  BY <1>1, <1>4, <1>7, BeginInv

\* The kernel goes into safe mode.
LEMMA EnterSafeModeInv ==
    ASSUME Inv, enterSafeMode
    PROVE  Inv'
<1> DEFINE sequenced == Sequenced(kernel, "safe-mode-entered", kernel.lastKnownGood.id, NoExtension)
           next == safeModeEntered(kernel)
<1>1. /\ phase = "on" /\ work.step = "idle" /\ Begin("enter", next) /\ UNCHANGED history
      /\ idSequence' = idSequence
  BY DEF enterSafeMode
<1>2. /\ Sound(next) /\ Writes(next) /\ Shown(next) = {BuiltIn, kernel.lastKnownGood.document}
      /\ kernel \in KernelStates /\ kernel.lastKnownGood.document \in DecidedDocuments
      /\ kernel.lastKnownGood.id \in Ids
  BY <1>1, ReadyIs, SafeModeEnteredSound, SafeModeEnteredWrites DEF Revisions
<1>3. /\ next.active = InitialRevision /\ next.lastKnownGood = kernel.lastKnownGood
      /\ next.proposal = NoRevision /\ next.safeMode = TRUE
      /\ next.disabledExtensions = kernel.disabledExtensions
      /\ next.failureCounts = kernel.failureCounts
      /\ next.lastEvent.type = "safe-mode-entered"
  <2>1. /\ sequenced \in KernelStates /\ sequenced.lastKnownGood = kernel.lastKnownGood
        /\ sequenced.disabledExtensions = kernel.disabledExtensions
        /\ sequenced.failureCounts = kernel.failureCounts
    BY <1>2, SequencedType DEF EventTypes
  <2>2. sequenced.lastEvent.type = "safe-mode-entered"
    BY <1>2 DEF Sequenced, eventFor, KernelStates
  <2>3. next = [sequenced EXCEPT !.active = InitialRevision, !.proposal = NoRevision,
                                 !.safeMode = TRUE]
    BY DEF safeModeEntered, Protected
  <2> HIDE DEF sequenced, next
  <2> QED
    BY <2>1, <2>2, <2>3 DEF KernelStates
<1>4. BuiltIn \in DecidedDocuments /\ idSequence' \in Nat
  BY <1>1, ReadyIs DEF Inv, Typed, DecidedDocuments
<1>5. ASSUME receiptRef = NoReceipt
      PROVE  SameProduct(initialBuiltInSnapshot, next) /\ Compiled(next)
  <2>1. Compiled(kernel)
    BY <1>1, <1>5, ReadyIs
  <2> HIDE DEF next
  <2> QED
    BY <1>3, <2>1, BuiltInIs DEF SameProduct, Compiled
<1> HIDE DEF next
<1>6. Opens("enter", next)
  BY <1>2, <1>3, <1>4, <1>5 DEF Opens, Numbered
<1> QED
  BY <1>1, <1>4, <1>6, BeginInv

\* A failing extension is disabled and recovery asked for.
LEMMA RequestRecoveryInv ==
    ASSUME Inv, NEW extension \in Extensions, requestRecovery(extension)
    PROVE  Inv'
<1> DEFINE sequenced == Sequenced(kernel, "recovery-requested", kernel.lastKnownGood.id, extension)
           protected == Protected(sequenced)
           next == recoveryRequested(kernel, extension)
           step == IF receiptRef = NoReceipt THEN "repair" ELSE "status"
<1>1. /\ phase = "on" /\ work.step = "idle" /\ extension \notin kernel.disabledExtensions
      /\ shouldRecover(kernel, extension)
      /\ work' = [Idle(next) EXCEPT !.operation = "recover", !.step = step]
      /\ marker' \in {"absent", "pending", "clear"} /\ faults' \in 0..MaxFaults
      /\ UNCHANGED <<existed, repository, receipt, phase, kernel, idSequence, receiptRef, existedRef,
                     entering, stops, sources, products, inDoubt, halfSaved>>
  BY BoundsAssumption DEF requestRecovery, Ready, history, Inv, Typed, Fails
<1>2. /\ Sound(next) /\ Writes(next) /\ Shown(next) = {BuiltIn, kernel.lastKnownGood.document}
      /\ kernel \in KernelStates /\ kernel.lastKnownGood.document \in DecidedDocuments
      /\ kernel.lastKnownGood.id \in Ids
  BY <1>1, ReadyIs, RecoveryRequestedSound, RecoveryRequestedWrites DEF Revisions
<1>3. /\ next.active = InitialRevision /\ next.lastKnownGood = kernel.lastKnownGood
      /\ next.proposal = NoRevision /\ next.safeMode = TRUE
      /\ next.lastEvent.type = "recovery-requested"
  <2>1. sequenced \in KernelStates /\ sequenced.lastKnownGood = kernel.lastKnownGood
    <3>1. "recovery-requested" \in EventTypes /\ extension \in Extensions \union {NoExtension}
      BY DEF EventTypes
    <3> QED
      BY <1>2, <3>1, SequencedType
  <2>2. sequenced.lastEvent.type = "recovery-requested"
    BY <1>2 DEF Sequenced, eventFor, KernelStates
  <2> HIDE DEF sequenced
  <2>3. /\ protected \in KernelStates /\ protected.active = InitialRevision
        /\ protected.proposal = NoRevision /\ protected.safeMode = TRUE
        /\ protected.lastKnownGood = kernel.lastKnownGood
        /\ protected.lastEvent = sequenced.lastEvent
    BY <2>1, ConstantTypes DEF Protected, KernelStates
  <2> HIDE DEF protected
  <2>4. next = [protected EXCEPT !.failureCounts[extension] = @ + 1,
                                 !.disabledExtensions = @ \union {extension}]
    BY DEF recoveryRequested, protected, sequenced
  <2> HIDE DEF next
  <2> QED
    BY <2>2, <2>3, <2>4 DEF KernelStates
<1>4. BuiltIn \in DecidedDocuments /\ idSequence' \in Nat
  BY <1>1, ReadyIs DEF Inv, Typed, DecidedDocuments
<1>5. receiptRef # NoReceipt
  <2> SUFFICES ASSUME receiptRef = NoReceipt PROVE FALSE
    OBVIOUS
  <2>1. kernel.failureCounts = [e \in Extensions |-> 0]
    BY <1>1, ReadyIs DEF Compiled, NoFailures
  <2>2. kernel.failureCounts[extension] = 0
    BY <2>1
  <2> QED
    BY <1>1, <2>2 DEF shouldRecover, FailureLimit
<1> HIDE DEF next
<1>6. Opens("recover", next)
  BY <1>2, <1>3, <1>4, <1>5 DEF Opens, Numbered
<1>7. First(next, step)
  BY <1>5 DEF First
<1> HIDE DEF step
<1> QED
  BY <1>1, <1>4, <1>6, <1>7, OpensInv

\* Every step of the system preserves the invariant.
LEMMA NextInv ==
    ASSUME Inv, Next
    PROVE  Inv'
<1>1. CASE Save
  BY <1>1, SaveInv
<1>2. CASE rest
  BY <1>2, StutterInv DEF rest
<1>3. CASE loadNew \/ stop \/ readMarker \/ markRecovery \/ authorSource
  BY <1>3, LoadNewInv, StopInv, ReadMarkerInv, MarkRecoveryInv, AuthorSourceInv
<1>4. CASE \E safeMode \in SafeStarts : loadExisting(safeMode)
  BY <1>4, LoadExistingInv
<1>5. CASE \E outcome \in {unknown, recoverActivation, unreadMarker} : loadFails(outcome)
  BY <1>5, LoadFailsInv
<1>6. CASE \E document \in Documents :
              \/ propose(document) \/ applyLocalRevision(document) \/ supersede(document)
              \/ \E extension \in Extensions : applyExtensionIntents(document, extension)
  BY <1>6, ProposeInv, ApplyLocalRevisionInv, SupersedeInv, ApplyExtensionIntentsInv
<1>7. CASE preview \/ accept \/ reject \/ rollback \/ restoreLastKnownGood \/ enterSafeMode
  BY <1>7, PreviewInv, AcceptInv, RejectInv, RollbackInv, RestoreInv, EnterSafeModeInv
<1>8. CASE \E extension \in Extensions :
              recordExtensionFailure(extension) \/ requestRecovery(extension)
  BY <1>8, RecordExtensionFailureInv, RequestRecoveryInv
<1> QED
  BY <1>1, <1>2, <1>3, <1>4, <1>5, <1>6, <1>7, <1>8 DEF Next

-----------------------------------------------------------------------------
(* The source trees.                                                            *)

\* The tree at a commit was decided on with the document that the commit shows.
Traced(c) == <<SnapshotAt(c).active.document, contentAt(c).source>> \in products

TracedIfShown(c) == SnapshotAt(c).safeMode \/ Traced(c)

\* Undoing the product of one commit returns to the product of the other.
Returns(a, l) == SnapshotAt(a).lastKnownGood.document = SnapshotAt(l).active.document

\* The state that storage speaks of: from its receipt on, the one that is being saved.
Held == IF work.step \in Clearing /\ work.commit # NoCommit THEN work.next ELSE kernel

\* Both commits of the product carry the tree of their document, and the older one is what
\* the kernel undoes to, so that a rollback stores the tree with the document it restores.
Sourced ==
    /\ mixed \in BOOLEAN
    /\ ~halfSaved /\ ~mixed =>
         /\ refs[Accepted] # NoCommit => TracedIfShown(refs[Accepted])
         /\ refs[LastKnownGood] # NoCommit => Traced(refs[LastKnownGood])
         /\ (work.commit = NoCommit /\ refs[Accepted] # NoCommit /\ refs[LastKnownGood] # NoCommit) =>
              Returns(refs[Accepted], refs[LastKnownGood])
         /\ receipt # NoReceipt =>
              /\ TracedIfShown(receipt.acceptedCommit) /\ Traced(receipt.lastKnownGoodCommit)
              /\ Returns(receipt.acceptedCommit, receipt.lastKnownGoodCommit)
         /\ receiptRef # NoReceipt =>
              Held.lastKnownGood.document =
                SnapshotAt(receiptRef.lastKnownGoodCommit).active.document

\* What holds of a commit goes on to hold when others follow and more is decided.
LEMMA TracesGrow ==
    ASSUME Typed, Grows, products \subseteq products'
    PROVE  /\ \A c : Commit(c) => /\ Traced(c) => Traced(c)'
                                  /\ TracedIfShown(c) => TracedIfShown(c)'
           /\ \A a, l : Commit(a) /\ Commit(l) /\ Returns(a, l) => Returns(a, l)'
<1>1. \A c : Commit(c) => SnapshotAt(c)' = SnapshotAt(c) /\ contentAt(c)' = contentAt(c)
  BY DEF Grows, Commit, SnapshotAt, contentAt
<1> QED
  BY <1>1 DEF Traced, TracedIfShown, Returns

\* A step that leaves the receipts and what is undone to alone has only to answer for the
\* refs it moves.
LEMMA SourcesKept ==
    ASSUME Inv, Sourced, Committed, products \subseteq products', halfSaved => halfSaved',
           mixed' \in {mixed, TRUE}, receipt' = receipt, receiptRef' \in {receiptRef, NoReceipt},
           receiptRef' # NoReceipt => Held'.lastKnownGood.document = Held.lastKnownGood.document,
           ~halfSaved' /\ ~mixed' =>
             /\ refs'[Accepted] = refs[Accepted] \/ TracedIfShown(refs[Accepted])'
             /\ refs'[LastKnownGood] = refs[LastKnownGood] \/ Traced(refs[LastKnownGood])'
             /\ \/ work'.commit # NoCommit
                \/ /\ work.commit = NoCommit /\ refs'[Accepted] = refs[Accepted]
                   /\ refs'[LastKnownGood] = refs[LastKnownGood]
                \/ refs'[LastKnownGood] = NoCommit
                \/ Returns(refs[Accepted], refs[LastKnownGood])'
    PROVE  Sourced'
<1> USE DEF Inv
<1>1. mixed' \in BOOLEAN /\ (mixed => mixed')
  BY DEF Sourced
<1> SUFFICES ASSUME ~halfSaved', ~mixed'
             PROVE  /\ (refs[Accepted] # NoCommit => TracedIfShown(refs[Accepted]))'
                    /\ (refs[LastKnownGood] # NoCommit => Traced(refs[LastKnownGood]))'
                    /\ ((work.commit = NoCommit /\ refs[Accepted] # NoCommit
                          /\ refs[LastKnownGood] # NoCommit) =>
                          Returns(refs[Accepted], refs[LastKnownGood]))'
                    /\ (receipt # NoReceipt =>
                          /\ TracedIfShown(receipt.acceptedCommit)
                          /\ Traced(receipt.lastKnownGoodCommit)
                          /\ Returns(receipt.acceptedCommit, receipt.lastKnownGoodCommit))'
                    /\ (receiptRef # NoReceipt =>
                          Held.lastKnownGood.document =
                            SnapshotAt(receiptRef.lastKnownGoodCommit).active.document)'
  BY <1>1 DEF Sourced
<1>2. ~halfSaved /\ ~mixed
  BY <1>1
<1>3. /\ \A c : Commit(c) => /\ SnapshotAt(c)' = SnapshotAt(c)
                             /\ Traced(c) => Traced(c)'
                             /\ TracedIfShown(c) => TracedIfShown(c)'
      /\ \A a, l : Commit(a) /\ Commit(l) /\ Returns(a, l) => Returns(a, l)'
  BY TracesGrow, GrowingKeeps DEF Committed
<1>4. /\ refs[Accepted] # NoCommit => Commit(refs[Accepted])
      /\ refs[LastKnownGood] # NoCommit => Commit(refs[LastKnownGood])
  BY RepositoryTyped, BranchesAre DEF Commit, NoCommit
<1>5. ASSUME NEW a, a = refs[Accepted], NEW l, l = refs[LastKnownGood]
      PROVE  /\ refs'[Accepted] = a /\ a # NoCommit => TracedIfShown(a)'
             /\ refs'[LastKnownGood] = l /\ l # NoCommit => Traced(l)'
             /\ work.commit = NoCommit /\ a # NoCommit /\ l # NoCommit => Returns(a, l)'
  BY <1>2, <1>3, <1>4, <1>5 DEF Sourced, TracedIfShown, Traced, Returns
<1>6. (refs[Accepted] # NoCommit => TracedIfShown(refs[Accepted]))'
  BY <1>5 DEF TracedIfShown, Traced, SnapshotAt, contentAt
<1>7. (refs[LastKnownGood] # NoCommit => Traced(refs[LastKnownGood]))'
  BY <1>5 DEF Traced, SnapshotAt, contentAt
<1>8. ((work.commit = NoCommit /\ refs[Accepted] # NoCommit /\ refs[LastKnownGood] # NoCommit) =>
         Returns(refs[Accepted], refs[LastKnownGood]))'
  BY <1>5 DEF Returns, SnapshotAt
<1>9. (receipt # NoReceipt =>
         /\ TracedIfShown(receipt.acceptedCommit) /\ Traced(receipt.lastKnownGoodCommit)
         /\ Returns(receipt.acceptedCommit, receipt.lastKnownGoodCommit))'
  <2> SUFFICES ASSUME NEW r, r = receipt, r # NoReceipt
               PROVE  /\ TracedIfShown(r.acceptedCommit)' /\ Traced(r.lastKnownGoodCommit)'
                      /\ Returns(r.acceptedCommit, r.lastKnownGoodCommit)'
    BY DEF TracedIfShown, Traced, Returns, SnapshotAt, contentAt
  <2>1. Commit(r.acceptedCommit) /\ Commit(r.lastKnownGoodCommit)
    BY DEF OneReceipt, Written, Commit
  <2>2. /\ TracedIfShown(r.acceptedCommit) /\ Traced(r.lastKnownGoodCommit)
        /\ Returns(r.acceptedCommit, r.lastKnownGoodCommit)
    BY <1>2 DEF Sourced
  <2> QED
    BY <1>3, <2>1, <2>2
<1>10. (receiptRef # NoReceipt =>
          Held.lastKnownGood.document =
            SnapshotAt(receiptRef.lastKnownGoodCommit).active.document)'
  <2> SUFFICES ASSUME receiptRef' # NoReceipt, NEW l, l = receiptRef.lastKnownGoodCommit
               PROVE  Held'.lastKnownGood.document = SnapshotAt(l)'.active.document
    BY DEF SnapshotAt
  <2>1. Commit(l) /\ receiptRef # NoReceipt
    BY DEF OneReceipt, Written, Commit
  <2>2. Held.lastKnownGood.document = SnapshotAt(l).active.document
    BY <1>2, <2>1 DEF Sourced
  <2> QED
    BY <1>3, <2>1, <2>2
<1> QED
  BY <1>6, <1>7, <1>8, <1>9, <1>10

\* A step that moves neither ref of the product.
LEMMA QuietSourced ==
    ASSUME Inv, Sourced, Committed, UNCHANGED <<receipt, receiptRef, products, halfSaved, mixed>>,
           refs'[Accepted] = refs[Accepted], refs'[LastKnownGood] = refs[LastKnownGood],
           work'.commit = work.commit \/ work'.commit # NoCommit,
           Held'.lastKnownGood.document = Held.lastKnownGood.document
    PROVE  Sourced'
  BY SourcesKept

\* A start that could read nothing.
LEMMA NothingSourced ==
    ASSUME Inv, Sourced, Committed, NEW loaded, Nothing(loaded), Start(loaded),
           phase = "loading" \/ phase = "off", UNCHANGED <<products, halfSaved, mixed>>,
           refs'[Accepted] = refs[Accepted], refs'[LastKnownGood] = refs[LastKnownGood]
    PROVE  Sourced'
<1> USE DEF Inv
<1>1. receipt' = receipt /\ receiptRef' = NoReceipt
  BY DEF Start, Nothing
<1>2. CASE work.commit = NoCommit
  BY <1>1, <1>2, SourcesKept
<1>3. CASE work.commit # NoCommit
  <2>1. work.step \in {"init-lkg", "init-receipt"}
    BY <1>3 DEF OneReceipt, Chain, InitSteps
  <2>2. /\ Commit(work.commit) /\ refs[Accepted] = work.commit
        /\ SnapshotAt(work.commit) = initialBuiltInSnapshot
        /\ refs[LastKnownGood] = NoCommit \/ refs[LastKnownGood] = work.commit
    BY <2>1 DEF Chain, InitSteps
  <2>3. CASE refs[LastKnownGood] = NoCommit
    BY <1>1, <2>3, SourcesKept
  <2>4. CASE refs[LastKnownGood] = work.commit
    <3> SUFFICES ASSUME NEW c, c = work.commit
                 PROVE  Sourced'
      OBVIOUS
    <3>1. Commit(c) /\ SnapshotAt(c) = initialBuiltInSnapshot
      BY <2>2 DEF Commit, SnapshotAt
    <3>2. SnapshotAt(c)' = initialBuiltInSnapshot
      BY <3>1, GrowingKeeps DEF Committed
    <3>3. Returns(c, c)'
      BY <3>2, BuiltInIs DEF Returns
    <3>4. Returns(refs[Accepted], refs[LastKnownGood])'
      BY <2>2, <2>4, <3>3 DEF Returns, SnapshotAt
    <3> QED
      BY <1>1, <3>4, SourcesKept
  <2> QED
    BY <2>2, <2>3, <2>4
<1> QED
  BY <1>2, <1>3

\* A start from a receipt.
LEMMA KnownSourced ==
    ASSUME Inv, Sourced, repository' = repository, UNCHANGED <<products, halfSaved>>,
           mixed' \in {mixed, TRUE}, NEW r, NEW c, NEW loaded, Known(loaded, r, c), Start(loaded),
           ~halfSaved /\ ~mixed =>
             /\ TracedIfShown(r.acceptedCommit) /\ Traced(r.lastKnownGoodCommit)
             /\ Returns(r.acceptedCommit, r.lastKnownGoodCommit)
             /\ loaded.snapshot.lastKnownGood.document =
                  SnapshotAt(r.lastKnownGoodCommit).active.document,
           work.commit = NoCommit \/ refs[LastKnownGood] = refs[Accepted],
           work.commit # NoCommit => SnapshotAt(refs[Accepted]) = initialBuiltInSnapshot
    PROVE  Sourced'
<1> USE DEF Inv
<1> DEFINE state == initialState(loaded)
           next == reconciledState(state)
<1>1. /\ mixed' \in BOOLEAN /\ (mixed => mixed')
      /\ \A d : SnapshotAt(d)' = SnapshotAt(d) /\ contentAt(d)' = contentAt(d)
      /\ refs' = refs
  BY DEF Sourced, SnapshotAt, contentAt, refs
<1>2. /\ \A d : (Traced(d)' <=> Traced(d)) /\ (TracedIfShown(d)' <=> TracedIfShown(d))
      /\ \A a, l : Returns(a, l)' <=> Returns(a, l)
  BY <1>1 DEF Traced, TracedIfShown, Returns
<1>3. next.lastKnownGood = loaded.snapshot.lastKnownGood
  <2>1. /\ SnapshotAt(c) \in Snapshots /\ Storable(SnapshotAt(c)) /\ Numbered(SnapshotAt(c))
        /\ ValidProposal(SnapshotAt(c))
    BY CommitIs, EventOfSnapshot DEF Known
  <2>2. /\ loaded.snapshot \in Snapshots /\ Storable(loaded.snapshot) /\ Numbered(loaded.snapshot)
        /\ ValidProposal(loaded.snapshot) /\ loaded.recovered \in BOOLEAN
        /\ loaded.recovery \in BOOLEAN
    <3>1. CASE loaded.snapshot = SnapshotAt(c)
      BY <2>1, <3>1 DEF Known
    <3>2. CASE loaded.snapshot = safeRecoverySnapshot(SnapshotAt(c))
      BY <2>1, <3>2, SafeSnapshotIs DEF Known, ValidProposal
    <3> QED
      BY <3>1, <3>2 DEF Known
  <2>3. /\ Sound(state) /\ Storable(state) /\ Numbered(state)
        /\ state.lastKnownGood = loaded.snapshot.lastKnownGood
    BY <2>2, StateOf
  <2> HIDE DEF state
  <2> QED
    BY <2>3, ReconciledIs
<1>4. /\ kernel' = next /\ receipt' = r /\ receiptRef' = r /\ work'.commit = NoCommit
      /\ Held' = next
  <2>1. /\ kernel' = next /\ receipt' = r /\ receiptRef' = r
        /\ work' = [step |-> IF isPending(state) THEN "status" ELSE "idle",
                    operation |-> IF isPending(state) THEN "reconcile" ELSE "none",
                    next |-> next, authoring |-> NoCommit, commit |-> NoCommit]
    BY DEF Start, Known, Idle
  <2> HIDE DEF state, next
  <2>2. work'.commit = NoCommit
    BY <2>1
  <2> QED
    BY <2>1, <2>2 DEF Held
<1> HIDE DEF state, next
<1> SUFFICES ASSUME ~halfSaved, ~mixed, mixed' = FALSE
             PROVE  Sourced'
  BY <1>1 DEF Sourced
<1>5. ASSUME NEW a, a = refs[Accepted], NEW l, l = refs[LastKnownGood]
      PROVE  /\ a # NoCommit => TracedIfShown(a)'
             /\ l # NoCommit => Traced(l)'
             /\ a # NoCommit /\ l # NoCommit => Returns(a, l)'
  <2>1. /\ a # NoCommit => TracedIfShown(a)
        /\ l # NoCommit => Traced(l)
        /\ work.commit = NoCommit /\ a # NoCommit /\ l # NoCommit => Returns(a, l)
    BY <1>5 DEF Sourced, TracedIfShown, Traced, Returns
  <2>2. work.commit # NoCommit => Returns(a, l)
    BY <1>5, BuiltInIs DEF Returns, SnapshotAt
  <2> QED
    BY <1>2, <2>1, <2>2
<1>6. /\ (refs[Accepted] # NoCommit => TracedIfShown(refs[Accepted]))'
      /\ (refs[LastKnownGood] # NoCommit => Traced(refs[LastKnownGood]))'
      /\ ((work.commit = NoCommit /\ refs[Accepted] # NoCommit /\ refs[LastKnownGood] # NoCommit) =>
            Returns(refs[Accepted], refs[LastKnownGood]))'
  <2>1. (refs[Accepted] # NoCommit => TracedIfShown(refs[Accepted]))'
    BY <1>1, <1>5 DEF TracedIfShown, Traced, SnapshotAt, contentAt
  <2>2. (refs[LastKnownGood] # NoCommit => Traced(refs[LastKnownGood]))'
    BY <1>1, <1>5 DEF Traced, SnapshotAt, contentAt
  <2>3. ((work.commit = NoCommit /\ refs[Accepted] # NoCommit /\ refs[LastKnownGood] # NoCommit) =>
           Returns(refs[Accepted], refs[LastKnownGood]))'
    BY <1>1, <1>5 DEF Returns, SnapshotAt
  <2> QED
    BY <2>1, <2>2, <2>3
<1>7. (receipt # NoReceipt =>
         /\ TracedIfShown(receipt.acceptedCommit) /\ Traced(receipt.lastKnownGoodCommit)
         /\ Returns(receipt.acceptedCommit, receipt.lastKnownGoodCommit))'
  <2>1. /\ TracedIfShown(r.acceptedCommit)' /\ Traced(r.lastKnownGoodCommit)'
        /\ Returns(r.acceptedCommit, r.lastKnownGoodCommit)'
    BY <1>2
  <2> QED
    BY <1>4, <2>1 DEF TracedIfShown, Traced, Returns, SnapshotAt, contentAt
<1>8. (receiptRef # NoReceipt =>
         Held.lastKnownGood.document =
           SnapshotAt(receiptRef.lastKnownGoodCommit).active.document)'
  BY <1>1, <1>3, <1>4 DEF SnapshotAt
<1> QED
  BY <1>6, <1>7, <1>8 DEF Sourced

\* A save that failed, or was refused.
LEMMA FailedSourced ==
    ASSUME Inv, Sourced, Committed, Saving, phase # "off", Finished(FALSE),
           UNCHANGED <<receipt, receiptRef, products, mixed>>,
           refs'[Accepted] = refs[Accepted], refs'[LastKnownGood] = refs[LastKnownGood]
    PROVE  Sourced'
<1> USE DEF Inv
<1> DEFINE next == IF work.operation \in {"enter", "recover", "reconcile"} THEN work.next ELSE kernel
<1>1. /\ kernel' = next /\ halfSaved' = (halfSaved \/ work.commit # NoCommit)
      /\ work' = [step |-> "idle", operation |-> "none", next |-> next,
                  authoring |-> NoCommit, commit |-> NoCommit]
  BY DEF Finished, FinishedWith, Idle
<1>2. next.lastKnownGood = kernel.lastKnownGood
  <2>1. CASE work.operation \in {"enter", "recover"}
    <3>1. work.next.safeMode /\ Sound(work.next)
      BY <2>1 DEF Follows, KernelIsSound
    <3>2. work.next.proposal = NoRevision
      BY <3>1 DEF Sound, CandidateIsSound
    <3> QED
      BY <2>1, <3>1, <3>2 DEF Follows
  <2>2. CASE work.operation = "reconcile"
    BY <2>2 DEF Follows
  <2> QED
    BY <2>1, <2>2
<1> HIDE DEF next
<1>3. work'.step = "idle" /\ work'.commit = NoCommit
  BY <1>1
<1>4. Held' = next
  BY <1>1, <1>3 DEF Held
<1>5. CASE work.commit = NoCommit
  <2>1. Held = kernel
    BY <1>5 DEF Held
  <2> QED
    BY <1>1, <1>2, <1>4, <1>5, <2>1, SourcesKept
<1>6. CASE work.commit # NoCommit
  BY <1>1, <1>6 DEF Sourced
<1> QED
  BY <1>5, <1>6

\* A request that is not made good.
LEMMA RefusedSourced ==
    ASSUME Inv, Sourced, GivesUp, work.step # "idle", phase # "off"
    PROVE  Sourced'
<1> USE DEF Inv
<1>1. /\ repository' = repository /\ Committed /\ refs' = refs
      /\ UNCHANGED <<products, mixed>>
  BY NothingCommitted DEF GivesUp, refs
<1>2. CASE phase = "loading"
  <2> DEFINE loaded == [unknown EXCEPT !.recovery = FALSE]
  <2>1. Nothing(loaded)
    BY DEF Nothing, unknown, Outcome
  <2>2. Start(loaded) /\ halfSaved' = halfSaved
    BY <1>2 DEF GivesUp, LoadedNothing
  <2> QED
    BY <1>1, <1>2, <2>1, <2>2, NothingSourced
<1>3. CASE phase # "loading"
  <2>1. Finished(FALSE) /\ UNCHANGED <<receipt, receiptRef>> /\ Saving
    BY <1>3 DEF GivesUp, Saving
  <2> QED
    BY <1>1, <2>1, FailedSourced
<1> QED
  BY <1>2, <1>3

\* A save that was made good: its state is the kernel's.
LEMMA FinishedSourced ==
    ASSUME Inv, Sourced, work.step \in Clearing, phase # "off", NEW marking,
           FinishedWith(TRUE, marking),
           UNCHANGED <<repository, receipt, receiptRef, products, mixed>>
    PROVE  Sourced'
<1> USE DEF Inv
<1>1. Saving /\ receiptRef # NoReceipt /\ receipt = receiptRef
  BY DEF OneReceipt, Saving, Clearing, InitSteps, RepairSteps
<1>2. /\ kernel' = work.next /\ halfSaved' = halfSaved
      /\ work' = [step |-> "idle", operation |-> "none", next |-> work.next,
                  authoring |-> NoCommit, commit |-> NoCommit]
  BY DEF FinishedWith, Idle, Typed
<1>3. work'.commit = NoCommit
  BY <1>2
<1>4. Held' = work.next
  BY <1>2, <1>3 DEF Held
<1>5. Committed /\ refs' = refs
  BY NothingCommitted DEF refs
<1>6. CASE work.commit = NoCommit
  <2>1. work.next.safeMode /\ work.next.lastEvent.type = "safe-mode-entered" /\ Sound(work.next)
    BY <1>1, <1>6 DEF Chain, KernelIsSound
  <2>2. work.next.proposal = NoRevision
    BY <2>1 DEF Sound, CandidateIsSound
  <2>3. work.next.lastKnownGood = kernel.lastKnownGood /\ Held = kernel
    BY <1>1, <1>6, <2>1, <2>2 DEF Follows, Held
  <2> QED
    BY <1>2, <1>4, <1>5, <1>6, <2>3, SourcesKept
<1>7. CASE work.commit # NoCommit
  <2>1. Held = work.next
    BY <1>7 DEF Held
  <2>2. Match(receiptRef)
    BY <1>7 DEF Matches
  <2> SUFFICES ASSUME NEW a, a = refs[Accepted], NEW l, l = refs[LastKnownGood],
                      ~halfSaved', ~mixed'
               PROVE  Returns(a, l)'
    BY <1>2, <1>4, <1>5, <2>1, SourcesKept DEF Sourced, Returns, SnapshotAt
  <2>3. Returns(a, l)
    BY <1>1, <1>2, <2>2 DEF Match, Sourced, Returns, SnapshotAt
  <2> QED
    BY <2>3 DEF Returns, SnapshotAt
<1> QED
  BY <1>6, <1>7

\* The first checkpoint of a repository carries the compiled interface and its tree.
LEMMA InitCheckpointSourced ==
    ASSUME Inv, Sourced, initCheckpoint
    PROVE  Sourced'
<1> USE DEF Inv
<1> DEFINE content == [snapshot |-> initialBuiltInSnapshot, source |-> 0]
<1>1. /\ work.step = "init" /\ phase # "off" /\ receiptRef = NoReceipt /\ work.commit = NoCommit
  BY DEF initCheckpoint, At, OneReceipt, Chain, InitSteps, RepairSteps
<1>2. (IF phase = "loading" THEN initialBuiltInSnapshot ELSE base) = initialBuiltInSnapshot
  BY <1>1, BaseIs DEF Saving
<1>3. \/ Sourced'
      \/ /\ Checkpoint(Accepted, content, "init-lkg")
         /\ Continues /\ UNCHANGED <<receipt, receiptRef, products, mixed>>
  BY <1>1, <1>2, RefusedSourced DEF initCheckpoint, Request
<1> SUFFICES ASSUME Checkpoint(Accepted, content, "init-lkg"), Continues,
                    UNCHANGED <<receipt, receiptRef, products, mixed>>,
                    NEW n, n = Len(repository.commits) + 1
             PROVE  Sourced'
  BY <1>3
<1>4. content \in Contents /\ content.snapshot = initialBuiltInSnapshot /\ content.source = 0
  BY BuiltInIs, BoundsAssumption DEF Contents
<1>5. repository' = checkpointed(repository, Accepted, content)
  BY DEF Checkpoint
<1>6. work' = [work EXCEPT !.step = "init-lkg", !.commit = Len(repository'.commits)]
  BY DEF Checkpoint
<1> HIDE DEF content
<1>7. /\ Committed /\ n # NoCommit /\ Len(repository'.commits) = n
      /\ SnapshotAt(n)' = initialBuiltInSnapshot
      /\ refs'[Accepted] = n /\ refs'[LastKnownGood] = refs[LastKnownGood]
  <2>1. BuiltIn \in DecidedDocuments'
    BY DEF Typed, DecidedDocuments
  <2> QED
    BY <1>4, <1>5, <2>1, BuiltInIs, CheckpointCommits, BranchesAre
<1>8. contentAt(n)' = content
  BY <1>4, <1>5, Appended, BranchesAre DEF contentAt
<1>9. TracedIfShown(n)'
  <2>1. <<BuiltIn, 0>> \in products'
    BY DEF Typed
  <2>2. contentAt(n)'.source = 0 /\ SnapshotAt(n)'.active.document = BuiltIn
    BY <1>4, <1>7, <1>8, BuiltInIs DEF InitialRevision
  <2> QED
    BY <2>1, <2>2 DEF TracedIfShown, Traced
<1>10. TracedIfShown(refs[Accepted])'
  BY <1>7, <1>9 DEF TracedIfShown, Traced, SnapshotAt, contentAt
<1>11. work'.commit # NoCommit
  BY <1>6, <1>7 DEF Typed, Works
<1> QED
  BY <1>1, <1>7, <1>10, <1>11, SourcesKept DEF Continues

\* The commit that a torn worker leaves behind is on no ref.
LEMMA InitTornSourced ==
    ASSUME Inv, Sourced, initTorn
    PROVE  Sourced'
<1> USE DEF Inv
<1> DEFINE content == [snapshot |-> initialBuiltInSnapshot, source |-> 0]
<1>1. /\ work.step = "init" /\ phase # "off" /\ repository.commits = <<>>
      /\ repository' = [repository EXCEPT !.commits = <<content>>]
      /\ UNCHANGED <<products, mixed>>
  BY DEF initTorn, At
<1>2. content \in Contents /\ content.snapshot = initialBuiltInSnapshot
  BY BuiltInIs, BoundsAssumption DEF Contents
<1> HIDE DEF content
<1>3. /\ repository' \in [commits : Seq(Contents), refs : [Branches -> Nat]]
      /\ repository'.commits = <<content>> /\ refs' = refs
  <2>1. repository' = [commits |-> <<content>>, refs |-> repository.refs]
    BY <1>1 DEF Typed
  <2>2. <<content>> \in Seq(Contents)
    BY <1>2
  <2> QED
    BY <2>1, <2>2 DEF Typed, refs
<1>4. /\ Len(repository'.commits) = 1 /\ repository'.commits[1] = content
      /\ Len(repository.commits) = 0 /\ \A branch \in Branches : refs'[branch] = 0
  BY <1>1, <1>3, RepositoryTyped
<1>5. Committed
  <2>1. BuiltIn \in DecidedDocuments'
    BY <1>1 DEF Typed, DecidedDocuments
  <2>2. \A c \in 1..Len(repository'.commits) : SnapshotAt(c)' = initialBuiltInSnapshot
    BY <1>2, <1>4 DEF SnapshotAt
  <2> QED
    BY <1>3, <1>4, <2>1, <2>2, BuiltInIs DEF Committed, Grows
<1>6. CASE phase = "loading"
  <2> DEFINE loaded == [unknown EXCEPT !.recovery = FALSE]
  <2>1. Nothing(loaded)
    BY DEF Nothing, unknown, Outcome
  <2>2. Start(loaded) /\ halfSaved' = halfSaved
    BY <1>6 DEF initTorn, LoadedNothing
  <2> QED
    BY <1>1, <1>3, <1>5, <1>6, <2>1, <2>2, NothingSourced
<1>7. CASE phase # "loading"
  <2>1. Finished(FALSE) /\ UNCHANGED <<receipt, receiptRef>> /\ Saving
    BY <1>1, <1>7 DEF initTorn, Saving
  <2> QED
    BY <1>1, <1>3, <1>5, <2>1, FailedSourced
<1> QED
  BY <1>6, <1>7

\* The last known good is pointed at the commit of the accepted branch, which is shown.
LEMMA SameSourced ==
    ASSUME Inv, Sourced, phase # "off", Continues, UNCHANGED <<receipt, receiptRef, products, mixed>>,
           work.step \in {"init-lkg", "repair-lkg"},
           repository' = refMoved(repository, LastKnownGood, work.commit), work'.commit = work.commit
    PROVE  Sourced'
<1> USE DEF Inv
<1>1. /\ Commit(work.commit) /\ refs[Accepted] = work.commit /\ receiptRef = NoReceipt
      /\ SnapshotAt(work.commit) = initialBuiltInSnapshot
  BY DEF OneReceipt, Chain, InitSteps, RepairSteps
<1> SUFFICES ASSUME NEW c, c = work.commit
             PROVE  Sourced'
  OBVIOUS
<1>2. /\ Committed /\ refs'[Accepted] = refs[Accepted] /\ refs'[LastKnownGood] = c
  BY <1>1, MovedCommits, BranchesAre DEF Commit
<1>3. Commit(c) /\ SnapshotAt(c) = initialBuiltInSnapshot /\ c # NoCommit
  BY <1>1 DEF Commit, SnapshotAt, NoCommit
<1>4. ASSUME ~halfSaved, ~mixed PROVE Traced(refs[LastKnownGood])'
  <2>1. TracedIfShown(c)
    BY <1>1, <1>3, <1>4 DEF Sourced, TracedIfShown, Traced, SnapshotAt, contentAt
  <2>2. Traced(c)
    BY <1>3, <2>1, BuiltInIs DEF TracedIfShown
  <2>3. Traced(c)'
    BY <1>2, <1>3, <2>2, TracesGrow DEF Committed
  <2> QED
    BY <1>2, <2>3 DEF Traced, SnapshotAt, contentAt
<1> QED
  BY <1>1, <1>2, <1>3, <1>4, SourcesKept DEF Continues, Sourced

LEMMA InitMoveSourced ==
    ASSUME Inv, Sourced, initMoveLastKnownGood
    PROVE  Sourced'
<1> USE DEF Inv
<1>1. work.step = "init-lkg" /\ phase # "off"
  BY DEF initMoveLastKnownGood, At
<1>2. \/ Sourced'
      \/ /\ repository' = refMoved(repository, LastKnownGood, work.commit)
         /\ work' = [work EXCEPT !.step = "init-receipt"]
         /\ Continues /\ UNCHANGED <<receipt, receiptRef, products, mixed>>
  BY <1>1, RefusedSourced DEF initMoveLastKnownGood, Request
<1>3. work' = [work EXCEPT !.step = "init-receipt"] => work'.commit = work.commit
  BY DEF Typed, Works
<1> QED
  BY <1>1, <1>2, <1>3, SameSourced

\* The first receipt names that commit twice.
LEMMA FirstSourced ==
    ASSUME Inv, Sourced, work.step \in {"init-receipt", "repair-receipt"}, ~halfSaved, ~mixed
    PROVE  /\ TracedIfShown(work.commit) /\ Traced(work.commit) /\ Returns(work.commit, work.commit)
           /\ Commit(work.commit) /\ refs[Accepted] = work.commit /\ refs[LastKnownGood] = work.commit
           /\ SnapshotAt(work.commit) = initialBuiltInSnapshot
<1> USE DEF Inv
<1>1. /\ Commit(work.commit) /\ refs[Accepted] = work.commit /\ refs[LastKnownGood] = work.commit
      /\ SnapshotAt(work.commit) = initialBuiltInSnapshot
  BY DEF Chain, InitSteps, RepairSteps
<1> SUFFICES ASSUME NEW c, c = work.commit
             PROVE  Traced(c) /\ Returns(c, c)
  BY <1>1 DEF TracedIfShown, Traced, Returns, SnapshotAt, contentAt
<1>2. c # NoCommit /\ SnapshotAt(c) = initialBuiltInSnapshot
  BY <1>1 DEF Commit, NoCommit, SnapshotAt
<1>3. Traced(c)
  BY <1>1, <1>2 DEF Sourced, Traced, SnapshotAt, contentAt
<1> QED
  BY <1>2, <1>3, BuiltInIs DEF Returns

LEMMA FirstReceiptSourced ==
    ASSUME Inv, Sourced, Continues, UNCHANGED <<repository, products, mixed>>, Saving, phase # "off",
           work.step \in {"init-receipt", "repair-receipt"}, NEW step, NEW r,
           r = [acceptedCommit |-> work.commit, lastKnownGoodCommit |-> work.commit,
                proposal |-> NoProposal],
           receipt' = r, receiptRef' = r, work' = [work EXCEPT !.step = step]
    PROVE  Sourced'
<1> USE DEF Inv
<1>1. /\ receiptRef = NoReceipt /\ kernel' = kernel /\ halfSaved' = halfSaved
      /\ work'.commit = work.commit /\ work'.next = work.next
      /\ r.acceptedCommit = work.commit /\ r.lastKnownGoodCommit = work.commit
  BY DEF OneReceipt, Typed, Works, InitSteps, RepairSteps, Continues
<1> SUFFICES ASSUME NEW c, c = work.commit, ~halfSaved, ~mixed
             PROVE  Sourced'
  BY <1>1 DEF Sourced
<1>2. /\ Traced(c) /\ Returns(c, c) /\ Commit(c) /\ c # NoCommit
      /\ SnapshotAt(c) = initialBuiltInSnapshot
      /\ refs[Accepted] = c /\ refs[LastKnownGood] = c
  BY FirstSourced DEF Traced, Returns, Commit, SnapshotAt, contentAt, NoCommit
<1>3. /\ Traced(c)' /\ Returns(c, c)' /\ SnapshotAt(c)' = initialBuiltInSnapshot
      /\ refs'[Accepted] = c /\ refs'[LastKnownGood] = c
  BY <1>2 DEF Traced, Returns, SnapshotAt, contentAt, refs
<1>4. Held'.lastKnownGood.document = BuiltIn
  <2>1. Held' \in {kernel, work.next}
    BY <1>1 DEF Held
  <2> QED
    BY <1>1, <2>1, BuiltInIs DEF Unread, Compiled, SameProduct, InitialRevision
<1>5. /\ receipt'.acceptedCommit = c /\ receipt'.lastKnownGoodCommit = c
      /\ receiptRef'.lastKnownGoodCommit = c
  BY <1>1
<1>6. /\ (refs[Accepted] # NoCommit => TracedIfShown(refs[Accepted]))'
      /\ (refs[LastKnownGood] # NoCommit => Traced(refs[LastKnownGood]))'
  BY <1>3 DEF TracedIfShown, Traced, SnapshotAt, contentAt
<1>7. (receipt # NoReceipt =>
         /\ TracedIfShown(receipt.acceptedCommit) /\ Traced(receipt.lastKnownGoodCommit)
         /\ Returns(receipt.acceptedCommit, receipt.lastKnownGoodCommit))'
  BY <1>3, <1>5 DEF TracedIfShown, Traced, Returns, SnapshotAt, contentAt
<1>8. (receiptRef # NoReceipt =>
         Held.lastKnownGood.document =
           SnapshotAt(receiptRef.lastKnownGoodCommit).active.document)'
  BY <1>3, <1>4, <1>5, BuiltInIs DEF SnapshotAt, InitialRevision
<1>9. work'.commit # NoCommit /\ mixed' \in BOOLEAN
  BY <1>1, <1>2 DEF Sourced
<1> QED
  BY <1>6, <1>7, <1>8, <1>9 DEF Sourced

LEMMA InitReceiptSourced ==
    ASSUME Inv, Sourced, NEW safeMode \in SafeStarts, initReceipt(safeMode)
    PROVE  Sourced'
<1> USE DEF Inv
<1> DEFINE initial == [acceptedCommit |-> work.commit, lastKnownGoodCommit |-> work.commit,
                       proposal |-> NoProposal]
<1>1. /\ work.step = "init-receipt" /\ phase # "off" /\ receiptRef = NoReceipt
      /\ Commit(work.commit) /\ refs[Accepted] = work.commit
      /\ refs[LastKnownGood] = work.commit
      /\ SnapshotAt(work.commit) = initialBuiltInSnapshot /\ safeMode \in BOOLEAN
  BY SafeStartsAssumption DEF initReceipt, At, OneReceipt, Chain, InitSteps, RepairSteps
<1>2. CASE phase = "loading"
  <2> DEFINE loaded == Outcome(IF safeMode THEN safeRecoverySnapshot(initialBuiltInSnapshot)
                                           ELSE initialBuiltInSnapshot,
                               safeMode, initial, initial)
  <2>1. \/ Sourced'
        \/ Start(loaded) /\ UNCHANGED <<repository, products, mixed, halfSaved>>
    BY <1>1, <1>2, RefusedSourced DEF initReceipt, Request
  <2> SUFFICES ASSUME Start(loaded), UNCHANGED <<repository, products, mixed, halfSaved>>,
                      NEW c, c = work.commit, NEW r, r = initial
               PROVE  Sourced'
    BY <2>1
  <2>2. Commit(c) /\ SnapshotAt(c) = initialBuiltInSnapshot /\ c # NoCommit
    BY <1>1 DEF Commit, SnapshotAt, NoCommit
  <2>3. /\ r \in Receipts /\ Written(r) /\ Match(r) /\ Current(r) = c
        /\ r.proposal = NoProposal
        /\ r.acceptedCommit = c /\ r.lastKnownGoodCommit = c
    BY <1>1, <2>2, FirstReceipt
  <2>4. /\ loaded.receipt = r /\ loaded.receiptRef = r /\ loaded.recovered = safeMode
        /\ loaded.recovery \in BOOLEAN
        /\ loaded.snapshot = IF safeMode THEN safeRecoverySnapshot(initialBuiltInSnapshot)
                                         ELSE initialBuiltInSnapshot
    BY DEF Outcome
  <2>5. initialBuiltInSnapshot.proposal.id = r.proposal.revisionId
    BY <2>3, BuiltInIs DEF NoRevision, NoProposal
  <2> HIDE DEF loaded
  <2>6. Known(loaded, r, c)
    BY <1>1, <2>2, <2>3, <2>4, <2>5, BuiltInIs DEF Known
  <2>7. loaded.snapshot.lastKnownGood.document = SnapshotAt(c).active.document
    BY <2>2, <2>4, BuiltInIs, SafeSnapshotIs
  <2>8. ~halfSaved /\ ~mixed => TracedIfShown(c) /\ Traced(c) /\ Returns(c, c)
    BY <1>1, FirstSourced DEF TracedIfShown, Traced, Returns, SnapshotAt, contentAt
  <2>9. SnapshotAt(refs[Accepted]) = initialBuiltInSnapshot /\ refs[LastKnownGood] = refs[Accepted]
    BY <1>1 DEF SnapshotAt
  <2> QED
    BY <2>3, <2>6, <2>7, <2>8, <2>9, KnownSourced
<1>3. CASE phase # "loading"
  <2>1. \/ Sourced'
        \/ /\ receipt' = initial /\ receiptRef' = initial
           /\ work' = [work EXCEPT !.step = FirstStep(work.next)]
           /\ Continues /\ UNCHANGED <<repository, products, mixed>>
    BY <1>1, <1>3, RefusedSourced DEF initReceipt, Request
  <2> SUFFICES ASSUME receipt' = initial, receiptRef' = initial,
                      work' = [work EXCEPT !.step = FirstStep(work.next)],
                      Continues, UNCHANGED <<repository, products, mixed>>,
                      NEW r, r = initial, NEW step, step = FirstStep(work.next)
               PROVE  Sourced'
    BY <2>1
  <2>2. Saving
    BY <1>1, <1>3 DEF Saving
  <2> QED
    BY <1>1, <2>2, FirstReceiptSourced
<1> QED
  BY <1>2, <1>3

\* A repair stores the compiled interface over itself, with the tree it had.
LEMMA RepairSourced ==
    ASSUME Inv, Sourced, repair
    PROVE  Sourced'
<1> USE DEF Inv
<1> DEFINE content == [snapshot |-> base, source |-> contentAt(refs[Accepted]).source]
           covers == contentAt(refs[Accepted]).snapshot # initialBuiltInSnapshot
<1>1. /\ work.step = "repair" /\ phase # "off" /\ receiptRef = NoReceipt /\ work.commit = NoCommit
      /\ Saving
  BY DEF repair, At, OneReceipt, Chain, InitSteps, RepairSteps, Saving
<1>2. base = initialBuiltInSnapshot
  BY <1>1, BaseIs
<1>3. CASE existedRef /\ refs[Accepted] # NoCommit
  <2>1. \/ Sourced'
        \/ /\ repository' = checkpointed(repository, Accepted, content)
           /\ work' = [work EXCEPT !.step = "repair-lkg", !.commit = Len(repository'.commits),
                                   !.authoring = refs[Authoring]]
           /\ mixed' = (mixed \/ covers)
           /\ Continues /\ UNCHANGED <<receipt, receiptRef, products>>
    BY <1>1, <1>3, RefusedSourced DEF repair, Request
  <2> SUFFICES ASSUME repository' = checkpointed(repository, Accepted, content),
                      work' = [work EXCEPT !.step = "repair-lkg", !.commit = Len(repository'.commits),
                                           !.authoring = refs[Authoring]],
                      mixed' = (mixed \/ covers),
                      Continues, UNCHANGED <<receipt, receiptRef, products>>
               PROVE  Sourced'
    BY <2>1
  <2> SUFFICES ASSUME NEW n, n = Len(repository.commits) + 1, NEW c, c = refs[Accepted]
               PROVE  Sourced'
    OBVIOUS
  <2>2. Commit(c) /\ c # NoCommit
    BY <1>3, RepositoryTyped, BranchesAre DEF Commit, NoCommit
  <2>3. /\ content \in Contents /\ content.snapshot = initialBuiltInSnapshot
        /\ content.source = contentAt(c).source
    <3>1. contentAt(c).source \in 0..MaxSource
      BY <2>2, CommitIs
    <3> QED
      BY <1>2, <3>1, BuiltInIs DEF Contents, contentAt
  <2>4. mixed' \in {mixed, TRUE} /\ (~mixed' => SnapshotAt(c) = initialBuiltInSnapshot)
    BY DEF Sourced, SnapshotAt, contentAt
  <2> HIDE DEF content, covers
  <2>5. BuiltIn \in DecidedDocuments'
    BY DEF Typed, DecidedDocuments
  <2>6. /\ Committed /\ n # NoCommit /\ Len(repository'.commits) = n
        /\ SnapshotAt(n)' = initialBuiltInSnapshot
        /\ refs'[Accepted] = n /\ refs'[LastKnownGood] = refs[LastKnownGood]
    BY <2>3, <2>5, BuiltInIs, CheckpointCommits, BranchesAre
  <2>7. contentAt(n)' = content
    BY <2>3, Appended, BranchesAre DEF contentAt
  <2>8. work'.commit # NoCommit
    BY <2>6 DEF Typed, Works
  <2>9. ASSUME ~halfSaved', ~mixed' PROVE TracedIfShown(refs[Accepted])'
    <3>1. ~halfSaved /\ ~mixed
      BY <2>4, <2>9 DEF Continues, Sourced
    <3>2. Traced(c)
      BY <2>2, <2>4, <2>9, <3>1, BuiltInIs DEF Sourced, TracedIfShown, Traced, SnapshotAt, contentAt
    <3>3. <<BuiltIn, content.source>> \in products
      BY <2>3, <2>4, <2>9, <3>2, BuiltInIs DEF Traced, InitialRevision
    <3>4. Traced(n)'
      BY <2>6, <2>7, <3>3, BuiltInIs DEF Traced, InitialRevision
    <3> QED
      BY <2>6, <3>4 DEF TracedIfShown, Traced, SnapshotAt, contentAt
  <2> QED
    BY <1>1, <2>4, <2>6, <2>8, <2>9, SourcesKept DEF Continues
<1>4. CASE ~(existedRef /\ refs[Accepted] # NoCommit)
  <2>1. /\ work' = [work EXCEPT !.step = "init"] /\ Continues
        /\ UNCHANGED <<repository, receipt, receiptRef, products, mixed>>
    BY <1>4 DEF repair
  <2>2. Committed /\ refs' = refs /\ work'.commit = NoCommit
    BY <1>1, <2>1, NothingCommitted DEF refs, Typed, Works
  <2> QED
    BY <1>1, <2>1, <2>2, SourcesKept DEF Continues
<1> QED
  BY <1>3, <1>4

LEMMA RepairMoveSourced ==
    ASSUME Inv, Sourced, repairLastKnownGood
    PROVE  Sourced'
<1> USE DEF Inv
<1> DEFINE step == IF work.authoring = NoCommit THEN "repair-receipt" ELSE "repair-authoring"
<1>1. work.step = "repair-lkg" /\ phase # "off"
  BY DEF repairLastKnownGood, At
<1>2. \/ Sourced'
      \/ /\ repository' = refMoved(repository, LastKnownGood, work.commit)
         /\ work' = [work EXCEPT !.step = step]
         /\ Continues /\ UNCHANGED <<receipt, receiptRef, products, mixed>>
  BY <1>1, RefusedSourced DEF repairLastKnownGood, Request
<1>3. work' = [work EXCEPT !.step = step] => work'.commit = work.commit
  BY DEF Typed, Works
<1> QED
  BY <1>1, <1>2, <1>3, SameSourced

\* The authoring branch is none of the product's.
LEMMA RepairAuthoringSourced ==
    ASSUME Inv, Sourced, repairAuthoring
    PROVE  Sourced'
<1> USE DEF Inv
<1>1. /\ work.step = "repair-authoring" /\ phase # "off" /\ receiptRef = NoReceipt
      /\ Commit(work.commit)
  BY DEF repairAuthoring, At, OneReceipt, Chain, InitSteps, RepairSteps
<1>2. \/ Sourced'
      \/ /\ repository' = refMoved(repository, Authoring, work.commit)
         /\ work' = [work EXCEPT !.step = "repair-receipt"]
         /\ Continues /\ UNCHANGED <<receipt, receiptRef, products, mixed>>
  BY <1>1, RefusedSourced DEF repairAuthoring, Request
<1> SUFFICES ASSUME repository' = refMoved(repository, Authoring, work.commit),
                    work' = [work EXCEPT !.step = "repair-receipt"],
                    Continues, UNCHANGED <<receipt, receiptRef, products, mixed>>
             PROVE  Sourced'
  BY <1>2
<1>3. /\ Committed /\ refs'[Accepted] = refs[Accepted] /\ refs'[LastKnownGood] = refs[LastKnownGood]
  BY <1>1, MovedCommits, BranchesAre DEF Commit
<1>4. work'.commit # NoCommit
  BY <1>1 DEF Typed, Works, Commit, NoCommit
<1> QED
  BY <1>1, <1>3, <1>4, SourcesKept DEF Continues

LEMMA RepairReceiptSourced ==
    ASSUME Inv, Sourced, repairReceipt
    PROVE  Sourced'
<1> DEFINE repaired == [acceptedCommit |-> work.commit, lastKnownGoodCommit |-> work.commit,
                        proposal |-> NoProposal]
<1>1. work.step = "repair-receipt" /\ phase # "off" /\ Saving
  BY DEF repairReceipt, At, Inv, OneReceipt, Saving, InitSteps
<1>2. \/ Sourced'
      \/ /\ receipt' = repaired /\ receiptRef' = repaired
         /\ work' = [work EXCEPT !.step = AfterSave(work.next)]
         /\ Continues /\ UNCHANGED <<repository, products, mixed>>
  BY <1>1, RefusedSourced DEF repairReceipt, Request
<1> SUFFICES ASSUME receipt' = repaired, receiptRef' = repaired,
                    work' = [work EXCEPT !.step = AfterSave(work.next)],
                    Continues, UNCHANGED <<repository, products, mixed>>,
                    NEW r, r = repaired, NEW step, step = AfterSave(work.next)
             PROVE  Sourced'
  BY <1>2
<1> QED
  BY <1>1, FirstReceiptSourced

\* A status is only read.
LEMMA ReadStatusSourced ==
    ASSUME Inv, Sourced, readStatus
    PROVE  Sourced'
<1> USE DEF Inv
<1>1. work.step = "status" /\ phase # "off"
  BY DEF readStatus, At
<1>2. \/ Sourced'
      \/ /\ work' = [work EXCEPT !.step = "checkpoint", !.authoring = refs[Authoring]]
         /\ Continues /\ UNCHANGED <<repository, receipt, receiptRef, products, mixed>>
  BY <1>1, RefusedSourced DEF readStatus, Request
<1> SUFFICES ASSUME work' = [work EXCEPT !.step = "checkpoint", !.authoring = refs[Authoring]],
                    Continues, UNCHANGED <<repository, receipt, receiptRef, products, mixed>>
             PROVE  Sourced'
  BY <1>2
<1>3. work'.step = "checkpoint" /\ work'.commit = work.commit
  BY DEF Typed, Works
<1>4. Held' = Held
  BY <1>1, <1>3 DEF Held, Clearing, Continues
<1>5. Committed /\ refs' = refs
  BY NothingCommitted DEF refs
<1> QED
  BY <1>3, <1>4, <1>5, QuietSourced DEF Continues

\* A candidate is on a branch of its own.
LEMMA CheckpointProposalSourced ==
    ASSUME Inv, Sourced, checkpointProposal
    PROVE  Sourced'
<1> USE DEF Inv
<1> DEFINE s == snapshotFromState(work.next)
           existing == receiptRef.proposal
           guards == {Guard(Accepted, receiptRef.acceptedCommit),
                      Guard(LastKnownGood, receiptRef.lastKnownGoodCommit)} \union AuthoringGuard
           from == IF work.authoring # NoCommit THEN work.authoring
                   ELSE IF existing = NoProposal THEN receiptRef.acceptedCommit ELSE existing.commit
           content == [snapshot |-> s, source |-> contentAt(from).source]
           start == IF existing = NoProposal THEN receiptRef.acceptedCommit ELSE NoCommit
<1>1. /\ work.step = "checkpoint" /\ phase # "off" /\ phase # "loading" /\ Saving
      /\ receiptRef # NoReceipt /\ work.next.proposal # NoRevision
  BY DEF checkpointProposal, At, OneReceipt, InitSteps, RepairSteps, Saving
<1>2. branchOfNext \in Branches \ {Accepted, LastKnownGood, Authoring}
  BY <1>1, BranchOfNextIs
<1>3. \/ Sourced'
      \/ /\ Checkpoint(branchOfNext, content, "write-receipt")
         /\ Continues /\ UNCHANGED <<receipt, receiptRef, products, mixed>>
  BY <1>1, RefusedSourced DEF checkpointProposal, Request, branchOfNext
<1> SUFFICES ASSUME Checkpoint(branchOfNext, content, "write-receipt"),
                    Continues, UNCHANGED <<receipt, receiptRef, products, mixed>>
             PROVE  Sourced'
  BY <1>3
<1>4. content \in Contents /\ content.snapshot = s
  <2> SUFFICES ASSUME NEW f, f = from
               PROVE  content \in Contents /\ content.snapshot = s
    OBVIOUS
  <2>1. Written(receiptRef)
    BY <1>1 DEF OneReceipt, Written
  <2>2. Commit(f)
    BY <2>1, RepositoryTyped DEF Typed, Written, Commit, NoCommit
  <2>3. contentAt(f).source \in 0..MaxSource
    BY <2>2, CommitIs
  <2>4. s \in Snapshots
    BY <1>1, NextIs
  <2> QED
    BY <2>3, <2>4 DEF Contents, contentAt
<1> SUFFICES ASSUME NEW b, b = branchOfNext, NEW n, n = Len(repository.commits) + 1,
                    NEW k, k = content
             PROVE  Sourced'
  OBVIOUS
<1>5. /\ repository' = checkpointed(repository, b, k)
      /\ work' = [work EXCEPT !.step = "write-receipt", !.commit = Len(repository'.commits)]
  BY DEF Checkpoint
<1> HIDE DEF content, from
<1>6. /\ Storable(k.snapshot) /\ Numbered(k.snapshot)
      /\ Shown(k.snapshot) \subseteq DecidedDocuments'
  <2>1. Shown(work.next) \subseteq DecidedDocuments /\ DecidedDocuments' = DecidedDocuments
    BY <1>1 DEF Decided, DecidedDocuments
  <2> QED
    BY <1>1, <1>4, <2>1, NextIs
<1>7. /\ Committed /\ n # NoCommit /\ Len(repository'.commits) = n
      /\ \A other \in Branches \ {b} : refs'[other] = refs[other]
  BY <1>2, <1>4, <1>5, <1>6, CheckpointCommits
<1>8. work'.step = "write-receipt" /\ work'.commit # NoCommit
  BY <1>5, <1>7 DEF Typed, Works
<1>9. Held' = Held
  BY <1>1, <1>8 DEF Held, Clearing, Continues
<1>10. refs'[Accepted] = refs[Accepted] /\ refs'[LastKnownGood] = refs[LastKnownGood]
  BY <1>2, <1>7, BranchesAre
<1> QED
  BY <1>7, <1>8, <1>9, <1>10, QuietSourced DEF Continues

LEMMA ProposalTornSourced ==
    ASSUME Inv, Sourced, proposalTorn
    PROVE  Sourced'
<1> USE DEF Inv
<1>1. /\ work.step = "checkpoint" /\ phase # "off" /\ phase # "loading" /\ Saving
      /\ receiptRef # NoReceipt /\ work.next.proposal # NoRevision
      /\ UNCHANGED <<receipt, receiptRef, products, mixed>> /\ Finished(FALSE)
  BY DEF proposalTorn, At, OneReceipt, InitSteps, RepairSteps, Saving
<1>2. branchOfNext = ProposalBranch(work.next.proposal.id)
  BY DEF proposalTorn, branchOfNext
<1> SUFFICES ASSUME NEW b, b = branchOfNext, NEW t, t = receiptRef.acceptedCommit
             PROVE  Sourced'
  OBVIOUS
<1>3. b \in Branches \ {Accepted, LastKnownGood, Authoring} /\ t \in 1..Len(repository.commits)
  BY <1>1, BranchOfNextIs DEF OneReceipt, Written, Commit
<1>4. repository' = refMoved(repository, b, t)
  BY <1>2 DEF proposalTorn
<1>5. Committed /\ refs'[Accepted] = refs[Accepted] /\ refs'[LastKnownGood] = refs[LastKnownGood]
  BY <1>3, <1>4, MovedCommits, BranchesAre
<1> QED
  BY <1>1, <1>5, FailedSourced

\* What a new accepted commit shows was decided on with the tree it carries: an accepted
\* document with its candidate's, an undone one with the tree of the last known good, and
\* any other is shown already.
LEMMA CheckpointAcceptedSourced ==
    ASSUME Inv, Sourced, checkpointAccepted
    PROVE  Sourced'
<1> USE DEF Inv
<1> DEFINE s == snapshotFromState(work.next)
           guards == {Guard(LastKnownGood, receiptRef.lastKnownGoodCommit)} \union sourceRef
           from == IF sourceRef = {} THEN receiptRef.acceptedCommit
                   ELSE (CHOOSE guard \in sourceRef : TRUE).commit
           source == contentAt(from).source
           candidate == receiptRef.proposal.commit
           decided == IF candidate = NoCommit THEN source ELSE contentAt(candidate).source
           content == [snapshot |-> s, source |-> source]
           accepting == work.next.lastEvent.type = "revision-accepted"
           more == IF accepting THEN products \union {<<work.next.active.document, decided>>}
                                ELSE products
<1>1. /\ work.step = "checkpoint" /\ phase # "off" /\ phase # "loading" /\ Saving
      /\ receiptRef # NoReceipt /\ work.next.proposal = NoRevision
  BY DEF checkpointAccepted, At, OneReceipt, InitSteps, RepairSteps, Saving
<1>2. \/ Sourced'
      \/ /\ Checkpoint(Accepted, content, "move-lkg") /\ products' = more
         /\ Continues /\ UNCHANGED <<receipt, receiptRef, mixed>>
  BY <1>1, RefusedSourced DEF checkpointAccepted, Request
<1> SUFFICES ASSUME Checkpoint(Accepted, content, "move-lkg"), products' = more,
                    Continues, UNCHANGED <<receipt, receiptRef, mixed>>,
                    NEW f, f = from, NEW acc, acc = receiptRef.acceptedCommit,
                    NEW lkg, lkg = receiptRef.lastKnownGoodCommit
             PROVE  Sourced'
  BY <1>2
<1>3. /\ Written(receiptRef) /\ receipt = receiptRef /\ Held = kernel /\ work.step \notin Clearing
      /\ Commit(acc) /\ Commit(lkg)
  BY <1>1 DEF OneReceipt, Written, Held, Clearing, Commit
<1>4. /\ sourceRef = {} => f = acc
      /\ \A branch, commit : sourceRef = {Guard(branch, commit)} => f = commit
  <2>1. \A branch, commit : Guard(branch, commit).commit = commit
    BY DEF Guard
  <2>2. ASSUME NEW guard, sourceRef = {guard} PROVE f = guard.commit
    BY <2>2
  <2> QED
    BY <2>1, <2>2
<1>5. \/ f = acc
      \/ f = candidate /\ receiptRef.proposal # NoProposal
      \/ f = work.authoring /\ work.authoring # NoCommit
      \/ f = lkg
  BY <1>4 DEF sourceRef, AuthoringGuard
<1>6. Commit(f)
  <2>1. receiptRef.proposal # NoProposal => Commit(candidate)
    BY <1>3 DEF Written, Commit
  <2>2. work.authoring # NoCommit => Commit(work.authoring)
    BY RepositoryTyped DEF Typed, Commit, NoCommit
  <2> QED
    BY <1>3, <1>5, <2>1, <2>2
<1>7. source \in 0..MaxSource /\ source = contentAt(f).source
  <2>1. contentAt(f).source \in 0..MaxSource
    BY <1>6, CommitIs
  <2> QED
    BY <2>1 DEF contentAt
<1>8. accepting => decided = source
  <2>1. CASE receiptRef.proposal = NoProposal
    BY <2>1 DEF NoProposal
  <2>2. CASE receiptRef.proposal # NoProposal
    <3>1. accepting => f = candidate
      BY <1>4, <2>2 DEF sourceRef
    <3> QED
      BY <3>1 DEF contentAt
  <2> QED
    BY <2>1, <2>2
<1>9. content \in Contents /\ content.snapshot = s /\ content.source = source
  BY <1>1, <1>7, NextIs DEF Contents
<1>10. /\ accepting => products' = products \union {<<work.next.active.document, source>>}
       /\ ~accepting => products' = products
  BY <1>8
<1> SUFFICES ASSUME NEW n, n = Len(repository.commits) + 1, NEW k, k = content, NEW t, t = source
             PROVE  Sourced'
  OBVIOUS
<1>11. /\ repository' = checkpointed(repository, Accepted, k)
       /\ work' = [work EXCEPT !.step = "move-lkg", !.commit = Len(repository'.commits)]
  BY DEF Checkpoint
<1> HIDE DEF content, from, more, source, decided, accepting
<1>12. /\ products \subseteq products'
       /\ Shown(work.next) \subseteq DecidedDocuments'
  <2>1. products \subseteq products'
    BY <1>10
  <2>2. DecidedDocuments \subseteq DecidedDocuments'
    BY <2>1 DEF DecidedDocuments
  <2>3. ASSUME accepting PROVE work.next.active.document \in DecidedDocuments'
    <3> DEFINE product == <<work.next.active.document, t>>
    <3>1. product \in products' /\ product[1] = work.next.active.document
      BY <1>10, <2>3
    <3> HIDE DEF product
    <3> QED
      BY <3>1 DEF DecidedDocuments
  <2> QED
    BY <2>1, <2>2, <2>3 DEF Decided, Shown, accepting
<1>13. /\ Storable(k.snapshot) /\ Numbered(k.snapshot)
       /\ Shown(k.snapshot) \subseteq DecidedDocuments'
  BY <1>1, <1>9, <1>12, NextIs
<1>14. /\ Committed /\ n # NoCommit /\ Len(repository'.commits) = n
       /\ SnapshotAt(n)' = s /\ refs'[Accepted] = n /\ refs'[LastKnownGood] = refs[LastKnownGood]
  BY <1>9, <1>11, <1>13, CheckpointCommits, BranchesAre
<1>15. contentAt(n)' = k
  BY <1>9, <1>11, Appended, BranchesAre DEF contentAt
<1>16. work'.step = "move-lkg" /\ work'.commit # NoCommit
  BY <1>11, <1>14 DEF Typed, Works
<1>17. Held' = Held
  BY <1>3, <1>16 DEF Held, Clearing, Continues
<1>18. ASSUME ~halfSaved, ~mixed, ~work.next.safeMode
       PROVE  <<work.next.active.document, t>> \in products'
  <2>1. CASE accepting
    BY <1>10, <2>1
  <2>2. CASE work.next.lastEvent.type = "revision-rolled-back"
    <3>1. f = lkg
      BY <1>4, <2>2 DEF sourceRef
    <3>2. /\ work.next.active.document = kernel.lastKnownGood.document
          /\ kernel.lastKnownGood.document = SnapshotAt(lkg).active.document
      BY <1>1, <1>3, <1>18, <2>2 DEF Follows, Sourced, SnapshotAt
    <3>3. Traced(lkg)
      BY <1>1, <1>3, <1>18 DEF Sourced, Traced, SnapshotAt, contentAt
    <3> QED
      BY <1>7, <1>12, <3>1, <3>2, <3>3 DEF Traced
  <2>3. CASE work.next.lastEvent.type \notin {"revision-accepted", "revision-rolled-back"}
    <3>1. f = acc
      BY <1>4, <2>3 DEF sourceRef
    <3>2. ~kernel.safeMode /\ work.next.active = kernel.active
      BY <1>1, <1>18, <2>3 DEF Follows
    <3>3. Plain(acc) /\ SnapshotAt(acc).active.document = kernel.active.document
      BY <1>1, <1>3, <1>18, <3>2, BaseOf DEF Plain, Commit, SnapshotAt
    <3>4. TracedIfShown(acc)
      BY <1>1, <1>3, <1>18 DEF Sourced, TracedIfShown, Traced, SnapshotAt, contentAt
    <3> QED
      BY <1>7, <1>12, <3>1, <3>2, <3>3, <3>4 DEF TracedIfShown, Traced, Plain
  <2> QED
    BY <2>1, <2>2, <2>3 DEF accepting
<1>19. ASSUME ~halfSaved', ~mixed' PROVE TracedIfShown(refs[Accepted])'
  <2>1. ~halfSaved /\ ~mixed
    BY <1>19 DEF Continues
  <2>2. s.safeMode = work.next.safeMode /\ s.active = work.next.active
    BY <1>1, NextIs
  <2>3. TracedIfShown(n)'
    BY <1>9, <1>14, <1>15, <1>18, <2>1, <2>2 DEF TracedIfShown, Traced
  <2> QED
    BY <1>14, <2>3 DEF TracedIfShown, Traced, SnapshotAt, contentAt
<1> QED
  BY <1>3, <1>12, <1>14, <1>16, <1>17, <1>19, SourcesKept DEF Continues

\* The last known good is pointed at a commit that carries the tree of its document.
LEMMA MoveLastKnownGoodSourced ==
    ASSUME Inv, Sourced, moveLastKnownGood
    PROVE  Sourced'
<1> USE DEF Inv
<1> DEFINE step == IF work.authoring = NoCommit THEN "write-receipt" ELSE "move-authoring"
<1>1. /\ work.step = "move-lkg" /\ phase # "off" /\ phase # "loading" /\ Saving
      /\ receiptRef # NoReceipt /\ work.next.proposal = NoRevision
      /\ Commit(work.commit) /\ refs[Accepted] = work.commit
      /\ SnapshotAt(work.commit) = snapshotFromState(work.next)
      /\ receipt = receiptRef /\ work.step \notin Clearing
  BY DEF moveLastKnownGood, At, OneReceipt, InitSteps, RepairSteps, Saving, Chain, Clearing
<1>2. \/ Sourced'
      \/ /\ repository' = refMoved(repository, LastKnownGood, nextLastKnownGood)
         /\ work' = [work EXCEPT !.step = step]
         /\ Continues /\ UNCHANGED <<receipt, receiptRef, products, mixed>>
  BY <1>1, RefusedSourced DEF moveLastKnownGood, Request
<1> SUFFICES ASSUME repository' = refMoved(repository, LastKnownGood, nextLastKnownGood),
                    work' = [work EXCEPT !.step = step],
                    Continues, UNCHANGED <<receipt, receiptRef, products, mixed>>,
                    NEW t, t = nextLastKnownGood, NEW c, c = work.commit
             PROVE  Sourced'
  BY <1>2
<1>3. t \in 1..Len(repository.commits)
  BY <1>1, NextLastKnownGoodIs DEF Commit
<1>4. /\ Committed /\ refs'[Accepted] = refs[Accepted] /\ refs'[LastKnownGood] = t
      /\ \A d : SnapshotAt(d)' = SnapshotAt(d)
      /\ \A d : contentAt(d)' = contentAt(d)
  <2>1. /\ Committed /\ refs'[Accepted] = refs[Accepted] /\ refs'[LastKnownGood] = t
        /\ repository'.commits = repository.commits
    BY <1>3, MovedCommits, BranchesAre
  <2> QED
    BY <2>1 DEF SnapshotAt, contentAt
<1>5. work'.step \notin Clearing /\ work'.commit = c
  BY DEF Typed, Works, Clearing
<1>6. Held' = Held /\ Held = kernel /\ c # NoCommit
  BY <1>1, <1>5 DEF Held, Continues, Commit, NoCommit
<1>7. ASSUME ~halfSaved, ~mixed PROVE Traced(t)
  <2>1. CASE work.next.lastEvent.type = "revision-accepted"
    <3>1. t = receiptRef.acceptedCommit
      BY <2>1 DEF nextLastKnownGood
    <3>2. ~kernel.safeMode
      BY <1>1, <2>1 DEF Follows
    <3>3. Plain(t)
      BY <1>1, <1>7, <3>1, <3>2, BaseOf DEF Plain, Commit, SnapshotAt
    <3>4. TracedIfShown(t)
      BY <1>1, <1>7, <3>1 DEF Sourced, TracedIfShown, Traced, SnapshotAt, contentAt
    <3> QED
      BY <3>3, <3>4 DEF Plain, TracedIfShown
  <2>2. CASE work.next.lastEvent.type = "revision-rolled-back"
    <3>1. t = c /\ refs[Accepted] = c
      BY <1>1, <2>2 DEF nextLastKnownGood
    <3>2. ~work.next.safeMode
      BY <1>1, <2>2 DEF Follows
    <3>3. ~SnapshotAt(c).safeMode
      BY <1>1, <3>2, NextIs DEF SnapshotAt
    <3>4. TracedIfShown(c)
      BY <1>6, <1>7, <3>1 DEF Sourced, TracedIfShown, Traced, SnapshotAt, contentAt
    <3> QED
      BY <3>1, <3>3, <3>4 DEF TracedIfShown
  <2>3. CASE work.next.lastEvent.type \notin {"revision-accepted", "revision-rolled-back"}
    <3>1. t = receiptRef.lastKnownGoodCommit
      BY <2>3 DEF nextLastKnownGood
    <3> QED
      BY <1>1, <1>7, <3>1 DEF Sourced, Traced, SnapshotAt, contentAt
  <2> QED
    BY <2>1, <2>2, <2>3
<1>8. ASSUME ~halfSaved', ~mixed' PROVE Traced(refs[LastKnownGood])'
  <2>1. Traced(t)'
    BY <1>4, <1>7, <1>8 DEF Traced, Continues
  <2> QED
    BY <1>4, <2>1 DEF Traced, SnapshotAt, contentAt
<1> QED
  BY <1>4, <1>5, <1>6, <1>8, SourcesKept DEF Continues

\* So is the authoring branch when it follows the product.
LEMMA MoveAuthoringSourced ==
    ASSUME Inv, Sourced, moveAuthoring
    PROVE  Sourced'
<1> USE DEF Inv
<1>1. work.step = "move-authoring" /\ phase # "off" /\ Commit(work.commit)
  BY DEF moveAuthoring, At, Chain
<1>2. \/ Sourced'
      \/ /\ repository' = refMoved(repository, Authoring, work.commit)
         /\ work' = [work EXCEPT !.step = "write-receipt"]
         /\ Continues /\ UNCHANGED <<receipt, receiptRef, products, mixed>>
  BY <1>1, RefusedSourced DEF moveAuthoring, Request
<1> SUFFICES ASSUME repository' = refMoved(repository, Authoring, work.commit),
                    work' = [work EXCEPT !.step = "write-receipt"],
                    Continues, UNCHANGED <<receipt, receiptRef, products, mixed>>
             PROVE  Sourced'
  BY <1>2
<1>3. /\ Committed /\ refs'[Accepted] = refs[Accepted] /\ refs'[LastKnownGood] = refs[LastKnownGood]
  BY <1>1, MovedCommits, BranchesAre DEF Commit
<1>4. work'.step = "write-receipt" /\ work'.commit = work.commit
  BY DEF Typed, Works
<1>5. Held' = Held
  BY <1>1, <1>4 DEF Held, Clearing, Continues
<1> QED
  BY <1>3, <1>4, <1>5, QuietSourced DEF Continues

\* The new receipt names two commits that carry their trees, and what is undone to is the
\* older one.
LEMMA WriteReceiptSourced ==
    ASSUME Inv, Sourced, writeReceipt
    PROVE  Sourced'
<1> USE DEF Inv
<1> DEFINE activated ==
             IF work.next.proposal # NoRevision
             THEN [receiptRef EXCEPT !.proposal = [revisionId |-> work.next.proposal.id,
                                                   branch |-> branchOfNext,
                                                   commit |-> work.commit]]
             ELSE [acceptedCommit |-> work.commit, lastKnownGoodCommit |-> nextLastKnownGood,
                   proposal |-> NoProposal]
<1>1. /\ work.step = "write-receipt" /\ phase # "off" /\ phase # "loading" /\ Saving
      /\ receiptRef # NoReceipt /\ Commit(work.commit) /\ work.commit # NoCommit
      /\ SnapshotAt(work.commit) = snapshotFromState(work.next)
      /\ receipt = receiptRef /\ work.step \notin Clearing /\ Held = kernel
  BY DEF writeReceipt, At, OneReceipt, InitSteps, RepairSteps, Saving, Chain, Commit, NoCommit,
     Held, Clearing
<1>2. \/ Sourced'
      \/ /\ receipt' = activated /\ receiptRef' = activated
         /\ work' = [work EXCEPT !.step = AfterSave(work.next)]
         /\ Continues /\ UNCHANGED <<repository, products, mixed>>
  BY <1>1, RefusedSourced DEF writeReceipt, Request, branchOfNext
<1> SUFFICES ASSUME receipt' = activated, receiptRef' = activated,
                    work' = [work EXCEPT !.step = AfterSave(work.next)],
                    Continues, UNCHANGED <<repository, products, mixed>>,
                    NEW r, r = activated
             PROVE  Sourced'
  BY <1>2
<1>3. /\ Written(r) /\ Match(r) /\ r # NoReceipt
  BY <1>1, NextReceipt
<1>4. receipt' = r /\ receiptRef' = r /\ halfSaved' = halfSaved
  BY DEF Continues
<1>5. /\ work.next.proposal # NoRevision =>
           /\ r.acceptedCommit = receiptRef.acceptedCommit
           /\ r.lastKnownGoodCommit = receiptRef.lastKnownGoodCommit
      /\ work.next.proposal = NoRevision =>
           r.acceptedCommit = work.commit /\ r.lastKnownGoodCommit = nextLastKnownGood
  BY DEF Typed, Receipts
<1> HIDE DEF activated
<1>6. work'.step \in Clearing /\ work'.commit # NoCommit /\ work'.next = work.next
  BY <1>1 DEF Typed, Works, AfterSave, Clearing
<1>7. Held' = work.next
  BY <1>6 DEF Held
<1> SUFFICES ASSUME NEW a, a = r.acceptedCommit, NEW l, l = r.lastKnownGoodCommit,
                    ~halfSaved, ~mixed, NEW acc, acc = receiptRef.acceptedCommit,
                    NEW lkg, lkg = receiptRef.lastKnownGoodCommit, NEW c, c = work.commit,
                    NEW s, s = snapshotFromState(work.next)
             PROVE  Sourced'
  BY <1>4 DEF Sourced
<1>8. /\ a = refs[Accepted] /\ l = refs[LastKnownGood] /\ a # NoCommit /\ l # NoCommit
  BY <1>3 DEF Match, Written, Commit, NoCommit
<1>9. TracedIfShown(a) /\ Traced(l)
  BY <1>8 DEF Sourced, TracedIfShown, Traced, SnapshotAt, contentAt
<1>10. /\ s.active = work.next.active /\ s.lastKnownGood = work.next.lastKnownGood
       /\ SnapshotAt(c) = s
  BY <1>1, NextIs DEF SnapshotAt
<1>11. /\ Returns(acc, lkg) /\ SnapshotAt(lkg).active.document = kernel.lastKnownGood.document
  BY <1>1 DEF Sourced, Returns, SnapshotAt
<1>12. /\ work.next.lastKnownGood.document = SnapshotAt(l).active.document
       /\ Returns(a, l)
  <2>1. CASE work.next.proposal # NoRevision
    <3>1. work.next.lastKnownGood = kernel.lastKnownGood /\ a = acc /\ l = lkg
      BY <1>1, <1>5, <2>1 DEF Follows
    <3> QED
      BY <1>11, <3>1
  <2>2. CASE work.next.proposal = NoRevision
    <3>1. a = c /\ l = nextLastKnownGood
      BY <1>5, <2>2
    <3>2. CASE work.next.lastEvent.type = "revision-accepted"
      <4>1. ~kernel.safeMode /\ work.next.lastKnownGood = kernel.active /\ l = acc
        BY <1>1, <2>2, <3>1, <3>2 DEF Follows, nextLastKnownGood
      <4>2. SnapshotAt(acc).active.document = kernel.active.document
        BY <1>1, <4>1, BaseOf DEF SnapshotAt
      <4> QED
        BY <1>10, <3>1, <4>1, <4>2 DEF Returns
    <3>3. CASE work.next.lastEvent.type = "revision-rolled-back"
      <4>1. work.next.active = work.next.lastKnownGood /\ l = c
        BY <1>1, <2>2, <3>1, <3>3 DEF Follows, nextLastKnownGood
      <4> QED
        BY <1>10, <3>1, <4>1 DEF Returns
    <3>4. CASE work.next.lastEvent.type \notin {"revision-accepted", "revision-rolled-back"}
      <4>1. work.next.lastKnownGood = kernel.lastKnownGood /\ l = lkg
        BY <1>1, <2>2, <3>1, <3>4 DEF Follows, nextLastKnownGood
      <4> QED
        BY <1>10, <1>11, <3>1, <4>1 DEF Returns
    <3> QED
      BY <3>2, <3>3, <3>4
  <2> QED
    BY <2>1, <2>2
<1>13. /\ TracedIfShown(a)' /\ Traced(l)' /\ Returns(a, l)'
       /\ SnapshotAt(l)' = SnapshotAt(l) /\ refs'[Accepted] = a /\ refs'[LastKnownGood] = l
  BY <1>8, <1>9, <1>12 DEF TracedIfShown, Traced, Returns, SnapshotAt, contentAt, refs
<1>14. /\ receipt'.acceptedCommit = a /\ receipt'.lastKnownGoodCommit = l
       /\ receiptRef'.lastKnownGoodCommit = l
  BY <1>4
<1>15. TracedIfShown(refs[Accepted])' /\ Traced(refs[LastKnownGood])'
  BY <1>13 DEF TracedIfShown, Traced, SnapshotAt, contentAt
<1>16. /\ TracedIfShown(receipt.acceptedCommit)' /\ Traced(receipt.lastKnownGoodCommit)'
       /\ Returns(receipt.acceptedCommit, receipt.lastKnownGoodCommit)'
  BY <1>13, <1>14 DEF TracedIfShown, Traced, Returns, SnapshotAt, contentAt
<1>17. (Held.lastKnownGood.document = SnapshotAt(receiptRef.lastKnownGoodCommit).active.document)'
  BY <1>7, <1>12, <1>13, <1>14 DEF SnapshotAt
<1> QED
  BY <1>6, <1>15, <1>16, <1>17 DEF Sourced

\* What is left of a save moves no ref of the product.
LEMMA ClearSourced ==
    ASSUME Inv, Sourced, clearRecovery \/ writeClear \/ saveDone
    PROVE  Sourced'
<1> USE DEF Inv
<1>1. CASE clearRecovery
  <2>1. work.step = "clear" /\ phase # "off" /\ work.step \in Clearing
    BY <1>1 DEF clearRecovery, At, Clearing
  <2>2. \/ Sourced'
        \/ FinishedWith(TRUE, entering)
           /\ UNCHANGED <<repository, receipt, receiptRef, products, mixed>>
        \/ /\ work' = [work EXCEPT !.step = "write-clear"]
           /\ Continues /\ UNCHANGED <<repository, receipt, receiptRef, products, mixed>>
    BY <1>1, <2>1, RefusedSourced DEF clearRecovery, Request, durable, Finished
  <2>3. ASSUME work' = [work EXCEPT !.step = "write-clear"], Continues,
               UNCHANGED <<repository, receipt, receiptRef, products, mixed>>
        PROVE  Sourced'
    <3>1. work'.step = "write-clear" /\ work'.commit = work.commit /\ work'.next = work.next
      BY <2>3 DEF Typed, Works
    <3>2. Held' = Held
      BY <2>1, <2>3, <3>1 DEF Held, Clearing, Continues
    <3>3. Committed /\ refs' = refs
      BY <2>3, NothingCommitted DEF refs
    <3> QED
      BY <2>3, <3>1, <3>2, <3>3, QuietSourced DEF Continues
  <2> QED
    BY <2>1, <2>2, <2>3, FinishedSourced
<1>2. CASE writeClear
  <2> DEFINE marking == IF entering = "marking" THEN "mark-refused" ELSE entering
  <2>1. work.step \in {"write-clear", "clear-refused"} /\ phase # "off" /\ work.step \in Clearing
    BY <1>2 DEF writeClear, Clearing
  <2>2. \/ Sourced'
        \/ FinishedWith(TRUE, marking)
           /\ UNCHANGED <<repository, receipt, receiptRef, products, mixed>>
    BY <1>2, <2>1, RefusedSourced DEF writeClear, Request
  <2> HIDE DEF marking
  <2> QED
    BY <2>1, <2>2, FinishedSourced
<1>3. CASE saveDone
  <2>1. work.step = "done" /\ phase # "off" /\ FinishedWith(TRUE, entering)
        /\ UNCHANGED <<repository, receipt, receiptRef, products, mixed>>
    BY <1>3 DEF saveDone, At, Finished, durable
  <2> QED
    BY <2>1, FinishedSourced DEF Clearing
<1> QED
  BY <1>1, <1>2, <1>3

LEMMA SaveSourced ==
    ASSUME Inv, Sourced, Save
    PROVE  Sourced'
  BY InitCheckpointSourced, InitTornSourced, InitMoveSourced, InitReceiptSourced, RepairSourced,
     RepairMoveSourced, RepairAuthoringSourced, RepairReceiptSourced, ReadStatusSourced,
     CheckpointProposalSourced, ProposalTornSourced, CheckpointAcceptedSourced,
     MoveLastKnownGoodSourced, MoveAuthoringSourced, WriteReceiptSourced, ClearSourced DEF Save

\* A start that recovers from the refs, or can read nothing.
LEMMA RecoverSourced ==
    ASSUME Inv, Sourced, phase = "off", UNCHANGED <<repository, products, halfSaved, mixed>>,
           NEW r, r = [acceptedCommit |-> refs[Accepted],
                       lastKnownGoodCommit |-> refs[LastKnownGood], proposal |-> NoProposal],
           NEW loaded, Start(loaded),
           \/ Nothing(loaded)
           \/ /\ refs[Accepted] # NoCommit /\ refs[LastKnownGood] # NoCommit
              /\ Known(loaded, r, refs[LastKnownGood])
              /\ loaded.snapshot = safeRecoverySnapshot(SnapshotAt(refs[LastKnownGood]))
    PROVE  Sourced'
<1> USE DEF Inv
<1>1. work.commit = NoCommit /\ Committed /\ refs' = refs
  BY NothingCommitted DEF OneReceipt, Chain, refs
<1>2. CASE Nothing(loaded)
  BY <1>1, <1>2, NothingSourced
<1>3. CASE /\ refs[Accepted] # NoCommit /\ refs[LastKnownGood] # NoCommit
           /\ Known(loaded, r, refs[LastKnownGood])
           /\ loaded.snapshot = safeRecoverySnapshot(SnapshotAt(refs[LastKnownGood]))
  <2> SUFFICES ASSUME NEW a, a = refs[Accepted], NEW l, l = refs[LastKnownGood]
               PROVE  Sourced'
    OBVIOUS
  <2>1. r.acceptedCommit = a /\ r.lastKnownGoodCommit = l
    OBVIOUS
  <2>2. Known(loaded, r, l) /\ loaded.snapshot = safeRecoverySnapshot(SnapshotAt(l))
    BY <1>3
  <2>3. ~halfSaved /\ ~mixed => TracedIfShown(a) /\ Traced(l) /\ Returns(a, l)
    BY <1>1, <1>3 DEF Sourced, TracedIfShown, Traced, Returns, SnapshotAt, contentAt
  <2>4. loaded.snapshot.lastKnownGood = SnapshotAt(l).active
    <3>1. SnapshotAt(l) \in Snapshots /\ Storable(SnapshotAt(l))
      BY <2>2, CommitIs DEF Known
    <3> QED
      BY <2>2, <3>1, SafeSnapshotIs
  <2> QED
    BY <1>1, <2>1, <2>2, <2>3, <2>4, KnownSourced
<1> QED
  BY <1>2, <1>3

\* A start that follows the receipt.
LEMMA ActivatedSourced ==
    ASSUME Inv, Sourced, phase = "off", UNCHANGED <<repository, products, halfSaved, mixed>>,
           activation # {}, NEW loaded, Known(loaded, receipt, Current(receipt)), Start(loaded),
           loaded.snapshot = SnapshotAt(Current(receipt)), ~loaded.recovered
    PROVE  Sourced'
<1> USE DEF Inv
<1> SUFFICES ASSUME NEW r, r = receipt, NEW c, c = Current(receipt)
             PROVE  Sourced'
  OBVIOUS
<1>1. work.commit = NoCommit /\ r # NoReceipt
  BY ActivationIs DEF OneReceipt, Chain
<1>2. Known(loaded, r, c) /\ loaded.snapshot = SnapshotAt(c)
  BY DEF Known, SnapshotAt
<1>3. ASSUME ~halfSaved, ~mixed
      PROVE  /\ TracedIfShown(r.acceptedCommit) /\ Traced(r.lastKnownGoodCommit)
             /\ Returns(r.acceptedCommit, r.lastKnownGoodCommit)
             /\ loaded.snapshot.lastKnownGood.document =
                  SnapshotAt(r.lastKnownGoodCommit).active.document
  <2>1. /\ TracedIfShown(r.acceptedCommit) /\ Traced(r.lastKnownGoodCommit)
        /\ Returns(r.acceptedCommit, r.lastKnownGoodCommit)
    BY <1>1, <1>3 DEF Sourced
  <2>2. SnapshotAt(c).lastKnownGood.document = SnapshotAt(r.acceptedCommit).lastKnownGood.document
    <3>1. CASE r.proposal = NoProposal
      BY <3>1 DEF Current, SnapshotAt
    <3>2. CASE r.proposal # NoProposal
      <4>1. Backed(r) /\ c = r.proposal.commit
        BY <1>1, <1>3, <3>2 DEF Stored, Current
      <4> QED
        BY <3>2, <4>1 DEF Backed
    <3> QED
      BY <3>1, <3>2
  <2> QED
    BY <1>2, <2>1, <2>2 DEF Returns
<1> QED
  BY <1>1, <1>2, <1>3, KnownSourced

LEMMA LoadExistingSourced ==
    ASSUME Inv, Sourced, NEW safeMode \in SafeStarts, loadExisting(safeMode)
    PROVE  Sourced'
<1> USE DEF Inv
<1>1. /\ safeMode \in BOOLEAN /\ phase = "off" /\ Start(load(safeMode))
      /\ UNCHANGED <<repository, products, halfSaved>> /\ mixed' = (mixed \/ safeMode)
  BY SafeStartsAssumption DEF loadExisting
<1> SUFFICES ASSUME ~safeMode, mixed' = mixed
             PROVE  Sourced'
  BY <1>1 DEF Sourced
<1>2. safeMode = FALSE
  BY <1>1
<1> SUFFICES ASSUME NEW loaded, loaded = load(safeMode)
             PROVE  Sourced'
  OBVIOUS
<1>3. CASE activation # {}
  <2>1. /\ Known(loaded, receipt, Current(receipt)) /\ loaded.recovered = FALSE
        /\ loaded.snapshot = SnapshotAt(Current(receipt))
    BY <1>2, <1>3, LoadIs
  <2> QED
    BY <1>1, <1>3, <2>1, ActivatedSourced
<1>4. CASE activation = {}
  <2>1. loaded = recoverActivation
    BY <1>4 DEF load
  <2>2. recoverActivation = unknown => Nothing(loaded)
    BY <2>1, UnknownIs
  <2> QED
    BY <1>1, <2>1, <2>2, RecoverIs, RecoverSourced
<1> QED
  BY <1>3, <1>4

LEMMA LoadFailsSourced ==
    ASSUME Inv, Sourced, NEW outcome \in {unknown, recoverActivation, unreadMarker},
           loadFails(outcome)
    PROVE  Sourced'
<1> USE DEF Inv
<1>1. /\ phase = "off" /\ Start(outcome) /\ UNCHANGED <<repository, products, halfSaved, mixed>>
  BY DEF loadFails
<1>2. CASE outcome = unknown
  BY <1>1, <1>2, UnknownIs, RecoverSourced
<1>3. CASE outcome = recoverActivation
  BY <1>1, <1>3, UnknownIs, RecoverIs, RecoverSourced
<1>4. CASE outcome = unreadMarker
  <2>1. CASE activation # {}
    <3>1. /\ Known(load(FALSE), receipt, Current(receipt)) /\ load(FALSE).recovered = FALSE
          /\ load(FALSE).snapshot = SnapshotAt(Current(receipt))
      BY <2>1, LoadIs
    <3>2. load(FALSE) \in [snapshot : {load(FALSE).snapshot}, recovered : BOOLEAN,
                            recovery : BOOLEAN, receipt : {receipt}, receiptRef : {receipt}]
      BY <2>1, <3>1 DEF load, Outcome, Known
    <3>3. /\ outcome.snapshot = load(FALSE).snapshot /\ outcome.recovered = FALSE
          /\ outcome.recovery = TRUE /\ outcome.receipt = receipt /\ outcome.receiptRef = receipt
      BY <1>4, <3>1, <3>2 DEF unreadMarker
    <3>4. Known(outcome, receipt, Current(receipt))
      BY <3>1, <3>3 DEF Known
    <3> QED
      BY <1>1, <2>1, <3>1, <3>3, <3>4, ActivatedSourced
  <2>2. CASE activation = {}
    <3>1. load(FALSE) = recoverActivation
      BY <2>2 DEF load
    <3>2. recoverActivation \in [snapshot : {recoverActivation.snapshot}, recovered : BOOLEAN,
                                 recovery : BOOLEAN, receipt : {recoverActivation.receipt},
                                 receiptRef : {recoverActivation.receiptRef}]
      BY DEF recoverActivation, unknown, Outcome
    <3>3. /\ outcome.snapshot = recoverActivation.snapshot
          /\ outcome.recovered = recoverActivation.recovered
          /\ outcome.recovery = TRUE /\ outcome.receipt = recoverActivation.receipt
          /\ outcome.receiptRef = recoverActivation.receiptRef
      BY <1>4, <3>1, <3>2 DEF unreadMarker
    <3>4. CASE recoverActivation = unknown
      <4>1. Nothing(outcome)
        BY <3>3, <3>4, UnknownIs DEF Nothing
      <4> QED
        BY <1>1, <4>1, RecoverSourced
    <3>5. CASE recoverActivation # unknown
      <4> DEFINE r == [acceptedCommit |-> refs[Accepted],
                       lastKnownGoodCommit |-> refs[LastKnownGood], proposal |-> NoProposal]
      <4>1. /\ refs[Accepted] # NoCommit /\ refs[LastKnownGood] # NoCommit
            /\ Known(recoverActivation, r, refs[LastKnownGood])
            /\ recoverActivation.snapshot = safeRecoverySnapshot(SnapshotAt(refs[LastKnownGood]))
        BY <3>5, RecoverIs
      <4>2. Known(outcome, r, refs[LastKnownGood])
        BY <3>3, <4>1 DEF Known
      <4> QED
        BY <1>1, <3>3, <4>1, <4>2, RecoverSourced
    <3> QED
      BY <3>4, <3>5
  <2> QED
    BY <2>1, <2>2
<1> QED
  BY <1>2, <1>3, <1>4

\* The rest moves no ref of the product, writes no receipt, and saves nothing yet.
LEMMA OutsideSourced ==
    ASSUME Inv, Sourced, UNCHANGED <<repository, receipt, receiptRef, products, halfSaved, mixed>>,
           kernel' = kernel, work.step = "idle", work'.commit = NoCommit
    PROVE  Sourced'
<1> USE DEF Inv
<1>1. Committed /\ refs' = refs /\ work.commit = NoCommit
  BY NothingCommitted DEF refs, Chain
<1>2. Held' = kernel /\ Held = kernel
  BY <1>1 DEF Held
<1> QED
  BY <1>1, <1>2, QuietSourced

LEMMA StutterSourced ==
    ASSUME Inv, Sourced, UNCHANGED <<repository, receipt, receiptRef, products, halfSaved, mixed>>,
           kernel' = kernel, work' = work
    PROVE  Sourced'
<1>1. Committed /\ refs' = refs
  BY NothingCommitted DEF refs, Inv
<1> QED
  BY <1>1, QuietSourced DEF Held

LEMMA StopSourced ==
    ASSUME Inv, Sourced, stop
    PROVE  Sourced'
<1> USE DEF Inv
<1>1. /\ work' = Idle(Off) /\ receiptRef' = NoReceipt
      /\ halfSaved' = (halfSaved \/ work.commit # NoCommit)
      /\ UNCHANGED <<repository, receipt, products, mixed>>
  BY DEF stop, Off, durable
<1>2. work'.commit = NoCommit
  BY <1>1, OffIs
<1>3. Committed /\ refs' = refs
  BY <1>1, NothingCommitted DEF refs
<1>4. CASE work.commit = NoCommit
  BY <1>1, <1>2, <1>3, <1>4, SourcesKept
<1>5. CASE work.commit # NoCommit
  BY <1>1, <1>5 DEF Sourced
<1> QED
  BY <1>4, <1>5

LEMMA MarkRecoverySourced ==
    ASSUME Inv, Sourced, markRecovery
    PROVE  Sourced'
<1> USE DEF Inv
<1>1. /\ \/ work' = work
         \/ work.step = "write-clear" /\ work' = [work EXCEPT !.step = "clear-refused"]
      /\ UNCHANGED <<repository, receipt, receiptRef, kernel, products, halfSaved, mixed>>
  BY DEF markRecovery, history
<1>2. /\ work'.next = work.next /\ work'.commit = work.commit
      /\ \/ work'.step = work.step
         \/ work.step = "write-clear" /\ work'.step = "clear-refused"
  BY <1>1 DEF Typed, Works
<1>3. Held' = Held
  BY <1>1, <1>2 DEF Held, Clearing
<1>4. Committed /\ refs' = refs
  BY <1>1, NothingCommitted DEF refs
<1> QED
  BY <1>1, <1>2, <1>3, <1>4, QuietSourced

LEMMA AuthorSourceSourced ==
    ASSUME Inv, Sourced, authorSource
    PROVE  Sourced'
<1> USE DEF Inv
<1> DEFINE parent == IF refs[Authoring] # NoCommit THEN refs[Authoring] ELSE refs[Accepted]
           content == [snapshot |-> contentAt(parent).snapshot, source |-> sources + 1]
<1>1. /\ phase = "on" /\ sources < MaxSource /\ refs[Accepted] # NoCommit
      /\ repository' = checkpointed(repository, Authoring, content)
      /\ UNCHANGED <<receipt, kernel, receiptRef, work, products, halfSaved, mixed>>
  BY DEF authorSource, memory, history
<1>2. Commit(parent)
  <2>1. \A b \in {Authoring, Accepted} : refs[b] \in 0..Len(repository.commits)
    BY BranchesAre DEF Typed
  <2>2. \A b \in {Authoring, Accepted} : refs[b] # NoCommit => Commit(refs[b])
    BY <2>1, RepositoryTyped DEF Commit, NoCommit
  <2> QED
    BY <1>1, <2>2
<1>3. /\ content \in Contents
      /\ Storable(content.snapshot) /\ Numbered(content.snapshot)
      /\ Shown(content.snapshot) \subseteq DecidedDocuments'
  <2>1. /\ SnapshotAt(parent) \in Snapshots /\ Storable(SnapshotAt(parent))
        /\ Numbered(SnapshotAt(parent)) /\ contentAt(parent).snapshot = SnapshotAt(parent)
    BY <1>2, CommitIs
  <2>2. Shown(SnapshotAt(parent)) \subseteq DecidedDocuments /\ DecidedDocuments' = DecidedDocuments
    BY <1>1, <1>2 DEF Decided, Commit, DecidedDocuments
  <2>3. sources + 1 \in 0..MaxSource
    BY <1>1, BoundsAssumption DEF Typed
  <2> QED
    BY <2>1, <2>2, <2>3 DEF Contents
<1> HIDE DEF content
<1> SUFFICES ASSUME NEW n, n = Len(repository.commits) + 1
             PROVE  Sourced'
  OBVIOUS
<1>4. Committed /\ \A other \in Branches \ {Authoring} : refs'[other] = refs[other]
  BY <1>1, <1>3, BranchesAre, CheckpointCommits
<1>5. refs'[Accepted] = refs[Accepted] /\ refs'[LastKnownGood] = refs[LastKnownGood]
  BY <1>4, BranchesAre
<1> QED
  BY <1>1, <1>4, <1>5, QuietSourced DEF Held

\* Every operation of the kernel begins with nothing committed.
LEMMA BegunSourced ==
    ASSUME Inv, Sourced, work.step = "idle", NEW next, NEW operation, NEW step,
           work' = [Idle(next) EXCEPT !.operation = operation, !.step = step],
           UNCHANGED <<repository, receipt, receiptRef, kernel, history>>
    PROVE  Sourced'
<1>1. work'.commit = NoCommit
  BY DEF Idle
<1> QED
  BY <1>1, OutsideSourced DEF history

LEMMA BeginSourced ==
    ASSUME Inv, Sourced, work.step = "idle", NEW next, NEW operation, Begin(operation, next),
           UNCHANGED history
    PROVE  Sourced'
  BY BegunSourced DEF Begin, durable

LEMMA DecisionSourced ==
    ASSUME Inv, Sourced, NEW next, Decision(next)
    PROVE  Sourced'
  BY BeginSourced DEF Decision, Ready

\* The commits keep the trees of their documents, whatever the system does.
LEMMA NextSourced ==
    ASSUME Inv, Sourced, Next
    PROVE  Sourced'
<1>1. CASE Save
  BY <1>1, SaveSourced
<1>2. CASE rest \/ readMarker
  BY <1>2, StutterSourced DEF rest, readMarker, vars, durable, memory, history
<1>3. CASE loadNew
  <2>1. /\ UNCHANGED <<repository, receipt, receiptRef, products, halfSaved, mixed>>
        /\ kernel' = kernel /\ phase = "off" /\ work' = [Idle(kernel) EXCEPT !.step = "init"]
    BY <1>3 DEF loadNew, history
  <2>2. work'.commit = NoCommit /\ work.step = "idle"
    BY <2>1 DEF Idle, Inv, OneReceipt
  <2> QED
    BY <2>1, <2>2, OutsideSourced
<1>4. CASE stop \/ markRecovery \/ authorSource
  BY <1>4, StopSourced, MarkRecoverySourced, AuthorSourceSourced
<1>5. CASE \E safeMode \in SafeStarts : loadExisting(safeMode)
  BY <1>5, LoadExistingSourced
<1>6. CASE \E outcome \in {unknown, recoverActivation, unreadMarker} : loadFails(outcome)
  BY <1>6, LoadFailsSourced
<1>7. ASSUME NEW document \in Documents,
             \/ propose(document) \/ applyLocalRevision(document) \/ supersede(document)
             \/ \E extension \in Extensions : applyExtensionIntents(document, extension)
      PROVE  Sourced'
  <2>1. CASE propose(document)
    BY <2>1, BeginSourced DEF propose, Ready
  <2>2. CASE applyLocalRevision(document)
    <3>1. CASE canPropose(kernel)
      BY <2>2, <3>1, BeginSourced DEF applyLocalRevision, Ready
    <3>2. CASE ~canPropose(kernel)
      BY <2>2, <3>2, StutterSourced DEF applyLocalRevision, durable, history
    <3> QED
      BY <3>1, <3>2
  <2>3. CASE supersede(document)
    BY <2>3, BeginSourced DEF supersede, Ready
  <2>4. ASSUME NEW extension \in Extensions, applyExtensionIntents(document, extension)
        PROVE  Sourced'
    BY <2>4, BeginSourced DEF applyExtensionIntents, Ready
  <2> QED
    BY <1>7, <2>1, <2>2, <2>3, <2>4
<1>8. CASE preview \/ accept \/ reject \/ rollback
  BY <1>8, DecisionSourced DEF preview, accept, reject, rollback
<1>9. CASE restoreLastKnownGood \/ enterSafeMode
  BY <1>9, BeginSourced DEF restoreLastKnownGood, enterSafeMode, Ready
<1>10. ASSUME NEW extension \in Extensions,
              recordExtensionFailure(extension) \/ requestRecovery(extension)
       PROVE  Sourced'
  <2>1. CASE recordExtensionFailure(extension)
    BY <2>1, DecisionSourced DEF recordExtensionFailure
  <2>2. CASE requestRecovery(extension)
    BY <2>2, BegunSourced DEF requestRecovery, Ready
  <2> QED
    BY <1>10, <2>1, <2>2
<1> QED
  BY <1>1, <1>2, <1>3, <1>4, <1>5, <1>6, <1>7, <1>8, <1>9, <1>10 DEF Next

\* A repository without commits has nothing to trace.
LEMMA InitSourced ==
    ASSUME Init
    PROVE  Sourced
  BY BranchesAre DEF Init, Sourced, EmptyRepository, refs, NoCommit

-----------------------------------------------------------------------------
(* What a start would show, were the program to stop now.                       *)

\* The validator refuses the candidate of an extension.
LEMMA ValidIsNotExtensionMade ==
    ASSUME NEW snapshot, validateShapingSnapshot(snapshot)
    PROVE  ~ExtensionMade(snapshot)
  BY DEF validateShapingSnapshot, eventMatchesState, hasRevisionOnly, ExtensionMade

\* The receipt is followed ...
LEMMA ReloadActivated ==
    ASSUME Inv, activation # {}, NEW s, s = SnapshotAt(Current(receipt)), NEW reload, reload = Reload
    PROVE  /\ receipt # NoReceipt /\ Commit(Current(receipt)) /\ validateShapingSnapshot(s)
           /\ reload.safeMode = (s.safeMode \/ marker = "pending")
           /\ reload.lastKnownGood = s.lastKnownGood
           /\ reload.disabledExtensions = s.disabledExtensions
           /\ reload.active \in {InitialRevision, s.active}
           /\ ~reload.safeMode => SameProduct(reload, s)
<1> USE DEF Inv
<1> DEFINE loaded == load(FALSE)
           state == initialState(loaded)
<1>1. /\ Known(loaded, receipt, Current(receipt)) /\ loaded.recovered = FALSE
      /\ loaded.snapshot = s /\ loaded.recovery = (marker = "pending")
  BY LoadIs
<1>2. /\ receipt # NoReceipt /\ Commit(Current(receipt)) /\ validateShapingSnapshot(s)
  BY ActivationIs
<1>3. s \in Snapshots /\ Storable(s) /\ Numbered(s) /\ ValidProposal(s)
  <2> SUFFICES ASSUME NEW c, c = Current(receipt)
               PROVE  s \in Snapshots /\ Storable(s) /\ Numbered(s) /\ ValidProposal(s)
    OBVIOUS
  <2>1. Commit(c) /\ SnapshotAt(c) = s
    BY <1>2 DEF Commit, SnapshotAt
  <2> QED
    BY <1>2, <2>1, CommitIs, EventOfSnapshot
<1> HIDE DEF loaded
<1>4. /\ Sound(state) /\ Storable(state) /\ Numbered(state)
      /\ state.safeMode = (s.safeMode \/ marker = "pending")
      /\ state.active = IF state.safeMode THEN InitialRevision ELSE s.active
      /\ state.proposal = IF state.safeMode THEN NoRevision ELSE s.proposal
      /\ state.lastKnownGood = s.lastKnownGood
      /\ state.disabledExtensions = s.disabledExtensions
  BY <1>1, <1>3, StateOf
<1>5. reload = reconciledState(state)
  BY DEF Reload, loaded
<1> HIDE DEF state
<1>6. /\ reload.active = state.active /\ reload.lastKnownGood = state.lastKnownGood
      /\ reload.safeMode = state.safeMode /\ SameProduct(reload, state)
      /\ reload.disabledExtensions = state.disabledExtensions
  BY <1>4, <1>5, ReconciledIs
<1> QED
  BY <1>2, <1>4, <1>6 DEF SameProduct

\* ... or the last known good is offered in safe mode, or nothing could be read.
LEMMA ReloadRecovered ==
    ASSUME Inv, activation = {}, NEW reload, reload = Reload
    PROVE  /\ reload.safeMode
           /\ \/ /\ recoverActivation = unknown /\ Compiled(reload) /\ reload.active = InitialRevision
              \/ /\ Commit(refs[LastKnownGood])
                 /\ reload.active = InitialRevision
                 /\ reload.lastKnownGood = SnapshotAt(refs[LastKnownGood]).active
                 /\ reload.disabledExtensions = SnapshotAt(refs[LastKnownGood]).disabledExtensions
<1> USE DEF Inv
<1> DEFINE state == initialState(recoverActivation)
           l == SnapshotAt(refs[LastKnownGood])
<1>1. reload = reconciledState(state)
  BY LoadIs, ActivationIs DEF Reload
<1>2. CASE recoverActivation = unknown
  <2>1. Nothing(recoverActivation)
    BY <1>2, UnknownIs
  <2>2. /\ Sound(state) /\ Compiled(state) /\ state.safeMode /\ reconciledState(state) = state
    BY <2>1, NothingStarts
  <2> HIDE DEF state
  <2> QED
    BY <1>1, <1>2, <2>2 DEF Sound, SafeModeIsSound
<1>3. CASE recoverActivation # unknown
  <2>1. /\ Commit(refs[LastKnownGood]) /\ recoverActivation.recovered = TRUE
        /\ recoverActivation.recovery \in BOOLEAN
        /\ recoverActivation.snapshot = safeRecoverySnapshot(l)
    BY <1>3, RecoverIs DEF Known
  <2>2. l \in Snapshots /\ Storable(l)
    <3> SUFFICES ASSUME NEW c, c = refs[LastKnownGood]
                 PROVE  l \in Snapshots /\ Storable(l)
      OBVIOUS
    <3>1. Commit(c) /\ SnapshotAt(c) = l
      BY <2>1 DEF Commit, SnapshotAt
    <3> QED
      BY <3>1, CommitIs
  <2>3. /\ recoverActivation.snapshot \in Snapshots /\ Storable(recoverActivation.snapshot)
        /\ Numbered(recoverActivation.snapshot)
        /\ recoverActivation.snapshot.lastKnownGood = l.active
        /\ recoverActivation.snapshot.disabledExtensions = l.disabledExtensions
        /\ ValidProposal(recoverActivation.snapshot)
    BY <2>1, <2>2, SafeSnapshotIs DEF ValidProposal
  <2>4. /\ Sound(state) /\ Storable(state) /\ Numbered(state) /\ state.safeMode = TRUE
        /\ state.active = InitialRevision /\ state.lastKnownGood = l.active
        /\ state.disabledExtensions = l.disabledExtensions
    BY <2>1, <2>3, StateOf
  <2> HIDE DEF state
  <2>5. /\ reload.active = state.active /\ reload.lastKnownGood = state.lastKnownGood
        /\ reload.safeMode = state.safeMode
        /\ reload.disabledExtensions = state.disabledExtensions
    BY <1>1, <2>4, ReconciledIs
  <2> QED
    BY <2>1, <2>4, <2>5
<1> QED
  BY <1>2, <1>3

\* A last known good that can be read is offered.
LEMMA Recovers ==
    ASSUME Typed, refs[Accepted] # NoCommit, Plain(refs[LastKnownGood])
    PROVE  recoverActivation # unknown
<1>1. /\ refs[LastKnownGood] # NoCommit
      /\ validateShapingSnapshot(contentAt(refs[LastKnownGood]).snapshot)
  BY DEF Plain, Commit, NoCommit, SnapshotAt, contentAt
<1>2. readable(LastKnownGood, refs[LastKnownGood], {})
  BY <1>1 DEF readable, holds
<1> QED
  BY <1>2, WrittenIs DEF recoverActivation, unknown, Outcome, NoReceipt

-----------------------------------------------------------------------------
(* Theorems.                                                                    *)

\* The invariant gives the types,
LEMMA TypedIs ==
    ASSUME Inv, Sourced
    PROVE  TypeOK
<1>1. /\ repository.refs \in [Branches -> 0..Len(repository.commits)]
      /\ repository.commits \in Seq(Contents)
  BY DEF Inv, Typed, refs
<1>2. kernel \in KernelStates
  BY DEF Inv, KernelIsSound, Sound
<1>3. /\ work.step \in Steps /\ work.operation \in Operations /\ work.next \in KernelStates
      /\ work.authoring \in Commits /\ work.commit \in Commits
  BY DEF Inv, Typed, Works
<1>4. mixed \in BOOLEAN
  BY DEF Sourced
<1> QED
  BY <1>1, <1>2, <1>3, <1>4 DEF Inv, Typed, TypeOK

\* The invariant holds in every state, whatever the documents, extensions and bounds are.
THEOREM Invariance == Spec => []Inv
<1>1. Inv /\ UNCHANGED vars => Inv'
  BY StutterInv
<1>2. Inv /\ [Next]_vars => Inv'
  BY <1>1, NextInv
<1> QED
  BY <1>2, InitInv, PTL DEF Spec

\* At every commit of the product the tree is one that its document was decided on with.
THEOREM SourceInvariance == Spec => []Sourced
<1>1. Inv /\ Sourced /\ UNCHANGED vars => Sourced'
  BY StutterSourced DEF vars, durable, memory, history
<1>2. Inv /\ Sourced /\ [Next]_vars => Sourced'
  BY <1>1, NextSourced
<1> QED
  BY <1>2, Invariance, InitSourced, PTL DEF Spec

\* Every variable has its type.
THEOREM TypeCorrectness == Spec => []TypeOK
  BY Invariance, SourceInvariance, TypedIs, PTL

\* Between saves it has the refs where the receipt is.
LEMMA InvRefs ==
    ASSUME Inv
    PROVE  RefsMatchReceipt
  BY DEF Inv, RefsMatchReceipt, Settled, Matches, Match, OneReceipt

\* Between saves that succeeded the refs are where the receipt says, in storage and memory.
THEOREM RefsSafety == Spec => []RefsMatchReceipt
  BY Invariance, InvRefs, PTL

\* The accepted product is one of them.
LEMMA SourcedFollows ==
    ASSUME Sourced
    PROVE  SourceFollowsDocument
<1> SUFFICES ASSUME NEW c, c = refs[Accepted], ~halfSaved, ~mixed, c # NoCommit,
                    ~contentAt(c).snapshot.safeMode
             PROVE  <<contentAt(c).snapshot.active.document, contentAt(c).source>> \in products
  BY DEF SourceFollowsDocument, contentAt
<1> QED
  BY DEF Sourced, TracedIfShown, Traced, SnapshotAt, contentAt

\* The tree of the accepted product is the one its document was accepted with, however often
\* it is undone, restored or saved again, and whatever the agent commits in between.
THEOREM SourceSafety == Spec => []SourceFollowsDocument
  BY SourceInvariance, SourcedFollows, PTL

\* A start can show nothing but what it has in commits, or the compiled interface.
LEMMA InvDecided ==
    ASSUME Inv
    PROVE  ShownIsDecided
<1> DEFINE reload == Reload
<1>1. {kernel.active.document, kernel.lastKnownGood.document} \subseteq DecidedDocuments
  BY DEF Inv, Decided, Shown
<1>2. BuiltIn \in DecidedDocuments /\ InitialRevision.document = BuiltIn
  BY DEF Inv, Typed, DecidedDocuments, InitialRevision
<1>3. {reload.active.document, reload.lastKnownGood.document} \subseteq DecidedDocuments
  <2>1. CASE activation # {}
    <3> DEFINE s == SnapshotAt(Current(receipt))
    <3>1. /\ Commit(Current(receipt)) /\ reload.lastKnownGood = s.lastKnownGood
          /\ reload.active \in {InitialRevision, s.active}
      BY <2>1, ReloadActivated
    <3>2. Shown(s) \subseteq DecidedDocuments
      BY <3>1 DEF Inv, Decided, Commit
    <3> HIDE DEF reload, s
    <3> QED
      BY <1>2, <3>1, <3>2 DEF Shown
  <2>2. CASE activation = {}
    <3> DEFINE l == SnapshotAt(refs[LastKnownGood])
    <3>1. /\ reload.active = InitialRevision
          /\ \/ reload.lastKnownGood = InitialRevision
             \/ Commit(refs[LastKnownGood]) /\ reload.lastKnownGood = l.active
      BY <2>2, ReloadRecovered DEF Compiled
    <3>2. Commit(refs[LastKnownGood]) => Shown(l) \subseteq DecidedDocuments
      BY DEF Inv, Decided, Commit
    <3> HIDE DEF reload, l
    <3> QED
      BY <1>2, <3>1, <3>2 DEF Shown
  <2> QED
    BY <2>1, <2>2
<1> QED
  BY <1>1, <1>3 DEF ShownIsDecided

\* What is shown, and what a start would show wherever the program stops, was decided on.
THEOREM DecidedSafety == Spec => []ShownIsDecided
  BY Invariance, InvDecided, PTL

\* Which commit a start would read, while the program runs outside safe mode and no save
\* has failed: the receipt's, unless a save has moved the refs, and then the last known
\* good is one of the product before the save or of the one after it.
LEMMA CrashReads ==
    ASSUME Inv, phase = "on", ~inDoubt, ~halfSaved, ~kernel.safeMode,
           ~ExtensionMade(kernel), ~ExtensionMade(work.next), NEW l, l = refs[LastKnownGood]
    PROVE  /\ receiptRef # NoReceipt /\ receipt = receiptRef
           /\ \/ activation # {}
              \/ /\ work.step \notin {"idle", "status", "checkpoint"} \union Clearing
                 /\ refs[Accepted] # NoCommit /\ Plain(l)
                 /\ SnapshotAt(l).active.document \in
                      {kernel.active.document, kernel.lastKnownGood.document,
                       work.next.active.document, work.next.lastKnownGood.document}
<1> USE DEF Inv
<1> DEFINE s == SnapshotAt(Current(receipt))
<1>1. receiptRef # NoReceipt /\ receipt = receiptRef /\ Written(receipt) /\ Commit(Current(receipt))
  BY WrittenIs DEF Unread, OneReceipt
<1>3. Backed(receipt)
  BY <1>1 DEF Stored
<1>4. s.proposal.id = receipt.proposal.revisionId
  BY <1>3 DEF Backed, Pair, Current, NoProposal, NoRevision, SnapshotAt
<1>5. ASSUME Match(receiptRef), validateShapingSnapshot(s)
      PROVE  activation # {}
  <2>1. Match(receipt)
    BY <1>1, <1>5 DEF Match
  <2> QED
    BY <1>1, <1>4, <1>5, <2>1, Activates
<1>6. CASE work.step \in {"idle", "status", "checkpoint"}
  <2>1. Match(receiptRef)
    BY <1>1, <1>6 DEF Matches
  <2>2. Reflects(s, kernel)
    BY <1>1, <1>6 DEF Stored, Clearing, SnapshotAt, Current
  <2>3. validateShapingSnapshot(s)
    BY <2>2 DEF Reflects
  <2> QED
    BY <1>1, <1>5, <2>1, <2>3
<1>7. CASE work.step \in Clearing
  <2>1. Match(receiptRef)
    BY <1>7 DEF Matches
  <2>2. CASE work.commit = NoCommit
    <3>1. Reflects(s, kernel)
      BY <1>1, <2>2 DEF Stored, SnapshotAt, Current
    <3> QED
      BY <1>1, <1>5, <2>1, <3>1 DEF Reflects
  <2>3. CASE work.commit # NoCommit
    <3>1. s = snapshotFromState(work.next)
      BY <1>1, <1>7, <2>3 DEF Chain, SnapshotAt, Current
    <3>2. Saving
      BY <1>7 DEF Saving, Clearing
    <3>3. /\ \/ validateShapingSnapshot(s)
             \/ ExtensionMade(s) /\ ExtensionMade(work.next)
             \/ FailedInSafeMode(s)
          /\ s.safeMode = work.next.safeMode /\ s.lastEvent = work.next.lastEvent
          /\ work.next.proposal # NoRevision => ~work.next.safeMode
      BY <3>1, <3>2, NextIs
    <3>4. ~FailedInSafeMode(s)
      BY <3>2, <3>3 DEF Follows, FailedInSafeMode
    <3> QED
      BY <1>1, <1>5, <2>1, <3>3, <3>4
  <2> QED
    BY <2>2, <2>3
<1>8. CASE work.step \in {"move-lkg", "move-authoring", "write-receipt"}
  <2> SUFFICES ASSUME NEW acc, acc = receiptRef.acceptedCommit,
                      NEW lkg, lkg = receiptRef.lastKnownGoodCommit,
                      NEW c, c = work.commit
               PROVE  /\ refs[Accepted] # NoCommit /\ Plain(l)
                      /\ SnapshotAt(l).active.document \in
                           {kernel.active.document, kernel.lastKnownGood.document,
                            work.next.active.document, work.next.lastKnownGood.document}
    BY <1>1, <1>8 DEF Clearing
  <2>1. work.step \notin Clearing /\ Saving
    BY <1>8 DEF Clearing, Saving
  <2>2. /\ Plain(acc) /\ Plain(lkg)
        /\ SnapshotAt(acc).active.document = kernel.active.document
        /\ SnapshotAt(lkg).active.document = kernel.lastKnownGood.document
    BY <1>1, <2>1, BaseOf DEF Plain, Commit, SnapshotAt
  <2>3. Commit(c) /\ SnapshotAt(c) = snapshotFromState(work.next) /\ c # NoCommit
        /\ Commit(acc) /\ acc # NoCommit
    BY <1>8, <2>2 DEF Chain, Commit, SnapshotAt, NoCommit, Plain
  <2>4. CASE work.next.proposal # NoRevision
    <3>1. refs[Accepted] = acc /\ l = lkg
      BY <1>8, <2>4 DEF Chain
    <3> QED
      BY <2>2, <2>3, <3>1
  <2>5. CASE work.next.proposal = NoRevision
    <3>1. refs[Accepted] = c /\ (l = lkg \/ l = nextLastKnownGood)
      BY <1>8, <2>5 DEF Chain
    <3>2. nextLastKnownGood \in {acc, lkg}
            \/ (nextLastKnownGood = c /\ work.next.lastEvent.type = "revision-rolled-back")
      BY DEF nextLastKnownGood
    <3>3. CASE l \in {acc, lkg}
      BY <2>2, <2>3, <3>1, <3>3
    <3>4. CASE l = c /\ work.next.lastEvent.type = "revision-rolled-back"
      <4> DEFINE n == snapshotFromState(work.next)
      <4>1. /\ \/ validateShapingSnapshot(n)
               \/ ExtensionMade(n) /\ ExtensionMade(work.next)
               \/ FailedInSafeMode(n)
            /\ n.safeMode = work.next.safeMode /\ n.active = work.next.active
        BY <2>1, NextIs
      <4>2. ~work.next.safeMode
        BY <2>1, <2>5, <3>4 DEF Follows
      <4> HIDE DEF n
      <4>3. validateShapingSnapshot(n) /\ ~n.safeMode
        BY <4>1, <4>2 DEF FailedInSafeMode
      <4>4. Plain(l) /\ SnapshotAt(l) = n
        BY <2>3, <3>4, <4>3 DEF Plain, n
      <4> QED
        BY <2>3, <3>1, <4>1, <4>4
    <3> QED
      BY <3>1, <3>2, <3>3, <3>4
  <2> QED
    BY <2>4, <2>5
<1> QED
  <2>1. work.step \notin InitSteps \union RepairSteps
    BY <1>1 DEF OneReceipt
  <2>2. work.step \in Steps
    BY DEF Typed, Works
  <2> QED
    BY <1>6, <1>7, <1>8, <2>1, <2>2 DEF Steps, InitSteps, RepairSteps, Clearing

\* The receipt was or was not written, or the refs alone are left.
LEMMA InvCrash ==
    ASSUME Inv
    PROVE  CrashShowsOldOrNew
<1> USE DEF Inv
<1> SUFFICES ASSUME phase = "on", ~inDoubt, ~halfSaved, ~kernel.safeMode,
                    ~ExtensionMade(kernel), ~ExtensionMade(work.next),
                    NEW reload, reload = Reload
             PROVE  /\ \/ SameProduct(reload, kernel)
                       \/ SameProduct(reload, work.next)
                       \/ /\ reload.safeMode
                          /\ reload.lastKnownGood.document \in
                                {kernel.active.document, kernel.lastKnownGood.document,
                                 work.next.active.document, work.next.lastKnownGood.document}
                    /\ Settled /\ marker # "pending" =>
                         SameProduct(reload, kernel) /\ ~reload.safeMode
  BY DEF CrashShowsOldOrNew
<1> SUFFICES ASSUME NEW l, l = refs[LastKnownGood], NEW s, s = SnapshotAt(Current(receipt))
             PROVE  /\ \/ SameProduct(reload, kernel)
                       \/ SameProduct(reload, work.next)
                       \/ /\ reload.safeMode
                          /\ reload.lastKnownGood.document \in
                                {kernel.active.document, kernel.lastKnownGood.document,
                                 work.next.active.document, work.next.lastKnownGood.document}
                    /\ Settled /\ marker # "pending" =>
                         SameProduct(reload, kernel) /\ ~reload.safeMode
  OBVIOUS
<1>1. receiptRef # NoReceipt /\ receipt = receiptRef
  BY CrashReads
<1>2. CASE activation = {}
  <2>1. /\ work.step \notin {"idle", "status", "checkpoint"}
        /\ refs[Accepted] # NoCommit /\ Plain(l)
        /\ SnapshotAt(l).active.document \in
             {kernel.active.document, kernel.lastKnownGood.document,
              work.next.active.document, work.next.lastKnownGood.document}
    BY <1>2, CrashReads
  <2>2. recoverActivation # unknown
    BY <2>1, Recovers DEF Plain, Commit, SnapshotAt
  <2>3. reload.safeMode /\ reload.lastKnownGood = SnapshotAt(l).active
    BY <1>2, <2>2, ReloadRecovered DEF SnapshotAt
  <2> QED
    BY <2>1, <2>3 DEF Settled
<1>3. CASE activation # {}
  <2>1. /\ validateShapingSnapshot(s)
        /\ reload.safeMode = (s.safeMode \/ marker = "pending")
        /\ reload.lastKnownGood = s.lastKnownGood
        /\ ~reload.safeMode => SameProduct(reload, s)
    BY <1>3, ReloadActivated
  <2> DEFINE saved == work.step \in Clearing /\ work.commit # NoCommit
             state == IF saved THEN work.next ELSE kernel
  <2>2. CASE ~state.safeMode
    <3>1. Reflects(s, state)
      BY <1>1, <2>2 DEF Stored, SnapshotAt, Current
    <3>2. SameProduct(s, state) /\ ~s.safeMode
      BY <3>1 DEF Reflects
    <3>3. \/ SameProduct(reload, state) /\ ~reload.safeMode
          \/ /\ reload.safeMode /\ marker = "pending"
             /\ reload.lastKnownGood.document = state.lastKnownGood.document
      BY <2>1, <3>2 DEF SameProduct
    <3>4. Settled => state = kernel
      BY DEF Settled, Clearing
    <3> QED
      BY <3>3, <3>4
  <2>3. CASE state.safeMode
    <3>1. saved /\ state = work.next
      BY <2>3
    <3>2. s = snapshotFromState(work.next) /\ Saving
      BY <1>1, <3>1 DEF Chain, SnapshotAt, Current, Saving, Clearing
    <3>3. s.safeMode /\ s.lastKnownGood = work.next.lastKnownGood
      BY <2>3, <3>1, <3>2, NextIs
    <3> QED
      BY <2>1, <3>1, <3>3 DEF Settled, Clearing
  <2> QED
    BY <2>2, <2>3
<1> QED
  BY <1>2, <1>3

\* Wherever a save is cut, the next start shows the product before it or the one after it,
\* or offers one of their documents in safe mode; with no save under way it shows the
\* product that is running.
THEOREM CrashSafety == Spec => []CrashShowsOldOrNew
  BY Invariance, InvCrash, PTL

\* In safe mode the receipt offers what the kernel does, or the refs do.
LEMMA InvRecovery ==
    ASSUME Inv
    PROVE  RecoverySurvives
<1> USE DEF Inv
<1> SUFFICES ASSUME Settled, ~inDoubt, ~halfSaved, kernel.safeMode, NEW reload, reload = Reload,
                    NEW a, a = SnapshotAt(receiptRef.acceptedCommit)
             PROVE  IF FailedInSafeMode(a)
                    THEN reload.safeMode
                    ELSE /\ reload.lastKnownGood.document = kernel.lastKnownGood.document
                         /\ reload.disabledExtensions = kernel.disabledExtensions
                         /\ kernel.lastEvent.type = "recovery-requested" => reload.safeMode
  BY DEF RecoverySurvives, contentAt, SnapshotAt
<1> SUFFICES ASSUME NEW s, s = SnapshotAt(Current(receipt)),
                    NEW lkg, lkg = receiptRef.lastKnownGoodCommit,
                    NEW acc, acc = receiptRef.acceptedCommit
             PROVE  IF FailedInSafeMode(a)
                    THEN reload.safeMode
                    ELSE /\ reload.lastKnownGood.document = kernel.lastKnownGood.document
                         /\ reload.disabledExtensions = kernel.disabledExtensions
                         /\ kernel.lastEvent.type = "recovery-requested" => reload.safeMode
  OBVIOUS
<1>1. /\ phase = "on" /\ work.step = "idle" /\ receiptRef # NoReceipt /\ receipt = receiptRef
      /\ Written(receipt) /\ Commit(Current(receipt)) /\ Backed(receipt) /\ Match(receipt)
  BY WrittenIs DEF Settled, Unread, OneReceipt, Stored, Matches, Match
<1>2. s.proposal.id = receipt.proposal.revisionId
  BY <1>1 DEF Backed, Pair, Current, NoProposal, NoRevision, SnapshotAt
<1>3. /\ receipt.proposal = NoProposal => s = a
      /\ receipt.proposal # NoProposal => validateShapingSnapshot(a) /\ ~s.safeMode
  BY <1>1 DEF Current, Backed, Plain, SnapshotAt
<1>4. SafeReflects(s, kernel)
  BY <1>1 DEF StoredSafe, Clearing, SnapshotAt, Current
<1>5. activation # {} =>
        /\ validateShapingSnapshot(s) /\ ~FailedInSafeMode(s)
        /\ reload.safeMode = (s.safeMode \/ marker = "pending")
        /\ reload.lastKnownGood = s.lastKnownGood
        /\ reload.disabledExtensions = s.disabledExtensions
  BY ReloadActivated, EventOfSnapshot
<1>6. validateShapingSnapshot(s) => activation # {}
  BY <1>1, <1>2, Activates
<1>7. activation = {} => reload.safeMode
  BY ReloadRecovered
<1>8. CASE FailedInSafeMode(a)
  <2>1. activation = {}
    BY <1>3, <1>5, <1>8, EventOfSnapshot
  <2> QED
    BY <1>7, <1>8, <2>1
<1>9. CASE ~FailedInSafeMode(a)
  <2>1. ~FailedInSafeMode(s)
    BY <1>3, <1>9 DEF FailedInSafeMode
  <2>2. CASE /\ validateShapingSnapshot(s)
             /\ s.lastKnownGood.document = kernel.lastKnownGood.document
             /\ s.disabledExtensions = kernel.disabledExtensions
             /\ kernel.lastEvent.type = "recovery-requested" => s.safeMode
    BY <1>5, <1>6, <1>9, <2>2
  <2>3. CASE /\ ExtensionMade(s) /\ kernel.lastEvent.type # "recovery-requested"
             /\ SnapshotAt(lkg).active.document = kernel.lastKnownGood.document
             /\ SnapshotAt(lkg).disabledExtensions = kernel.disabledExtensions
             /\ Plain(lkg)
    <3>1. activation = {}
      BY <1>5, <2>3, ValidIsNotExtensionMade
    <3>2. refs[LastKnownGood] = lkg /\ refs[Accepted] = acc /\ acc # NoCommit
      BY <1>1 DEF Match, Written, Commit, NoCommit
    <3>3. recoverActivation # unknown
      BY <2>3, <3>2, Recovers DEF Plain, Commit, SnapshotAt
    <3>4. /\ reload.lastKnownGood = SnapshotAt(lkg).active
          /\ reload.disabledExtensions = SnapshotAt(lkg).disabledExtensions
      BY <3>1, <3>2, <3>3, ReloadRecovered DEF SnapshotAt
    <3> QED
      BY <1>9, <2>3, <3>4
  <2> QED
    BY <1>4, <2>1, <2>2, <2>3 DEF SafeReflects, SnapshotAt, Plain, Commit
<1> QED
  BY <1>8, <1>9

\* What safe mode offers to restore and what it has disabled is what the next start offers.
THEOREM RecoverySafety == Spec => []RecoverySurvives
  BY Invariance, InvRecovery, PTL
==============================================================================
