----------------------- MODULE KernelTransitionsProofs ------------------------
(***************************************************************************)
(* What the transitions of the ShapingKernel preserve, one lemma per       *)
(* transition.  A state is Sound when it has its type, when an extension   *)
(* that failed FailureLimit times is disabled (so that counting stays in   *)
(* range), when a candidate was made for the interface that is shown, and  *)
(* when safe mode shows the compiled interface.  It Writes when its        *)
(* snapshot is one the validator takes back.                               *)
(***************************************************************************)
EXTENDS KernelTransitions, TLAPS

CandidateIsSound(state) ==
    state.proposal # NoRevision =>
        /\ ~state.safeMode
        /\ isOpen(state.proposal)
        /\ state.proposal.parentId = state.active.id

SafeModeIsSound(state) ==
    state.safeMode => state.active = InitialRevision /\ state.proposal = NoRevision

LimitDisables(state) ==
    \A e \in Extensions : state.failureCounts[e] = FailureLimit => e \in state.disabledExtensions

Sound(state) ==
    /\ state \in KernelStates
    /\ LimitDisables(state)
    /\ CandidateIsSound(state)
    /\ SafeModeIsSound(state)

\* The documents a state shows or can restore.
Shown(state) == {state.active.document, state.lastKnownGood.document}

------------------------------------------------------------------------------
(* Constants and parts *)

\* The two constant revisions and the constant snapshots have their types.
LEMMA ConstantTypes ==
    /\ NoRevision \in Revisions
    /\ InitialRevision \in Revisions
    /\ InitialRevision # NoRevision
    /\ InitialEvent \in Events
    /\ NoSnapshot \in Snapshots
BY DocumentsAssumption DEF NoRevision, InitialRevision, InitialEvent, NoSnapshot,
   Revisions, Events, Snapshots, Statuses, Sources, EventTypes, Ids, NoId, BuiltInId

\* What is stored of a state has the type of a snapshot.
LEMMA SnapshotType ==
    ASSUME NEW state \in KernelStates
    PROVE  snapshotFromState(state) \in Snapshots
BY DEF KernelStates, Snapshots, snapshotFromState

\* A sequenced transition changes the sequence and the event only.
LEMMA SequencedType ==
    ASSUME NEW state \in KernelStates, NEW type \in EventTypes,
           NEW revisionId \in Ids, NEW extensionId \in Extensions \union {NoExtension}
    PROVE  LET next == Sequenced(state, type, revisionId, extensionId)
           IN  /\ next \in KernelStates
               /\ next.active = state.active
               /\ next.lastKnownGood = state.lastKnownGood
               /\ next.proposal = state.proposal
               /\ next.safeMode = state.safeMode
               /\ next.disabledExtensions = state.disabledExtensions
               /\ next.failureCounts = state.failureCounts
<1> DEFINE event == eventFor(state, type, revisionId, extensionId)
           next == Sequenced(state, type, revisionId, extensionId)
<1>1. event \in Events
  BY DEF KernelStates, Events, eventFor
<1>2. next = [state EXCEPT !.sequence = state.sequence + 1, !.lastEvent = event]
  BY DEF Sequenced
<1>3. state.sequence + 1 \in Nat
  BY DEF KernelStates
<1> HIDE DEF event, next
<1>4. next \in KernelStates
  BY <1>1, <1>2, <1>3 DEF KernelStates
<1>5. /\ next.active = state.active
      /\ next.lastKnownGood = state.lastKnownGood
      /\ next.proposal = state.proposal
      /\ next.safeMode = state.safeMode
      /\ next.disabledExtensions = state.disabledExtensions
      /\ next.failureCounts = state.failureCounts
  BY <1>2 DEF KernelStates
<1> QED
  BY <1>4, <1>5 DEF next

\* A new revision is open or accepted, and was made for the interface shown.
LEMMA NewRevisionType ==
    ASSUME NEW state \in KernelStates, NEW id \in Nat, NEW status \in Statuses,
           NEW source \in Sources, NEW document \in Documents
    PROVE  LET revision == NewRevision(state, id, status, source, document)
           IN  /\ revision \in Revisions
               /\ revision # NoRevision
               /\ revision.status = status
               /\ revision.document = document
               /\ revision.parentId = state.active.id
BY DEF KernelStates, Revisions, NewRevision, NoRevision, NoId, Ids
------------------------------------------------------------------------------
(* Candidates *)

\* Opening a candidate with that status and event keeps a state outside safe
\* mode sound, and shows nothing new.
LEMMA CandidateOpened ==
    ASSUME NEW state, Sound(state), ~state.safeMode,
           NEW revision \in Revisions, isOpen(revision), revision.parentId = state.active.id,
           NEW type \in EventTypes, NEW revisionId \in Ids,
           NEW extensionId \in Extensions \union {NoExtension},
           NEW next,
           next = [Sequenced(state, type, revisionId, extensionId) EXCEPT !.proposal = revision]
    PROVE  Sound(next) /\ Shown(next) = Shown(state)
<1> DEFINE sequenced == Sequenced(state, type, revisionId, extensionId)
<1>1. /\ sequenced \in KernelStates
      /\ sequenced.active = state.active
      /\ sequenced.lastKnownGood = state.lastKnownGood
      /\ sequenced.safeMode = state.safeMode
      /\ sequenced.disabledExtensions = state.disabledExtensions
      /\ sequenced.failureCounts = state.failureCounts
  BY SequencedType DEF Sound
<1>2. next = [sequenced EXCEPT !.proposal = revision]
  OBVIOUS
<1> HIDE DEF sequenced
<1>3. next \in KernelStates
  BY <1>1, <1>2 DEF KernelStates
<1>4. /\ next.active = state.active
      /\ next.lastKnownGood = state.lastKnownGood
      /\ next.proposal = revision
      /\ next.safeMode = state.safeMode
      /\ next.disabledExtensions = state.disabledExtensions
      /\ next.failureCounts = state.failureCounts
  BY <1>1, <1>2 DEF KernelStates
<1> QED
  BY <1>3, <1>4 DEF Sound, LimitDisables, CandidateIsSound, SafeModeIsSound, Shown

\* propose
LEMMA ProposedSound ==
    ASSUME NEW state, Sound(state), canPropose(state),
           NEW id \in Nat, NEW document \in Documents, NEW source \in Sources
    PROVE  LET next == proposed(state, id, document, source)
           IN  Sound(next) /\ Shown(next) = Shown(state)
<1> DEFINE revision == NewRevision(state, id, "proposed", source, document)
<1>1. /\ revision \in Revisions
      /\ isOpen(revision)
      /\ revision.parentId = state.active.id
  BY NewRevisionType DEF Sound, Statuses, isOpen
<1>2. proposed(state, id, document, source) =
        [Sequenced(state, "revision-proposed", id, NoExtension) EXCEPT !.proposal = revision]
  BY DEF proposed
<1>3. "revision-proposed" \in EventTypes /\ id \in Ids /\ ~state.safeMode
  BY DEF EventTypes, Ids, canPropose
<1> QED
  BY <1>1, <1>2, <1>3, CandidateOpened

\* supersede
LEMMA SupersededSound ==
    ASSUME NEW state, Sound(state), NEW oldId, canSupersede(state, oldId),
           NEW id \in Nat, NEW document \in Documents, NEW source \in Sources
    PROVE  LET next == superseded(state, id, document, source)
           IN  Sound(next) /\ Shown(next) = Shown(state)
<1> DEFINE revision == NewRevision(state, id, state.proposal.status, source, document)
           type == IF state.proposal.status = "previewed" THEN "revision-previewed"
                                                          ELSE "revision-proposed"
<1>1. state.proposal.status \in Statuses /\ isOpen(state.proposal) /\ ~state.safeMode
  BY DEF Sound, KernelStates, Revisions, canSupersede
<1>2. /\ revision \in Revisions
      /\ isOpen(revision)
      /\ revision.parentId = state.active.id
  BY <1>1, NewRevisionType DEF Sound, isOpen
<1>3. superseded(state, id, document, source) =
        [Sequenced(state, type, id, NoExtension) EXCEPT !.proposal = revision]
  BY DEF superseded
<1>4. type \in EventTypes /\ id \in Ids
  BY DEF EventTypes, Ids
<1> QED
  BY <1>1, <1>2, <1>3, <1>4, CandidateOpened

\* preview
LEMMA PreviewedSound ==
    ASSUME NEW state, Sound(state), NEW id, canPreview(state, id)
    PROVE  LET next == previewed(state, id)
           IN  Sound(next) /\ Shown(next) = Shown(state)
<1> DEFINE revision == [state.proposal EXCEPT !.status = "previewed"]
           sequenced == Sequenced(state, "revision-previewed", id, NoExtension)
<1>1. state.proposal \in Revisions /\ state.proposal # NoRevision /\ id = state.proposal.id
  BY DEF Sound, KernelStates, canPreview, isProposal
<1>2. /\ revision \in Revisions
      /\ isOpen(revision)
      /\ revision.parentId = state.proposal.parentId
  BY <1>1 DEF Revisions, Statuses, isOpen
<1>3. ~state.safeMode /\ state.proposal.parentId = state.active.id
  BY <1>1 DEF Sound, CandidateIsSound
<1>4. "revision-previewed" \in EventTypes /\ id \in Ids
  BY <1>1 DEF EventTypes, Revisions
<1>5. sequenced \in KernelStates /\ sequenced.proposal = state.proposal
  BY <1>4, SequencedType DEF Sound
<1>6. previewed(state, id) = [sequenced EXCEPT !.proposal = revision]
  <2>1. previewed(state, id) = [sequenced EXCEPT !.proposal.status = "previewed"]
    BY DEF previewed
  <2> HIDE DEF sequenced
  <2> QED
    BY <1>5, <2>1 DEF KernelStates
<1>7. revision.parentId = state.active.id
  BY <1>2, <1>3
<1> HIDE DEF revision
<1> QED
  BY <1>2, <1>3, <1>4, <1>6, <1>7, CandidateOpened
\* Ending an extension's row of failures keeps a state sound.
LEMMA CountResetSound ==
    ASSUME NEW state, Sound(state), NEW extension \in Extensions,
           NEW next, next = [state EXCEPT !.failureCounts[extension] = 0]
    PROVE  Sound(next) /\ Shown(next) = Shown(state)
<1> DEFINE counts == [state.failureCounts EXCEPT ![extension] = 0]
<1>1. state \in KernelStates /\ state.failureCounts \in [Extensions -> 0..FailureLimit]
  BY DEF Sound, KernelStates
<1>2. /\ counts \in [Extensions -> 0..FailureLimit]
      /\ \A e \in Extensions : counts[e] = IF e = extension THEN 0 ELSE state.failureCounts[e]
  BY <1>1 DEF FailureLimit
<1>3. next = [state EXCEPT !.failureCounts = counts]
  BY <1>1 DEF KernelStates
<1> HIDE DEF counts
<1>4. /\ next \in KernelStates
      /\ next.active = state.active
      /\ next.lastKnownGood = state.lastKnownGood
      /\ next.proposal = state.proposal
      /\ next.safeMode = state.safeMode
      /\ next.disabledExtensions = state.disabledExtensions
      /\ next.failureCounts = counts
  BY <1>1, <1>2, <1>3 DEF KernelStates
<1>5. LimitDisables(next)
  BY <1>2, <1>4 DEF Sound, LimitDisables, FailureLimit
<1> QED
  BY <1>4, <1>5 DEF Sound, CandidateIsSound, SafeModeIsSound, Shown

\* applyExtensionIntents
LEMMA ExtensionProposedSound ==
    ASSUME NEW state, Sound(state), NEW binding, canApplyExtensionIntents(state, binding),
           NEW id \in Nat, NEW document \in Documents, NEW extension \in Extensions
    PROVE  LET next == extensionProposed(state, id, document, extension, binding)
           IN  Sound(next) /\ Shown(next) = Shown(state)
<1> DEFINE status == IF binding = "candidate" THEN "previewed" ELSE "proposed"
           type == IF binding = "candidate" THEN "revision-previewed" ELSE "revision-proposed"
           revision == NewRevision(state, id, status, "extension", document)
           sequenced == Sequenced(state, type, id, extension)
           opened == [sequenced EXCEPT !.proposal = revision]
           next == extensionProposed(state, id, document, extension, binding)
<1>1. /\ revision \in Revisions
      /\ isOpen(revision)
      /\ revision.parentId = state.active.id
  BY NewRevisionType DEF Sound, Statuses, Sources, isOpen
<1>2. type \in EventTypes /\ id \in Ids /\ ~state.safeMode
  BY DEF EventTypes, Ids, canApplyExtensionIntents
<1>3. sequenced \in KernelStates
  BY <1>2, SequencedType DEF Sound
<1>4. next = [sequenced EXCEPT !.proposal = revision, !.failureCounts[extension] = 0]
  BY DEF extensionProposed
<1>5. Sound(opened) /\ Shown(opened) = Shown(state)
  <2> HIDE DEF revision, type
  <2> QED
    BY <1>1, <1>2, CandidateOpened
<1>6. next = [opened EXCEPT !.failureCounts[extension] = 0]
  <2> HIDE DEF sequenced, revision, next
  <2> QED
    BY <1>3, <1>4 DEF KernelStates
<1> HIDE DEF opened
<1>7. Sound(next) /\ Shown(next) = Shown(opened)
  BY <1>5, <1>6, CountResetSound
<1> QED
  BY <1>5, <1>7

------------------------------------------------------------------------------
(* Decisions and recovery *)

\* A transition that closes the candidate and leaves safe mode.
LEMMA ClosedSound ==
    ASSUME NEW state, Sound(state), NEW next \in KernelStates,
           next.proposal = NoRevision,
           next.disabledExtensions = state.disabledExtensions,
           next.failureCounts = NoFailures \/ next.failureCounts = state.failureCounts,
           next.safeMode = FALSE \/ (next.safeMode = state.safeMode /\ next.active = state.active)
    PROVE  Sound(next)
<1>1. LimitDisables(next)
  BY DEF Sound, LimitDisables, NoFailures, FailureLimit
<1> QED
  BY <1>1 DEF Sound, CandidateIsSound, SafeModeIsSound

\* What both ways to a new interface have in common.
LEMMA DecidingSound ==
    ASSUME NEW state, Sound(state), NEW revision \in Revisions
    PROVE  LET next == deciding(state, revision)
           IN  /\ Sound(next)
               /\ Shown(next) = {revision.document, state.active.document}
<1> DEFINE sequenced == Sequenced(state, "revision-accepted", revision.id, NoExtension)
           next == deciding(state, revision)
<1>1. /\ sequenced \in KernelStates
      /\ sequenced.disabledExtensions = state.disabledExtensions
  BY SequencedType DEF Sound, EventTypes, Revisions
<1>2. next = [sequenced EXCEPT !.active = revision, !.lastKnownGood = state.active,
                               !.proposal = NoRevision, !.safeMode = FALSE,
                               !.failureCounts = NoFailures]
  BY DEF deciding
<1>3. NoFailures \in [Extensions -> 0..FailureLimit] /\ state.active \in Revisions
  BY DEF NoFailures, FailureLimit, Sound, KernelStates
<1> HIDE DEF sequenced, next
<1>4. /\ next \in KernelStates
      /\ next.active = revision
      /\ next.lastKnownGood = state.active
      /\ next.proposal = NoRevision
      /\ next.safeMode = FALSE
      /\ next.disabledExtensions = state.disabledExtensions
      /\ next.failureCounts = NoFailures
  BY <1>1, <1>2, <1>3, ConstantTypes DEF KernelStates
<1>5. Sound(next)
  BY <1>4, ClosedSound
<1>6. Shown(next) = {revision.document, state.active.document}
  BY <1>4 DEF Shown
<1> QED
  BY <1>5, <1>6 DEF next
\* applyLocalRevision
LEMMA AppliedSound ==
    ASSUME NEW state, Sound(state), NEW id \in Nat, NEW document \in Documents,
           NEW source \in Sources
    PROVE  LET next == applied(state, id, document, source)
           IN  Sound(next) /\ Shown(next) = {document, state.active.document}
<1> DEFINE revision == NewRevision(state, id, "accepted", source, document)
<1>1. revision \in Revisions /\ revision.document = document
  BY NewRevisionType DEF Sound, Statuses
<1> HIDE DEF revision
<1> QED
  BY <1>1, DecidingSound DEF applied, revision

\* accept
LEMMA AcceptedSound ==
    ASSUME NEW state, Sound(state)
    PROVE  LET next == accepted(state)
           IN  Sound(next) /\ Shown(next) = {state.proposal.document, state.active.document}
<1> DEFINE revision == [state.proposal EXCEPT !.status = "accepted"]
<1>1. revision \in Revisions /\ revision.document = state.proposal.document
  BY DEF Sound, KernelStates, Revisions, Statuses
<1> HIDE DEF revision
<1> QED
  BY <1>1, DecidingSound DEF accepted, revision

\* reject
LEMMA RejectedSound ==
    ASSUME NEW state, Sound(state)
    PROVE  LET next == rejected(state)
           IN  Sound(next) /\ Shown(next) = Shown(state)
<1> DEFINE sequenced == Sequenced(state, "revision-rejected", state.proposal.id, NoExtension)
           next == rejected(state)
<1>1. state.proposal.id \in Ids /\ "revision-rejected" \in EventTypes
  BY DEF Sound, KernelStates, Revisions, EventTypes
<1>2. /\ sequenced \in KernelStates
      /\ sequenced.active = state.active
      /\ sequenced.lastKnownGood = state.lastKnownGood
      /\ sequenced.safeMode = state.safeMode
      /\ sequenced.disabledExtensions = state.disabledExtensions
      /\ sequenced.failureCounts = state.failureCounts
  BY <1>1, SequencedType DEF Sound
<1>3. next = [sequenced EXCEPT !.proposal = NoRevision]
  BY DEF rejected
<1> HIDE DEF sequenced, next
<1>4. /\ next \in KernelStates
      /\ next.active = state.active
      /\ next.lastKnownGood = state.lastKnownGood
      /\ next.proposal = NoRevision
      /\ next.safeMode = state.safeMode
      /\ next.disabledExtensions = state.disabledExtensions
      /\ next.failureCounts = state.failureCounts
  BY <1>2, <1>3, ConstantTypes DEF KernelStates
<1>5. Sound(next)
  BY <1>4, ClosedSound
<1>6. Shown(next) = Shown(state)
  BY <1>4 DEF Shown
<1> QED
  BY <1>5, <1>6 DEF next

\* rollback and restoreLastKnownGood
LEMMA RolledBackSound ==
    ASSUME NEW state, Sound(state)
    PROVE  LET next == rolledBack(state)
           IN  Sound(next) /\ Shown(next) = {state.lastKnownGood.document}
<1> DEFINE recovered == [state.lastKnownGood EXCEPT !.source = "recovery", !.status = "accepted"]
           sequenced == Sequenced(state, "revision-rolled-back", recovered.id, NoExtension)
           next == rolledBack(state)
<1>1. /\ recovered \in Revisions
      /\ recovered.document = state.lastKnownGood.document
      /\ recovered.id \in Ids
  BY DEF Sound, KernelStates, Revisions, Sources, Statuses
<1>2. next = [sequenced EXCEPT !.active = recovered, !.lastKnownGood = recovered,
                               !.proposal = NoRevision, !.safeMode = FALSE,
                               !.failureCounts = NoFailures]
  BY DEF rolledBack
<1> HIDE DEF recovered
<1>3. /\ sequenced \in KernelStates
      /\ sequenced.disabledExtensions = state.disabledExtensions
  BY <1>1, SequencedType DEF Sound, EventTypes
<1>4. NoFailures \in [Extensions -> 0..FailureLimit]
  BY DEF NoFailures, FailureLimit
<1> HIDE DEF sequenced, next
<1>5. /\ next \in KernelStates
      /\ next.active = recovered
      /\ next.lastKnownGood = recovered
      /\ next.proposal = NoRevision
      /\ next.safeMode = FALSE
      /\ next.disabledExtensions = state.disabledExtensions
      /\ next.failureCounts = NoFailures
  BY <1>1, <1>2, <1>3, <1>4, ConstantTypes DEF KernelStates
<1>6. Sound(next)
  BY <1>5, ClosedSound
<1>7. Shown(next) = {state.lastKnownGood.document}
  BY <1>1, <1>5 DEF Shown
<1> QED
  BY <1>6, <1>7 DEF next

\* The compiled interface replaces what is shown, whatever came before.
LEMMA ProtectedSound ==
    ASSUME NEW state \in KernelStates, LimitDisables(state)
    PROVE  LET next == Protected(state)
           IN  Sound(next) /\ Shown(next) = {BuiltIn, state.lastKnownGood.document}
<1> DEFINE next == Protected(state)
<1>1. next = [state EXCEPT !.active = InitialRevision, !.proposal = NoRevision, !.safeMode = TRUE]
  BY DEF Protected
<1> HIDE DEF next
<1>2. /\ next \in KernelStates
      /\ next.active = InitialRevision
      /\ next.lastKnownGood = state.lastKnownGood
      /\ next.proposal = NoRevision
      /\ next.disabledExtensions = state.disabledExtensions
      /\ next.failureCounts = state.failureCounts
  BY <1>1, ConstantTypes DEF KernelStates
<1>3. Sound(next)
  BY <1>2 DEF Sound, LimitDisables, CandidateIsSound, SafeModeIsSound
<1>4. Shown(next) = {BuiltIn, state.lastKnownGood.document}
  BY <1>2 DEF Shown, InitialRevision
<1> QED
  BY <1>3, <1>4 DEF next

\* enterSafeMode
LEMMA SafeModeEnteredSound ==
    ASSUME NEW state, Sound(state)
    PROVE  LET next == safeModeEntered(state)
           IN  Sound(next) /\ Shown(next) = {BuiltIn, state.lastKnownGood.document}
<1> DEFINE sequenced == Sequenced(state, "safe-mode-entered", state.lastKnownGood.id, NoExtension)
<1>1. state.lastKnownGood.id \in Ids /\ "safe-mode-entered" \in EventTypes
  BY DEF Sound, KernelStates, Revisions, EventTypes
<1>2. /\ sequenced \in KernelStates
      /\ sequenced.lastKnownGood = state.lastKnownGood
      /\ LimitDisables(sequenced)
  BY <1>1, SequencedType DEF Sound, LimitDisables
<1> HIDE DEF sequenced
<1> QED
  BY <1>2, ProtectedSound DEF safeModeEntered, sequenced
------------------------------------------------------------------------------
(* Extension failures *)

\* recordExtensionFailure below the limit
LEMMA ExtensionFailedSound ==
    ASSUME NEW state, Sound(state), NEW extension \in Extensions,
           extension \notin state.disabledExtensions, ~shouldRecover(state, extension)
    PROVE  LET next == extensionFailed(state, extension)
           IN  Sound(next) /\ Shown(next) = Shown(state)
<1> DEFINE sequenced == Sequenced(state, "extension-failed", NoId, extension)
           counts == [state.failureCounts EXCEPT ![extension] = @ + 1]
           next == extensionFailed(state, extension)
<1>1. "extension-failed" \in EventTypes /\ NoId \in Ids
  BY DEF EventTypes, Ids
<1>2. /\ sequenced \in KernelStates
      /\ sequenced.active = state.active
      /\ sequenced.lastKnownGood = state.lastKnownGood
      /\ sequenced.proposal = state.proposal
      /\ sequenced.safeMode = state.safeMode
      /\ sequenced.disabledExtensions = state.disabledExtensions
      /\ sequenced.failureCounts = state.failureCounts
  BY <1>1, SequencedType DEF Sound
<1>3. state.failureCounts \in [Extensions -> 0..FailureLimit]
  BY DEF Sound, KernelStates
<1>4. /\ counts \in [Extensions -> 0..FailureLimit]
      /\ counts[extension] < FailureLimit
      /\ \A e \in Extensions : e # extension => counts[e] = state.failureCounts[e]
  BY <1>3 DEF shouldRecover, FailureLimit
<1>5. next = [sequenced EXCEPT !.failureCounts = counts]
  <2>1. next = [sequenced EXCEPT !.failureCounts[extension] = @ + 1]
    BY DEF extensionFailed
  <2> HIDE DEF sequenced, next
  <2> QED
    BY <1>2, <2>1 DEF KernelStates
<1> HIDE DEF sequenced, next, counts
<1>6. /\ next \in KernelStates
      /\ next.active = state.active
      /\ next.lastKnownGood = state.lastKnownGood
      /\ next.proposal = state.proposal
      /\ next.safeMode = state.safeMode
      /\ next.disabledExtensions = state.disabledExtensions
      /\ next.failureCounts = counts
  BY <1>2, <1>4, <1>5 DEF KernelStates
<1>7. LimitDisables(next)
  BY <1>4, <1>6 DEF Sound, LimitDisables, FailureLimit
<1>8. Sound(next)
  BY <1>6, <1>7 DEF Sound, CandidateIsSound, SafeModeIsSound
<1>9. Shown(next) = Shown(state)
  BY <1>6 DEF Shown
<1> QED
  BY <1>8, <1>9 DEF next

\* recordExtensionFailure at the limit
LEMMA RecoveryRequestedSound ==
    ASSUME NEW state, Sound(state), NEW extension \in Extensions,
           extension \notin state.disabledExtensions
    PROVE  LET next == recoveryRequested(state, extension)
           IN  Sound(next) /\ Shown(next) = {BuiltIn, state.lastKnownGood.document}
<1> DEFINE sequenced == Sequenced(state, "recovery-requested", state.lastKnownGood.id, extension)
           protected == Protected(sequenced)
           counts == [state.failureCounts EXCEPT ![extension] = @ + 1]
           disabled == state.disabledExtensions \union {extension}
           next == recoveryRequested(state, extension)
<1>1. state.lastKnownGood.id \in Ids /\ "recovery-requested" \in EventTypes
  BY DEF Sound, KernelStates, Revisions, EventTypes
<1>2. /\ sequenced \in KernelStates
      /\ sequenced.lastKnownGood = state.lastKnownGood
      /\ sequenced.disabledExtensions = state.disabledExtensions
      /\ sequenced.failureCounts = state.failureCounts
  BY <1>1, SequencedType DEF Sound
<1>3. /\ protected \in KernelStates
      /\ protected.active = InitialRevision
      /\ protected.proposal = NoRevision
      /\ protected.safeMode = TRUE
      /\ protected.lastKnownGood = state.lastKnownGood
      /\ protected.disabledExtensions = state.disabledExtensions
      /\ protected.failureCounts = state.failureCounts
  <2> HIDE DEF sequenced
  <2> QED
    BY <1>2, ConstantTypes DEF Protected, KernelStates
<1>4. /\ state.failureCounts \in [Extensions -> 0..FailureLimit]
      /\ state.disabledExtensions \subseteq Extensions
      /\ state.failureCounts[extension] # FailureLimit
  BY DEF Sound, LimitDisables, KernelStates
<1>5. /\ counts \in [Extensions -> 0..FailureLimit]
      /\ \A e \in Extensions : e # extension => counts[e] = state.failureCounts[e]
  BY <1>4 DEF FailureLimit
<1>6. next = [protected EXCEPT !.failureCounts = counts, !.disabledExtensions = disabled]
  <2>1. next = [protected EXCEPT !.failureCounts[extension] = @ + 1,
                                 !.disabledExtensions = @ \union {extension}]
    BY DEF recoveryRequested
  <2> HIDE DEF protected, next
  <2> QED
    BY <1>3, <2>1 DEF KernelStates
<1> HIDE DEF protected, next, counts
<1>7. /\ next \in KernelStates
      /\ next.active = InitialRevision
      /\ next.lastKnownGood = state.lastKnownGood
      /\ next.proposal = NoRevision
      /\ next.safeMode = TRUE
      /\ next.disabledExtensions = disabled
      /\ next.failureCounts = counts
  BY <1>3, <1>4, <1>5, <1>6 DEF KernelStates
<1>8. LimitDisables(next)
  BY <1>5, <1>7 DEF Sound, LimitDisables
<1>9. Sound(next)
  BY <1>7, <1>8 DEF Sound, CandidateIsSound, SafeModeIsSound
<1>10. Shown(next) = {BuiltIn, state.lastKnownGood.document}
  BY <1>7 DEF Shown, InitialRevision
<1> QED
  BY <1>9, <1>10 DEF next

\* recordExtensionSuccess
LEMMA ExtensionSucceededSound ==
    ASSUME NEW state, Sound(state), NEW extension \in Extensions
    PROVE  LET next == extensionSucceeded(state, extension)
           IN  Sound(next) /\ Shown(next) = Shown(state)
BY CountResetSound DEF extensionSucceeded

------------------------------------------------------------------------------
(* Starting *)

\* A stored snapshot whose proposal is valid, or none, starts a sound state,
\* and nothing is shown that was not stored.
LEMMA InitialStateSound ==
    ASSUME NEW load, load.snapshot \in Snapshots, load.recovered \in BOOLEAN,
           load.recovery \in BOOLEAN,
           load.snapshot = NoSnapshot \/ ValidProposal(load.snapshot)
    PROVE  LET next == initialState(load)
           IN  /\ Sound(next)
               /\ Shown(next) \subseteq Shown(load.snapshot) \union {BuiltIn}
<1> DEFINE forced == load.recovered \/ load.recovery
           next == initialState(load)
<1>1. NoFailures \in [Extensions -> 0..FailureLimit]
  BY DEF NoFailures, FailureLimit
<1>2. CASE load.snapshot = NoSnapshot
  <2>1. /\ next.active = InitialRevision
        /\ next.lastKnownGood = InitialRevision
        /\ next.proposal = NoRevision
        /\ next.failureCounts = NoFailures
        /\ next.disabledExtensions = {}
    BY <1>2 DEF initialState
  <2>2. next \in KernelStates
    <3> DEFINE started == IF forced THEN 1 ELSE 0
               event == [sequence |-> started,
                         type |-> IF forced THEN "safe-mode-entered" ELSE "initialized",
                         revisionId |-> BuiltInId, extensionId |-> NoExtension]
    <3>1. event \in Events
      BY DEF Events, EventTypes, Ids, BuiltInId
    <3>2. next = [active |-> InitialRevision, lastKnownGood |-> InitialRevision,
                  proposal |-> NoRevision, safeMode |-> forced,
                  disabledExtensions |-> {}, failureCounts |-> NoFailures,
                  sequence |-> started, lastEvent |-> event]
      BY <1>2 DEF initialState
    <3>3. started \in Nat /\ forced \in BOOLEAN
      OBVIOUS
    <3> HIDE DEF event, started, forced, next
    <3> QED
      BY <1>1, <3>1, <3>2, <3>3, ConstantTypes DEF KernelStates
  <2>3. Sound(next)
    BY <2>1, <2>2 DEF Sound, LimitDisables, NoFailures, FailureLimit, CandidateIsSound, SafeModeIsSound
  <2>4. Shown(next) \subseteq {BuiltIn}
    BY <2>1 DEF Shown, InitialRevision
  <2> QED
    BY <2>3, <2>4
<1>3. CASE load.snapshot # NoSnapshot
  <2> DEFINE restored == load.snapshot
             safe == restored.safeMode \/ forced
  <2>1. next = [active |-> IF safe THEN InitialRevision ELSE restored.active,
                lastKnownGood |-> restored.lastKnownGood,
                proposal |-> IF safe THEN NoRevision ELSE restored.proposal,
                safeMode |-> safe,
                disabledExtensions |-> restored.disabledExtensions,
                failureCounts |-> NoFailures,
                sequence |-> restored.lastEvent.sequence,
                lastEvent |-> restored.lastEvent]
    BY <1>3 DEF initialState
  <2>2. /\ restored.active \in Revisions
        /\ restored.lastKnownGood \in Revisions
        /\ restored.proposal \in Revisions
        /\ safe \in BOOLEAN
        /\ restored.disabledExtensions \subseteq Extensions
        /\ restored.lastEvent \in Events
        /\ restored.lastEvent.sequence \in Nat
    BY DEF Snapshots, Events
  <2>3. restored.proposal # NoRevision =>
            isOpen(restored.proposal) /\ restored.proposal.parentId = restored.active.id
    BY <1>3 DEF ValidProposal, isOpen
  <2> HIDE DEF next, safe
  <2>4. next \in KernelStates
    BY <1>1, <2>1, <2>2, ConstantTypes DEF KernelStates
  <2>5. Sound(next)
    BY <2>1, <2>3, <2>4 DEF Sound, LimitDisables, NoFailures, FailureLimit, CandidateIsSound,
       SafeModeIsSound
  <2>6. Shown(next) \subseteq Shown(restored) \union {BuiltIn}
    BY <2>1 DEF Shown, InitialRevision
  <2> QED
    BY <2>5, <2>6 DEF next
<1> QED
  BY <1>2, <1>3

\* The repair of a candidate that was never previewed.
LEMMA ReconciledSound ==
    ASSUME NEW state, Sound(state)
    PROVE  LET next == reconciledState(state)
           IN  Sound(next) /\ Shown(next) = Shown(state)
<1>1. CASE ~isPending(state)
  BY <1>1 DEF reconciledState
<1>2. CASE isPending(state)
  <2>1. canPreview(state, state.proposal.id)
    BY <1>2 DEF isPending, canPreview, isProposal
  <2>2. reconciledState(state) = previewed(state, state.proposal.id)
    BY <1>2 DEF reconciledState, previewed
  <2> QED
    BY <2>1, <2>2, PreviewedSound
<1> QED
  BY <1>1, <1>2

------------------------------------------------------------------------------
\* What the transitions write: a journal that a restart can read.
\* Parts that can be stored and read back: decided revisions as the interface and what can
\* be undone to, a candidate with an identifier that is not the compiled interface.
Storable(x) ==
    /\ ValidDecided(x.active) /\ x.active.id # NoId
    /\ ValidDecided(x.lastKnownGood) /\ x.lastKnownGood.id # NoId
    /\ x.proposal # NoRevision => x.proposal.source # "built-in" /\ x.proposal.id # NoId

\* The validator takes a snapshot back, or it is one of the two it is known to refuse.
Loadable(snapshot) ==
    \/ validateShapingSnapshot(snapshot)
    \/ /\ snapshot.lastEvent.type \in {"revision-proposed", "revision-previewed"}
       /\ snapshot.lastEvent.extensionId # NoExtension
    \/ snapshot.lastEvent.type = "extension-failed" /\ snapshot.safeMode

\* A state whose snapshot can be stored.
Writes(state) == Storable(state) /\ Loadable(snapshotFromState(state))

LEMMA ProposedWrites ==
    ASSUME NEW state, Sound(state), Storable(state), canPropose(state),
           NEW id \in Nat, NEW document \in Documents, NEW source \in {"user", "shaper"}
    PROVE  Writes(proposed(state, id, document, source))
  BY ExtensionsAssumption DEF Sound, KernelStates, proposed, canPropose, NewRevision, Writes,
     Storable, Loadable, snapshotFromState, Sequenced, eventFor, validateShapingSnapshot,
     ValidDecided, ValidProposal, ValidOrigin, eventMatchesState, hasRevisionOnly, NoId

LEMMA SupersededWrites ==
    ASSUME NEW state, Sound(state), Storable(state), NEW oldId, canSupersede(state, oldId),
           NEW id \in Nat, NEW document \in Documents, NEW source \in {"user", "shaper"}
    PROVE  Writes(superseded(state, id, document, source))
  BY ExtensionsAssumption DEF Sound, KernelStates, superseded, canSupersede, isOpen, NewRevision,
     Writes, Storable, Loadable, snapshotFromState, Sequenced, eventFor, validateShapingSnapshot,
     ValidDecided, ValidProposal, ValidOrigin, eventMatchesState, hasRevisionOnly, NoId

LEMMA ExtensionProposedWrites ==
    ASSUME NEW state, Sound(state), Storable(state), NEW binding, NEW extension \in Extensions,
           NEW id \in Nat, NEW document \in Documents
    PROVE  Writes(extensionProposed(state, id, document, extension, binding))
  BY ExtensionsAssumption DEF Sound, KernelStates, extensionProposed, NewRevision, Writes,
     Storable, Loadable, snapshotFromState, Sequenced, eventFor, validateShapingSnapshot,
     ValidDecided, ValidProposal, ValidOrigin, eventMatchesState, hasRevisionOnly, NoId

LEMMA PreviewedWrites ==
    ASSUME NEW state, Sound(state), Storable(state), NEW id, canPreview(state, id)
    PROVE  Writes(previewed(state, id))
<1> DEFINE sequenced == Sequenced(state, "revision-previewed", id, NoExtension)
           revision == [state.proposal EXCEPT !.status = "previewed"]
           next == previewed(state, id)
<1>1. /\ state \in KernelStates /\ state.proposal \in Revisions
      /\ state.proposal # NoRevision /\ id = state.proposal.id
  BY DEF Sound, KernelStates, canPreview, isProposal
<1>2. ~state.safeMode /\ state.proposal.parentId = state.active.id
  BY <1>1 DEF Sound, CandidateIsSound
<1>3. /\ revision.status = "previewed" /\ revision.id = id
      /\ revision.source = state.proposal.source
      /\ revision.parentId = state.proposal.parentId
  BY <1>1 DEF Revisions
<1>4. /\ sequenced.proposal = state.proposal /\ sequenced \in KernelStates
      /\ sequenced.active = state.active /\ sequenced.lastKnownGood = state.lastKnownGood
      /\ sequenced.safeMode = state.safeMode
      /\ sequenced.lastEvent = eventFor(state, "revision-previewed", id, NoExtension)
  <2>1. id \in Ids /\ "revision-previewed" \in EventTypes
    BY <1>1 DEF Revisions, EventTypes
  <2>2. sequenced.lastEvent = eventFor(state, "revision-previewed", id, NoExtension)
    BY <1>1 DEF KernelStates, Sequenced
  <2> QED
    BY <1>1, <2>1, <2>2, SequencedType
<1>5. next = [sequenced EXCEPT !.proposal.status = "previewed"]
  BY DEF previewed
<1> HIDE DEF sequenced, next
<1>6. /\ next.proposal = revision /\ next.active = state.active
      /\ next.lastKnownGood = state.lastKnownGood /\ next.safeMode = state.safeMode
      /\ next.lastEvent = eventFor(state, "revision-previewed", id, NoExtension)
  BY <1>4, <1>5 DEF KernelStates
<1> HIDE DEF revision
<1> QED
  BY <1>1, <1>2, <1>3, <1>6 DEF next, eventFor, KernelStates, Writes, Storable, Loadable,
     snapshotFromState, validateShapingSnapshot,
     ValidDecided, ValidProposal, ValidOrigin, eventMatchesState, hasRevisionOnly, NoId

LEMMA AppliedWrites ==
    ASSUME NEW state, Sound(state), Storable(state),
           NEW id \in Nat, NEW document \in Documents, NEW source \in {"user", "shaper"}
    PROVE  Writes(applied(state, id, document, source))
  BY ExtensionsAssumption DEF Sound, KernelStates, applied, deciding, NewRevision, Writes,
     Storable, Loadable, snapshotFromState, Sequenced, eventFor, validateShapingSnapshot,
     ValidDecided, ValidProposal, ValidOrigin, eventMatchesState, hasRevisionOnly, NoId

LEMMA AcceptedWrites ==
    ASSUME NEW state, Sound(state), Storable(state), NEW id, canAccept(state, id)
    PROVE  Writes(accepted(state))
  BY ExtensionsAssumption DEF Sound, KernelStates, accepted, deciding, canAccept, isProposal,
     Revisions, Writes, Storable, Loadable, snapshotFromState, Sequenced, eventFor,
     validateShapingSnapshot,
     ValidDecided, ValidProposal, ValidOrigin, eventMatchesState, hasRevisionOnly, NoId

LEMMA RejectedWrites ==
    ASSUME NEW state, Sound(state), Storable(state), state.proposal # NoRevision
    PROVE  Writes(rejected(state))
  BY ExtensionsAssumption DEF Sound, KernelStates, rejected, CandidateIsSound, Writes, Storable,
     Loadable, snapshotFromState, Sequenced, eventFor, validateShapingSnapshot,
     ValidDecided, ValidProposal, ValidOrigin, eventMatchesState, hasRevisionOnly, NoId

LEMMA RolledBackWrites ==
    ASSUME NEW state, Sound(state), Storable(state)
    PROVE  Writes(rolledBack(state))
<1> DEFINE sequenced(id) == Sequenced(state, "revision-rolled-back", id, NoExtension)
           recovered == [state.lastKnownGood EXCEPT !.source = "recovery", !.status = "accepted"]
           next == rolledBack(state)
<1>1. state \in KernelStates /\ state.lastKnownGood \in Revisions
  BY DEF Sound, KernelStates
<1>2. /\ recovered.status = "accepted" /\ recovered.source = "recovery"
      /\ recovered.id = state.lastKnownGood.id
  BY <1>1 DEF Revisions
<1>3. next = [sequenced(recovered.id) EXCEPT !.active = recovered, !.lastKnownGood = recovered,
                               !.proposal = NoRevision, !.safeMode = FALSE,
                               !.failureCounts = NoFailures]
  BY DEF rolledBack
<1> HIDE DEF recovered, next
<1>4. /\ next.active = recovered /\ next.lastKnownGood = recovered /\ next.proposal = NoRevision
      /\ next.safeMode = FALSE
      /\ next.lastEvent = eventFor(state, "revision-rolled-back", recovered.id, NoExtension)
  BY <1>1, <1>3 DEF KernelStates, Sequenced
<1> QED
  BY <1>1, <1>2, <1>4 DEF next, eventFor, KernelStates, Writes, Storable, Loadable,
     snapshotFromState, validateShapingSnapshot,
     ValidDecided, ValidProposal, ValidOrigin, eventMatchesState, hasRevisionOnly, NoId

LEMMA SafeModeEnteredWrites ==
    ASSUME NEW state, Sound(state), Storable(state)
    PROVE  Writes(safeModeEntered(state))
  BY ExtensionsAssumption DEF Sound, KernelStates, safeModeEntered, Protected, isBuiltInSafeState,
     InitialRevision, isInitialRevision, BuiltInId, Writes, Storable, Loadable, snapshotFromState,
     Sequenced, eventFor, validateShapingSnapshot,
     ValidDecided, ValidProposal, ValidOrigin, eventMatchesState, hasRevisionOnly, NoId

LEMMA ExtensionFailedWrites ==
    ASSUME NEW state, Sound(state), Storable(state), NEW extension \in Extensions
    PROVE  Writes(extensionFailed(state, extension))
  BY ExtensionsAssumption DEF Sound, KernelStates, extensionFailed, hasExtensionOnly,
     CandidateIsSound, isOpen, Writes, Storable, Loadable, snapshotFromState, Sequenced, eventFor,
     validateShapingSnapshot,
     ValidDecided, ValidProposal, ValidOrigin, eventMatchesState, hasRevisionOnly, NoId

LEMMA RecoveryRequestedWrites ==
    ASSUME NEW state, Sound(state), Storable(state), NEW extension \in Extensions
    PROVE  Writes(recoveryRequested(state, extension))
<1> DEFINE sequenced == Sequenced(state, "recovery-requested", state.lastKnownGood.id, extension)
           protected == Protected(sequenced)
           next == recoveryRequested(state, extension)
<1>1. state \in KernelStates
  BY DEF Sound
<1>2. /\ protected.active = InitialRevision /\ protected.proposal = NoRevision
      /\ protected.safeMode = TRUE /\ protected.lastKnownGood = state.lastKnownGood
      /\ protected.lastEvent =
            eventFor(state, "recovery-requested", state.lastKnownGood.id, extension)
      /\ DOMAIN protected = DOMAIN state
  BY <1>1 DEF KernelStates, Sequenced, Protected
<1>3. next = [protected EXCEPT !.failureCounts[extension] = @ + 1,
                               !.disabledExtensions = @ \union {extension}]
  BY DEF recoveryRequested
<1> HIDE DEF protected, next
<1>4. /\ next.active = InitialRevision /\ next.proposal = NoRevision
      /\ next.safeMode = TRUE /\ next.lastKnownGood = state.lastKnownGood
      /\ next.lastEvent = protected.lastEvent /\ extension \in next.disabledExtensions
  BY <1>1, <1>2, <1>3 DEF KernelStates
<1>5. /\ snapshotFromState(next).active = InitialRevision
      /\ snapshotFromState(next).lastKnownGood = state.lastKnownGood
      /\ snapshotFromState(next).proposal = NoRevision /\ snapshotFromState(next).safeMode = TRUE
      /\ extension \in snapshotFromState(next).disabledExtensions
      /\ snapshotFromState(next).lastEvent =
            eventFor(state, "recovery-requested", state.lastKnownGood.id, extension)
  BY <1>2, <1>4 DEF snapshotFromState
<1> HIDE DEF next
<1>6. Storable(next)
  BY <1>4 DEF Storable, ValidDecided, InitialRevision, isInitialRevision, BuiltInId, NoId
<1>7. validateShapingSnapshot(snapshotFromState(next))
  <2> DEFINE snapshot == snapshotFromState(next)
  <2>1. ValidDecided(snapshot.active) /\ ValidDecided(snapshot.lastKnownGood)
    BY <1>5 DEF Storable, ValidDecided, InitialRevision, isInitialRevision
  <2>2. ValidProposal(snapshot) /\ ValidOrigin(snapshot)
    BY <1>1, <1>5 DEF ValidProposal, ValidOrigin, eventFor, KernelStates
  <2>3. eventMatchesState(snapshot)
    BY <1>5 DEF eventMatchesState, eventFor, isBuiltInSafeState, isInitialRevision
  <2> HIDE DEF snapshot
  <2> QED
    BY <2>1, <2>2, <2>3 DEF validateShapingSnapshot, snapshot
<1> QED
  BY <1>6, <1>7 DEF Writes, Loadable, next
==============================================================================
