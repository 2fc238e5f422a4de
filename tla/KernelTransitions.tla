-------------------------- MODULE KernelTransitions --------------------------
(***************************************************************************)
(* The transitions of the ShapingKernel (src/lib/shaping-kernel.ts) on the *)
(* value its SubscriptionRef holds.  Each operation of the kernel computes *)
(* the next KernelState from the present one inside modifyEffect, hands    *)
(* its snapshot to the repository, and installs it only when the           *)
(* repository succeeded.  This module holds the computation (who may, and  *)
(* what comes next); ShapingKernel and GitInterfaceRepository hold the     *)
(* writing, against a one-step journal and against Git refs.               *)
(***************************************************************************)
EXTENDS Revisions

\* recordExtensionFailure disables an extension at its third failure in a row.
FailureLimit == 3

KernelStates ==
    [active: Revisions, lastKnownGood: Revisions, proposal: Revisions,
     safeMode: BOOLEAN, disabledExtensions: SUBSET Extensions,
     failureCounts: [Extensions -> 0..FailureLimit],
     sequence: Nat, lastEvent: Events]

NoFailures == [e \in Extensions |-> 0]

\* Mutant: the disabled extensions are left out of what is stored.
snapshotFromState_ForgetsDisabled(state) ==
    [active |-> state.active, lastKnownGood |-> state.lastKnownGood,
     proposal |-> state.proposal, safeMode |-> state.safeMode,
     disabledExtensions |-> {}, lastEvent |-> state.lastEvent]

snapshotFromState(state) ==
    [active |-> state.active, lastKnownGood |-> state.lastKnownGood,
     proposal |-> state.proposal, safeMode |-> state.safeMode,
     disabledExtensions |-> state.disabledExtensions, lastEvent |-> state.lastEvent]

eventFor(state, type, revisionId, extensionId) ==
    [sequence |-> state.sequence + 1, type |-> type,
     revisionId |-> revisionId, extensionId |-> extensionId]

\* The next state of every sequenced transition: one event, one more sequence.
Sequenced(state, type, revisionId, extensionId) ==
    [state EXCEPT !.sequence = state.sequence + 1,
                  !.lastEvent = eventFor(state, type, revisionId, extensionId)]

NewRevision(state, id, status, source, document) ==
    [id |-> id, parentId |-> state.active.id, status |-> status,
     source |-> source, document |-> document]

------------------------------------------------------------------------------
(* Starting.  load is what the repository returned: a snapshot (when found) *)
(* and the two recovery flags.                                              *)

NoSnapshot == [active |-> NoRevision, lastKnownGood |-> NoRevision,
               proposal |-> NoRevision, safeMode |-> FALSE,
               disabledExtensions |-> {}, lastEvent |-> InitialEvent]

initialState(load) ==
    LET forcedSafeMode == load.recovered \/ load.recovery
        restored == load.snapshot
        safe == restored.safeMode \/ forcedSafeMode
        started == IF forcedSafeMode THEN 1 ELSE 0
    IN  IF restored = NoSnapshot
        THEN [active |-> InitialRevision, lastKnownGood |-> InitialRevision,
              proposal |-> NoRevision, safeMode |-> forcedSafeMode,
              disabledExtensions |-> {}, failureCounts |-> NoFailures,
              sequence |-> started,
              lastEvent |-> [sequence |-> started,
                             type |-> IF forcedSafeMode THEN "safe-mode-entered"
                                                        ELSE "initialized",
                             revisionId |-> BuiltInId, extensionId |-> NoExtension]]
        ELSE [active |-> IF safe THEN InitialRevision ELSE restored.active,
              lastKnownGood |-> restored.lastKnownGood,
              proposal |-> IF safe THEN NoRevision ELSE restored.proposal,
              safeMode |-> safe,
              disabledExtensions |-> restored.disabledExtensions,
              failureCounts |-> NoFailures,
              sequence |-> restored.lastEvent.sequence,
              lastEvent |-> restored.lastEvent]

\* A proposal that was never previewed is reconciled into a visible preview.
isPending(state) == state.proposal # NoRevision /\ state.proposal.status = "proposed"

\* Mutant: the repair changes the status and keeps the old event.
reconciledState_KeepsEvent(state) ==
    IF isPending(state) THEN [state EXCEPT !.proposal.status = "previewed"] ELSE state

reconciledState(state) ==
    IF isPending(state)
    THEN [Sequenced(state, "revision-previewed", state.proposal.id, NoExtension)
            EXCEPT !.proposal.status = "previewed"]
    ELSE state

------------------------------------------------------------------------------
(* Candidates *)

canPropose(state) == ~state.safeMode /\ state.proposal = NoRevision

proposed(state, id, document, source) ==
    [Sequenced(state, "revision-proposed", id, NoExtension)
       EXCEPT !.proposal = NewRevision(state, id, "proposed", source, document)]

\* An extension speaks for the accepted interface, or for a previewed candidate.
canApplyExtensionIntents(state, binding) ==
    /\ ~state.safeMode
    /\ IF binding = "candidate"
       THEN state.proposal # NoRevision /\ state.proposal.status = "previewed"
       ELSE state.proposal = NoRevision

extensionProposed(state, id, document, extension, binding) ==
    LET status == IF binding = "candidate" THEN "previewed" ELSE "proposed"
        type == IF binding = "candidate" THEN "revision-previewed" ELSE "revision-proposed"
    IN  [Sequenced(state, type, id, extension)
           EXCEPT !.proposal = NewRevision(state, id, status, "extension", document),
                  !.failureCounts[extension] = 0]

isProposal(state, id) == state.proposal # NoRevision /\ state.proposal.id = id

canPreview(state, id) == isProposal(state, id) /\ state.proposal.status = "proposed"

\* Mutant: a preview replaces the interface that is shown.
previewed_ShowsCandidate(state, id) ==
    [Sequenced(state, "revision-previewed", id, NoExtension)
       EXCEPT !.proposal.status = "previewed",
              !.active = [state.proposal EXCEPT !.status = "accepted"]]

previewed(state, id) ==
    [Sequenced(state, "revision-previewed", id, NoExtension)
       EXCEPT !.proposal.status = "previewed"]

isOpen(revision) == revision.status \in {"proposed", "previewed"}

canSupersede(state, id) ==
    isProposal(state, id) /\ ~state.safeMode /\ isOpen(state.proposal)

superseded(state, id, document, source) ==
    LET type == IF state.proposal.status = "previewed" THEN "revision-previewed"
                                                       ELSE "revision-proposed"
    IN  [Sequenced(state, type, id, NoExtension)
           EXCEPT !.proposal = NewRevision(state, id, state.proposal.status, source, document)]

------------------------------------------------------------------------------
(* Decisions *)

\* Mutant: the accepted proposal stays open.
deciding_KeepsProposal(state, revision) ==
    [Sequenced(state, "revision-accepted", revision.id, NoExtension)
       EXCEPT !.active = revision,
              !.lastKnownGood = state.active,
              !.failureCounts = NoFailures]

\* revision becomes the interface; what was shown before it can be undone to.
deciding(state, revision) ==
    [Sequenced(state, "revision-accepted", revision.id, NoExtension)
       EXCEPT !.active = revision,
              !.lastKnownGood = state.active,
              !.proposal = NoRevision,
              !.safeMode = FALSE,
              !.failureCounts = NoFailures]

applied(state, id, document, source) ==
    deciding(state, NewRevision(state, id, "accepted", source, document))

canAccept(state, id) == isProposal(state, id) /\ isOpen(state.proposal)

accepted(state) == deciding(state, [state.proposal EXCEPT !.status = "accepted"])

rejected(state) ==
    [Sequenced(state, "revision-rejected", state.proposal.id, NoExtension)
       EXCEPT !.proposal = NoRevision]

------------------------------------------------------------------------------
(* Recovery *)

\* rollback and restoreLastKnownGood compute the same state under two guards.
rolledBack(state) ==
    LET recovered == [state.lastKnownGood EXCEPT !.source = "recovery", !.status = "accepted"]
    IN  [Sequenced(state, "revision-rolled-back", recovered.id, NoExtension)
           EXCEPT !.active = recovered,
                  !.lastKnownGood = recovered,
                  !.proposal = NoRevision,
                  !.safeMode = FALSE,
                  !.failureCounts = NoFailures]

canRollback(state) == isRollbackAvailable(snapshotFromState(state))

canRestore(state) == state.safeMode

\* Mutant: safe mode leaves the candidate open.
Protected_KeepsProposal(state) ==
    [state EXCEPT !.active = InitialRevision, !.safeMode = TRUE]

\* The compiled interface replaces whatever is shown.
Protected(state) ==
    [state EXCEPT !.active = InitialRevision, !.proposal = NoRevision, !.safeMode = TRUE]

safeModeEntered(state) ==
    Protected(Sequenced(state, "safe-mode-entered", state.lastKnownGood.id, NoExtension))

\* Mutant: one failure too late.
shouldRecover_TooLate(state, extension) == state.failureCounts[extension] + 1 > FailureLimit

shouldRecover(state, extension) == state.failureCounts[extension] + 1 >= FailureLimit

\* A failure that only counts.
extensionFailed(state, extension) ==
    [Sequenced(state, "extension-failed", NoId, extension)
       EXCEPT !.failureCounts[extension] = @ + 1]

\* The failure that disables the extension and asks for recovery.
recoveryRequested(state, extension) ==
    [Protected(Sequenced(state, "recovery-requested", state.lastKnownGood.id, extension))
       EXCEPT !.failureCounts[extension] = @ + 1,
              !.disabledExtensions = @ \union {extension}]

extensionSucceeded(state, extension) == [state EXCEPT !.failureCounts[extension] = 0]
==============================================================================
