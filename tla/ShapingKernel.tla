---------------------------- MODULE ShapingKernel ----------------------------
(***************************************************************************)
(* The ShapingKernel over an InterfaceRepository whose save replaces one   *)
(* journal record and whose recovery marker is a second record             *)
(* (src/lib/interface-repository.ts over window.localStorage).             *)
(*                                                                         *)
(* One action per kernel operation.  Every operation runs inside           *)
(* SubscriptionRef.modifyEffect and is therefore one step, except          *)
(* enterSafeMode, which writes the marker before it takes the lock.        *)
(* Extension runs call the kernel without the controller's command permit, *)
(* so their operations interleave with the two halves of enterSafeMode.    *)
(* The program may stop at any moment and start again from what is stored. *)
(***************************************************************************)
EXTENDS KernelTransitions

CONSTANTS
    RequestSources,  \* the sources a caller names for its documents
    MaxSequence,  \* bound: sequenced transitions before restart is all that is left
    MaxId,        \* bound: revision identifiers handed out by one start
    MaxFaults     \* bound: storage calls that fail

ASSUME RequestSourcesAssumption == RequestSources \subseteq {"user", "shaper"}
ASSUME BoundsAssumption == MaxSequence \in Nat /\ MaxId \in Nat /\ MaxFaults \in Nat

VARIABLES
    kernel,       \* the value of stateRef
    idSequence,   \* the last revision number handed out since the start
    journal,      \* flect.revisions.v1
    marker,       \* flect.recovery.v1 is "pending"
    entering,     \* how far enterSafeMode has come
    faults,       \* storage failures so far
    decided,      \* history: documents somebody decided to accept
    inDoubt,      \* history: an operation that failed changed one copy of the state only
    safeReported  \* history: safe mode was entered, reported, and not left since

vars == <<kernel, idSequence, journal, marker, entering, faults, decided, inDoubt, safeReported>>

storage == <<journal, marker>>
history == <<decided, inDoubt, safeReported>>

Entering == {"idle", "marked", "unmarked"}

TypeOK ==
    /\ kernel \in KernelStates
    /\ idSequence \in Nat
    /\ journal \in Snapshots
    /\ marker \in BOOLEAN
    /\ entering \in Entering
    /\ faults \in Nat
    /\ decided \subseteq Documents
    /\ inDoubt \in BOOLEAN
    /\ safeReported \in BOOLEAN

------------------------------------------------------------------------------
(* Storage *)

Count(failed) == IF failed THEN 1 ELSE 0

\* The storage calls that fail in a step are counted, and bounded.
Failures(n) == faults + n <= MaxFaults /\ faults' = faults + n

StorageFails == Failures(1)

\* save wrote the journal and, outside safe mode, clearRecovery removed the marker.
Saved(next) ==
    /\ kernel' = next
    /\ journal' = snapshotFromState(next)
    /\ marker' = (marker /\ next.safeMode)
    /\ inDoubt' = FALSE
    /\ UNCHANGED faults

\* save failed: nothing happened.
NotSaved == StorageFails /\ UNCHANGED <<kernel, storage, inDoubt>>

\* save wrote the journal and clearRecovery failed: the operation fails, its state is stored.
HalfSaved(next) ==
    /\ ~next.safeMode
    /\ StorageFails
    /\ journal' = snapshotFromState(next)
    /\ inDoubt' = TRUE
    /\ UNCHANGED <<kernel, marker>>

persist(next) == Saved(next) \/ NotSaved \/ HalfSaved(next)

\* Mutant: the journal is left alone, the marker alone stands for safe mode.
persistAnyway_MarkerOnly(next, saveFails) ==
    kernel' = next /\ inDoubt' = saveFails /\ UNCHANGED journal

\* The two recovery transitions show the protected interface whatever save does.
persistAnyway(next, saveFails) ==
    /\ kernel' = next
    /\ journal' = IF saveFails THEN journal ELSE snapshotFromState(next)
    /\ inDoubt' = saveFails

Loaded(recovered, snapshot) ==
    [snapshot |-> snapshot, recovered |-> recovered, recovery |-> marker]

load == IF journal # NoSnapshot /\ validateShapingSnapshot(journal)
        THEN Loaded(FALSE, journal)
        ELSE Loaded(journal # NoSnapshot, NoSnapshot)

unreadable == [snapshot |-> NoSnapshot, recovered |-> TRUE, recovery |-> FALSE]

------------------------------------------------------------------------------
Init ==
    /\ kernel = initialState([snapshot |-> NoSnapshot, recovered |-> FALSE, recovery |-> FALSE])
    /\ idSequence = 0
    /\ journal = NoSnapshot
    /\ marker = FALSE
    /\ entering = "idle"
    /\ faults = 0
    /\ decided = {}
    /\ inDoubt = FALSE
    /\ safeReported = FALSE

MayTransition == kernel.sequence < MaxSequence

nextId == idSequence + 1

TakeId == idSequence < MaxId /\ idSequence' = nextId

\* The operation fails before it computes a next state.
Refused == UNCHANGED <<kernel, storage, faults, inDoubt>>

\* propose(document, source); a refusal in safe mode has already taken an identifier.
propose(document, source) ==
    /\ MayTransition
    /\ kernel.proposal = NoRevision
    /\ TakeId
    /\ IF canPropose(kernel)
       THEN persist(proposed(kernel, nextId, document, source))
       ELSE Refused
    /\ UNCHANGED <<entering, decided, safeReported>>

\* applyLocalRevision(document, source); it always takes an identifier.
applyLocalRevision(document, source) ==
    /\ MayTransition
    /\ TakeId
    /\ IF canPropose(kernel)
       THEN /\ persist(applied(kernel, nextId, document, source))
            /\ decided' = decided \union {document}
       ELSE Refused /\ UNCHANGED decided
    /\ UNCHANGED <<entering, safeReported>>

\* applyExtensionIntents: document is what the intents make of the base document.
applyExtensionIntents(document, extension, binding) ==
    /\ MayTransition
    /\ canApplyExtensionIntents(kernel, binding)
    /\ TakeId
    /\ persist(extensionProposed(kernel, nextId, document, extension, binding))
    /\ UNCHANGED <<entering, decided, safeReported>>

preview ==
    /\ MayTransition
    /\ canPreview(kernel, kernel.proposal.id)
    /\ persist(previewed(kernel, kernel.proposal.id))
    /\ UNCHANGED <<idSequence, entering, decided, safeReported>>

supersede(document, source) ==
    /\ MayTransition
    /\ canSupersede(kernel, kernel.proposal.id)
    /\ TakeId
    /\ persist(superseded(kernel, nextId, document, source))
    /\ UNCHANGED <<entering, decided, safeReported>>

accept ==
    /\ MayTransition
    /\ canAccept(kernel, kernel.proposal.id)
    /\ persist(accepted(kernel))
    /\ decided' = decided \union {kernel.proposal.document}
    /\ UNCHANGED <<idSequence, entering, safeReported>>

reject ==
    /\ MayTransition
    /\ kernel.proposal # NoRevision
    /\ persist(rejected(kernel))
    /\ UNCHANGED <<idSequence, entering, decided, safeReported>>

rollback ==
    /\ MayTransition
    /\ canRollback(kernel)
    /\ persist(rolledBack(kernel))
    /\ UNCHANGED <<idSequence, entering, decided, safeReported>>

restoreLastKnownGood ==
    /\ MayTransition
    /\ canRestore(kernel)
    /\ persist(rolledBack(kernel))
    /\ safeReported' = (safeReported /\ journal' = journal)
    /\ UNCHANGED <<idSequence, entering, decided>>

\* enterSafeMode, first half: markRecovery, whose failure is remembered.
markRecovery ==
    /\ entering = "idle"
    /\ MayTransition
    /\ \/ marker' = TRUE /\ entering' = "marked" /\ UNCHANGED faults
       \/ StorageFails /\ entering' = "unmarked" /\ UNCHANGED marker
    /\ UNCHANGED <<kernel, idSequence, journal, history>>

\* enterSafeMode, second half: the transition, and the report of both writes.
enterSafeMode ==
    /\ entering # "idle"
    /\ \E saveFails \in BOOLEAN :
          /\ Failures(Count(saveFails))
          /\ persistAnyway(safeModeEntered(kernel), saveFails)
          /\ safeReported' = (safeReported \/ (entering = "marked" /\ ~saveFails))
    /\ entering' = "idle"
    /\ UNCHANGED <<idSequence, marker, decided>>

recordExtensionFailure(extension) ==
    /\ MayTransition
    /\ extension \notin kernel.disabledExtensions
    /\ ~shouldRecover(kernel, extension)
    /\ persist(extensionFailed(kernel, extension))
    /\ UNCHANGED <<idSequence, entering, decided, safeReported>>

\* The third failure in a row: marker and journal are written under the lock.
requestRecovery(extension) ==
    /\ MayTransition
    /\ extension \notin kernel.disabledExtensions
    /\ shouldRecover(kernel, extension)
    /\ \E markFails, saveFails \in BOOLEAN :
          /\ Failures(Count(markFails) + Count(saveFails))
          /\ marker' = (marker \/ ~markFails)
          /\ persistAnyway(recoveryRequested(kernel, extension), saveFails)
    /\ UNCHANGED <<idSequence, entering, decided, safeReported>>

\* A success ends the row of failures; it is saved, without an event.
recordExtensionSuccess(extension) ==
    /\ kernel.failureCounts[extension] > 0
    /\ persist(extensionSucceeded(kernel, extension))
    /\ UNCHANGED <<idSequence, entering, decided, safeReported>>

\* The program stops wherever it is and starts from the state given.
StartFrom(state) ==
    /\ kernel' = state
    /\ idSequence' = state.sequence
    /\ entering' = "idle"
    /\ UNCHANGED <<decided, safeReported>>

\* The stored state is read; a pending proposal is reconciled in memory, and
\* the repair of its journal is best-effort.
Restart ==
    LET state == initialState(load)
        reconciled == reconciledState(state)
    IN  /\ StartFrom(reconciled)
        /\ IF isPending(state)
           THEN \/ Saved(reconciled)
                \/ StorageFails /\ inDoubt' = TRUE /\ UNCHANGED storage
                \/ /\ StorageFails
                   /\ journal' = snapshotFromState(reconciled)
                   /\ inDoubt' = FALSE
                   /\ UNCHANGED marker
           ELSE inDoubt' = FALSE /\ UNCHANGED <<storage, faults>>

\* The storage cannot be read.
RestartUnreadable ==
    /\ StorageFails
    /\ StartFrom(initialState(unreadable))
    /\ inDoubt' = TRUE
    /\ UNCHANGED storage

Next ==
    \/ \E document \in Documents, source \in RequestSources :
          \/ propose(document, source)
          \/ applyLocalRevision(document, source)
          \/ supersede(document, source)
    \/ \E document \in Documents, extension \in Extensions, binding \in {"accepted", "candidate"} :
          applyExtensionIntents(document, extension, binding)
    \/ preview \/ accept \/ reject \/ rollback \/ restoreLastKnownGood
    \/ markRecovery \/ enterSafeMode
    \/ \E extension \in Extensions :
          \/ recordExtensionFailure(extension)
          \/ requestRecovery(extension)
          \/ recordExtensionSuccess(extension)
    \/ Restart \/ RestartUnreadable

Spec == Init /\ [][Next]_vars

------------------------------------------------------------------------------
(* Properties *)

\* A candidate exists only outside safe mode, is still undecided, and was made
\* for the interface that is shown: accepting it can never replace another one.
CandidateFollowsActive ==
    kernel.proposal # NoRevision =>
        /\ ~kernel.safeMode
        /\ isOpen(kernel.proposal)
        /\ kernel.proposal.parentId = kernel.active.id

\* In safe mode the compiled interface is shown and nothing can be accepted,
\* whichever of the five ways into safe mode was taken.
SafeModeIsProtected ==
    kernel.safeMode => kernel.active = InitialRevision /\ kernel.proposal = NoRevision

Held == {kernel.active, kernel.lastKnownGood, journal.active, journal.lastKnownGood}

\* Neither the running program nor the journal, at any point a crash could
\* expose, holds a document as shown or restorable that nobody decided on.
OnlyDecidedIsShown ==
    \A revision \in Held : revision.document \in decided \union {BuiltIn}

\* The validator refuses a journal the kernel wrote in two situations only: an
\* extension made the candidate (the event then names revision and extension),
\* or an extension failed in safe mode.
JournalLoadsUnlessExtensionEvent ==
    \/ journal = NoSnapshot
    \/ validateShapingSnapshot(journal)
    \/ /\ journal.lastEvent.type \in {"revision-proposed", "revision-previewed"}
       /\ journal.lastEvent.extensionId # NoExtension
    \/ journal.lastEvent.type = "extension-failed" /\ journal.safeMode

\* Once enterSafeMode has reported success, every later start is in safe mode
\* until a restore has been written.
ReportedSafeModeSurvives == safeReported => initialState(load).safeMode

\* When no failed operation left the two copies apart and the journal can be
\* read, a restart shows and can undo to exactly what the running program does.
RestartKeepsReportedState ==
    ~inDoubt /\ ~marker /\ validateShapingSnapshot(journal) =>
        LET restarted == reconciledState(initialState(load))
        IN  /\ restarted.active = kernel.active
            /\ restarted.lastKnownGood = kernel.lastKnownGood
            /\ restarted.proposal.id = kernel.proposal.id
            /\ restarted.safeMode = kernel.safeMode
            /\ restarted.disabledExtensions = kernel.disabledExtensions
==============================================================================
