------------------------- MODULE ShapingKernelProofs --------------------------
(***************************************************************************)
(* Type correctness and the six safety invariants of ShapingKernel, for    *)
(* any documents, extensions and bounds.  One inductive invariant carries  *)
(* the first four: the kernel's state is Sound (KernelTransitionsProofs),  *)
(* and what the kernel and the journal show was decided on.  The other     *)
(* three are about the journal a restart reads (RecoveryInv, below).       *)
(***************************************************************************)
EXTENDS ShapingKernel, KernelTransitionsProofs

TypesAside ==
    /\ idSequence \in Nat
    /\ journal \in Snapshots
    /\ marker \in BOOLEAN
    /\ entering \in Entering
    /\ faults \in Nat
    /\ decided \subseteq Documents
    /\ inDoubt \in BOOLEAN
    /\ safeReported \in BOOLEAN

Inv ==
    /\ Sound(kernel)
    /\ TypesAside
    /\ Shown(kernel) \subseteq decided \union {BuiltIn}
    /\ Shown(journal) \subseteq decided \union {BuiltIn}

------------------------------------------------------------------------------
\* What is stored of a state shows what the state shows.
LEMMA SnapshotShows ==
    ASSUME NEW state
    PROVE  Shown(snapshotFromState(state)) = Shown(state)
BY DEF Shown, snapshotFromState

\* A storage call that fails is counted.
LEMMA FailuresType ==
    ASSUME faults \in Nat, NEW n \in Nat, Failures(n)
    PROVE  faults' \in Nat
BY DEF Failures

\* Whatever persist does with a sound state that shows decided documents, the
\* invariant holds afterwards.
LEMMA PersistKeepsInv ==
    ASSUME Inv, NEW next, Sound(next), persist(next),
           Shown(next) \subseteq decided' \union {BuiltIn},
           decided \subseteq decided', decided' \subseteq Documents,
           idSequence' \in Nat, entering' \in Entering, safeReported' \in BOOLEAN
    PROVE  Inv'
<1> USE DEF Inv, TypesAside
<1>1. /\ snapshotFromState(next) \in Snapshots
      /\ Shown(snapshotFromState(next)) = Shown(next)
      /\ next.safeMode \in BOOLEAN
  BY SnapshotType, SnapshotShows DEF Sound, KernelStates
<1>2. CASE Saved(next)
  BY <1>1, <1>2 DEF Saved
<1>3. CASE NotSaved
  BY <1>3, FailuresType DEF NotSaved, StorageFails, storage
<1>4. CASE HalfSaved(next)
  BY <1>1, <1>4, FailuresType DEF HalfSaved, StorageFails
<1> QED
  BY <1>2, <1>3, <1>4 DEF persist

\* An operation that computes its next state from the present one, takes no
\* identifier, and has nobody decide anything.
LEMMA PlainKeepsInv ==
    ASSUME Inv, NEW next, Sound(next), Shown(next) \subseteq Shown(kernel) \union {BuiltIn},
           persist(next), UNCHANGED <<idSequence, entering, decided>>, safeReported' \in BOOLEAN
    PROVE  Inv'
<1>1. /\ Shown(next) \subseteq decided' \union {BuiltIn}
      /\ decided \subseteq decided' /\ decided' \subseteq Documents
      /\ idSequence' \in Nat /\ entering' \in Entering
  BY DEF Inv, TypesAside
<1> QED
  BY <1>1, PersistKeepsInv

\* The two recovery transitions show the protected state whatever was stored.
LEMMA PersistAnywayKeepsInv ==
    ASSUME Inv, NEW next, Sound(next), Shown(next) \subseteq Shown(kernel) \union {BuiltIn},
           NEW saveFails \in BOOLEAN, persistAnyway(next, saveFails),
           UNCHANGED <<idSequence, decided>>,
           marker' \in BOOLEAN, entering' \in Entering, faults' \in Nat, safeReported' \in BOOLEAN
    PROVE  Inv'
<1>1. /\ snapshotFromState(next) \in Snapshots
      /\ Shown(snapshotFromState(next)) = Shown(next)
  BY SnapshotType, SnapshotShows DEF Sound
<1> QED
  BY <1>1 DEF Inv, TypesAside, persistAnyway

\* A refusal leaves the state alone, but for the identifier it may have taken.
LEMMA RefusedKeepsInv ==
    ASSUME Inv, Refused, UNCHANGED <<entering, decided, safeReported>>, idSequence' \in Nat
    PROVE  Inv'
BY DEF Inv, TypesAside, Refused, storage

------------------------------------------------------------------------------
LEMMA InitInv == Init => Inv
<1> SUFFICES ASSUME Init PROVE Inv
  OBVIOUS
<1> DEFINE empty == [snapshot |-> NoSnapshot, recovered |-> FALSE, recovery |-> FALSE]
<1>1. /\ Sound(initialState(empty))
      /\ Shown(initialState(empty)) \subseteq Shown(NoSnapshot) \union {BuiltIn}
  <2>1. /\ empty.snapshot = NoSnapshot /\ empty.recovered = FALSE /\ empty.recovery = FALSE
    OBVIOUS
  <2> HIDE DEF empty
  <2> QED
    BY <2>1, ConstantTypes, InitialStateSound
<1>2. Shown(NoSnapshot) = {BuiltIn}
  BY DEF Shown, NoSnapshot, NoRevision
<1> QED
  BY <1>1, <1>2, ConstantTypes DEF Init, Inv, TypesAside, Entering
\* What the repository loads starts a sound state that shows decided documents.
LEMMA StartIsSound ==
    ASSUME Inv
    PROVE  /\ Sound(initialState(load))
           /\ Shown(initialState(load)) \subseteq decided \union {BuiltIn}
           /\ Sound(reconciledState(initialState(load)))
           /\ Shown(reconciledState(initialState(load))) \subseteq decided \union {BuiltIn}
<1>1. /\ load.snapshot = journal \/ load.snapshot = NoSnapshot
      /\ load.recovered \in BOOLEAN /\ load.recovery \in BOOLEAN
      /\ load.snapshot = NoSnapshot \/ ValidProposal(load.snapshot)
  BY DEF load, Loaded, Inv, TypesAside, validateShapingSnapshot
<1>2. load.snapshot \in Snapshots
  BY <1>1, ConstantTypes DEF Inv, TypesAside
<1>3. Shown(load.snapshot) \subseteq decided \union {BuiltIn}
  BY <1>1 DEF Inv, Shown, NoSnapshot, NoRevision
<1>4. /\ Sound(initialState(load))
      /\ Shown(initialState(load)) \subseteq Shown(load.snapshot) \union {BuiltIn}
  BY <1>1, <1>2, InitialStateSound
<1> QED
  BY <1>3, <1>4, ReconciledSound

\* The program starts again from a sound state.
LEMMA StartKeepsInv ==
    ASSUME Inv, NEW state, Sound(state), Shown(state) \subseteq decided \union {BuiltIn},
           StartFrom(state), marker' \in BOOLEAN, faults' \in Nat, inDoubt' \in BOOLEAN,
           journal' = journal \/ journal' = snapshotFromState(state)
    PROVE  Inv'
<1>1. snapshotFromState(state) \in Snapshots /\ Shown(snapshotFromState(state)) = Shown(state)
  BY SnapshotType, SnapshotShows DEF Sound
<1>2. state.sequence \in Nat /\ "idle" \in Entering
  BY DEF Sound, KernelStates, Entering
<1> QED
  BY <1>1, <1>2 DEF Inv, TypesAside, StartFrom

LEMMA NextInv == Inv /\ [Next]_vars => Inv'
<1> SUFFICES ASSUME Inv, [Next]_vars PROVE Inv'
  OBVIOUS
<1>t. /\ Sound(kernel) /\ idSequence \in Nat /\ nextId \in Nat
      /\ marker \in BOOLEAN /\ faults \in Nat /\ safeReported \in BOOLEAN /\ inDoubt \in BOOLEAN
      /\ decided \subseteq Documents /\ entering \in Entering
      /\ Shown(kernel) \subseteq decided \union {BuiltIn}
  BY DEF Inv, TypesAside, nextId
<1>s. \A source \in RequestSources : source \in Sources
  BY RequestSourcesAssumption DEF Sources
<1>1. ASSUME NEW document \in Documents, NEW source \in RequestSources, propose(document, source)
      PROVE  Inv'
  <2>1. idSequence' \in Nat /\ decided' = decided
    BY <1>1, <1>t DEF propose, TakeId
  <2>2. CASE canPropose(kernel)
    <3>1. LET next == proposed(kernel, nextId, document, source)
          IN  Sound(next) /\ Shown(next) = Shown(kernel)
      BY <1>t, <1>s, <2>2, ProposedSound
    <3> QED
      BY <1>1, <1>t, <2>1, <2>2, <3>1, PersistKeepsInv DEF propose
  <2>3. CASE ~canPropose(kernel)
    BY <1>1, <2>1, <2>3, RefusedKeepsInv DEF propose
  <2> QED
    BY <2>2, <2>3
<1>2. ASSUME NEW document \in Documents, NEW source \in RequestSources,
             applyLocalRevision(document, source)
      PROVE  Inv'
  <2>1. idSequence' \in Nat
    BY <1>2, <1>t DEF applyLocalRevision, TakeId
  <2>2. CASE canPropose(kernel)
    <3> DEFINE next == applied(kernel, nextId, document, source)
    <3>1. Sound(next) /\ Shown(next) = {document, kernel.active.document}
      BY <1>t, <1>s, AppliedSound
    <3>2. /\ persist(next) /\ decided' = decided \union {document}
          /\ UNCHANGED <<entering, safeReported>>
      BY <1>2, <2>2 DEF applyLocalRevision
    <3> HIDE DEF next
    <3>3. Shown(next) \subseteq decided' \union {BuiltIn}
      BY <1>t, <3>1, <3>2 DEF Shown
    <3> QED
      BY <1>t, <2>1, <3>1, <3>2, <3>3, PersistKeepsInv
  <2>3. CASE ~canPropose(kernel)
    BY <1>2, <2>1, <2>3, RefusedKeepsInv DEF applyLocalRevision
  <2> QED
    BY <2>2, <2>3
<1>3. ASSUME NEW document \in Documents, NEW source \in RequestSources, supersede(document, source)
      PROVE  Inv'
  <2> DEFINE next == superseded(kernel, nextId, document, source)
  <2>1. Sound(next) /\ Shown(next) = Shown(kernel)
    BY <1>3, <1>t, <1>s, SupersededSound DEF supersede
  <2>2. /\ persist(next) /\ UNCHANGED <<entering, decided, safeReported>>
        /\ idSequence' \in Nat
    BY <1>3, <1>t DEF supersede, TakeId
  <2> HIDE DEF next
  <2> QED
    BY <1>t, <2>1, <2>2, PersistKeepsInv
<1>4. ASSUME NEW document \in Documents, NEW extension \in Extensions,
             NEW binding \in {"accepted", "candidate"},
             applyExtensionIntents(document, extension, binding)
      PROVE  Inv'
  <2> DEFINE next == extensionProposed(kernel, nextId, document, extension, binding)
  <2>1. Sound(next) /\ Shown(next) = Shown(kernel)
    BY <1>4, <1>t, ExtensionProposedSound DEF applyExtensionIntents
  <2>2. /\ persist(next) /\ UNCHANGED <<entering, decided, safeReported>>
        /\ idSequence' \in Nat
    BY <1>4, <1>t DEF applyExtensionIntents, TakeId
  <2> HIDE DEF next
  <2> QED
    BY <1>t, <2>1, <2>2, PersistKeepsInv
<1>5. CASE preview
  BY <1>5, <1>t, PreviewedSound, PlainKeepsInv DEF preview
<1>6. CASE accept
  <2> DEFINE next == accepted(kernel)
  <2>1. Sound(next) /\ Shown(next) = {kernel.proposal.document, kernel.active.document}
    BY <1>t, AcceptedSound
  <2>2. /\ persist(next) /\ decided' = decided \union {kernel.proposal.document}
        /\ UNCHANGED <<idSequence, entering, safeReported>>
    BY <1>6 DEF accept
  <2>3. kernel.proposal.document \in Documents
    BY <1>t DEF Sound, KernelStates, Revisions
  <2> HIDE DEF next
  <2>4. Shown(next) \subseteq decided' \union {BuiltIn}
    BY <1>t, <2>1, <2>2 DEF Shown
  <2> QED
    BY <1>t, <2>1, <2>2, <2>3, <2>4, PersistKeepsInv
<1>7. CASE reject
  BY <1>7, <1>t, RejectedSound, PlainKeepsInv DEF reject
<1>8. Sound(rolledBack(kernel)) /\ Shown(rolledBack(kernel)) \subseteq Shown(kernel)
  BY <1>t, RolledBackSound DEF Shown
<1>9. CASE rollback
  BY <1>9, <1>t, <1>8, PlainKeepsInv DEF rollback
<1>10. CASE restoreLastKnownGood
  <2>1. safeReported' \in BOOLEAN
    BY <1>10, <1>t DEF restoreLastKnownGood
  <2> QED
    BY <1>10, <1>8, <2>1, PlainKeepsInv DEF restoreLastKnownGood
<1>11. CASE markRecovery
  <2>1. faults' \in Nat
    BY <1>11, <1>t, FailuresType DEF markRecovery, StorageFails
  <2> QED
    BY <1>11, <2>1 DEF markRecovery, Inv, TypesAside, Entering, history
<1>12. CASE enterSafeMode
  <2> DEFINE next == safeModeEntered(kernel)
  <2>1. Sound(next) /\ Shown(next) \subseteq Shown(kernel) \union {BuiltIn}
    BY <1>t, SafeModeEnteredSound DEF Shown
  <2>2. PICK saveFails \in BOOLEAN :
          /\ Failures(Count(saveFails))
          /\ persistAnyway(next, saveFails)
          /\ safeReported' = (safeReported \/ (entering = "marked" /\ ~saveFails))
    BY <1>12 DEF enterSafeMode
  <2>3. faults' \in Nat /\ safeReported' \in BOOLEAN
    BY <1>t, <2>2, FailuresType DEF Count
  <2>4. UNCHANGED <<idSequence, marker, decided>> /\ entering' \in Entering
    BY <1>12 DEF enterSafeMode, Entering
  <2> HIDE DEF next
  <2> QED
    BY <1>t, <2>1, <2>2, <2>3, <2>4, PersistAnywayKeepsInv
<1>13. ASSUME NEW extension \in Extensions, recordExtensionFailure(extension)
       PROVE  Inv'
  BY <1>13, <1>t, ExtensionFailedSound, PlainKeepsInv DEF recordExtensionFailure
<1>14. ASSUME NEW extension \in Extensions, requestRecovery(extension)
       PROVE  Inv'
  <2> DEFINE next == recoveryRequested(kernel, extension)
  <2>1. Sound(next) /\ Shown(next) \subseteq Shown(kernel) \union {BuiltIn}
    <3>1. extension \notin kernel.disabledExtensions
      BY <1>14 DEF requestRecovery
    <3>2. Sound(next) /\ Shown(next) = {BuiltIn, kernel.lastKnownGood.document}
      BY <1>t, <3>1, RecoveryRequestedSound
    <3>3. kernel.lastKnownGood.document \in Shown(kernel)
      BY DEF Shown
    <3> HIDE DEF next
    <3> QED
      BY <3>2, <3>3
  <2>2. PICK markFails \in BOOLEAN, saveFails \in BOOLEAN :
          /\ Failures(Count(markFails) + Count(saveFails))
          /\ marker' = (marker \/ ~markFails)
          /\ persistAnyway(next, saveFails)
    BY <1>14 DEF requestRecovery
  <2>3. faults' \in Nat /\ marker' \in BOOLEAN
    BY <1>t, <2>2, FailuresType DEF Count
  <2>4. UNCHANGED <<idSequence, entering, decided, safeReported>>
    BY <1>14 DEF requestRecovery
  <2> HIDE DEF next
  <2> QED
    BY <1>t, <2>1, <2>2, <2>3, <2>4, PersistAnywayKeepsInv
<1>15. ASSUME NEW extension \in Extensions, recordExtensionSuccess(extension)
       PROVE  Inv'
  BY <1>15, <1>t, ExtensionSucceededSound, PlainKeepsInv DEF recordExtensionSuccess
<1>16. CASE Restart
  <2> DEFINE state == initialState(load)
             reconciled == reconciledState(state)
  <2>1. Sound(reconciled) /\ Shown(reconciled) \subseteq decided \union {BuiltIn}
    BY StartIsSound
  <2>2. StartFrom(reconciled)
    BY <1>16 DEF Restart
  <2>3. reconciled.safeMode \in BOOLEAN
    BY <2>1 DEF Sound, KernelStates
  <2> HIDE DEF reconciled
  <2>4. /\ marker' \in BOOLEAN /\ faults' \in Nat /\ inDoubt' \in BOOLEAN
        /\ journal' = journal \/ journal' = snapshotFromState(reconciled)
    BY <1>16, <1>t, <2>3, FailuresType DEF Restart, Saved, StorageFails, storage, reconciled
  <2> QED
    BY <2>1, <2>2, <2>4, StartKeepsInv
<1>17. CASE RestartUnreadable
  <2> DEFINE state == initialState(unreadable)
  <2>1. /\ unreadable.snapshot = NoSnapshot
        /\ unreadable.recovered \in BOOLEAN /\ unreadable.recovery \in BOOLEAN
    BY DEF unreadable
  <2>2. Sound(state) /\ Shown(state) \subseteq decided \union {BuiltIn}
    <3>1. Sound(state) /\ Shown(state) \subseteq Shown(NoSnapshot) \union {BuiltIn}
      BY <2>1, ConstantTypes, InitialStateSound
    <3>2. Shown(NoSnapshot) = {BuiltIn}
      BY DEF Shown, NoSnapshot, NoRevision
    <3> HIDE DEF state
    <3> QED
      BY <3>1, <3>2
  <2> HIDE DEF state
  <2>3. /\ StartFrom(state) /\ journal' = journal /\ marker' = marker
        /\ inDoubt' = TRUE /\ faults' \in Nat
    BY <1>17, <1>t, FailuresType DEF RestartUnreadable, StorageFails, storage, state
  <2> QED
    BY <1>t, <2>2, <2>3, StartKeepsInv
<1>18. CASE UNCHANGED vars
  BY <1>18 DEF vars, Inv, TypesAside
<1> QED
  BY <1>1, <1>2, <1>3, <1>4, <1>5, <1>6, <1>7, <1>9, <1>10, <1>11, <1>12, <1>13, <1>14, <1>15,
     <1>16, <1>17, <1>18 DEF Next

LEMMA InvImplies == Inv => TypeOK /\ CandidateFollowsActive /\ SafeModeIsProtected /\ OnlyDecidedIsShown
BY DEF Inv, TypesAside, Sound, CandidateIsSound, SafeModeIsSound, Shown, TypeOK,
   CandidateFollowsActive, SafeModeIsProtected, OnlyDecidedIsShown, Held

------------------------------------------------------------------------------
\* The inductive invariant holds in every behaviour.
THEOREM Invariance == Spec => []Inv
<1>1. Init => Inv
  BY InitInv
<1>2. Inv /\ [Next]_vars => Inv'
  BY NextInv
<1> QED
  BY <1>1, <1>2, PTL DEF Spec

\* Every variable of the kernel, its journal and its marker keeps its type: the
\* counters of consecutive failures never leave their range, whichever
\* operations, failures of storage and restarts come in between.
THEOREM TypeCorrectness == Spec => []TypeOK
<1>1. Inv => TypeOK
  BY InvImplies
<1> QED
  BY <1>1, Invariance, PTL

\* A candidate (shaping-kernel.ts, propose to supersede) always belongs to the
\* interface that is shown, and never coexists with safe mode.
THEOREM CandidateSafety == Spec => []CandidateFollowsActive
<1>1. Inv => CandidateFollowsActive
  BY InvImplies
<1> QED
  BY <1>1, Invariance, PTL

\* Every way into safe mode (the command, the third failure, the marker, the
\* unreadable journal, the stored flag) shows the compiled interface.
THEOREM SafeModeSafety == Spec => []SafeModeIsProtected
<1>1. Inv => SafeModeIsProtected
  BY InvImplies
<1> QED
  BY <1>1, Invariance, PTL

\* What is shown, restorable or stored as such was accepted by somebody, at
\* every point at which the program could stop.
THEOREM DecisionSafety == Spec => []OnlyDecidedIsShown
<1>1. Inv => OnlyDecidedIsShown
  BY InvImplies
<1> QED
  BY <1>1, Invariance, PTL

------------------------------------------------------------------------------
(***************************************************************************)
(* What a restart finds.  A second inductive invariant, carried by the     *)
(* first: the journal and what would be stored next can be read back, a    *)
(* reported safe mode is in both, and a journal in no doubt would start    *)
(* the state the program has.                                              *)
(***************************************************************************)
\* A start in safe mode keeps the event it has read, which need not match; but since then no
\* failure was counted, and only an extension's success is stored under an old event.
Journaled ==
    /\ Storable(kernel)
    /\ (\E e \in Extensions : kernel.failureCounts[e] # 0) => Loadable(snapshotFromState(kernel))
    /\ journal = NoSnapshot \/ (Storable(journal) /\ Loadable(journal))

\* Both copies know of the safe mode that was reported.
ReportedSafe == safeReported => kernel.safeMode /\ journal.safeMode

\* The journal, when it speaks for the program, would start what the program has.
Remembers(snapshot, state) ==
    LET started == initialState([snapshot |-> snapshot, recovered |-> FALSE, recovery |-> FALSE])
    IN  /\ started.active = state.active /\ started.lastKnownGood = state.lastKnownGood
        /\ started.proposal = state.proposal /\ started.safeMode = state.safeMode
        /\ started.disabledExtensions = state.disabledExtensions

JournalRemembers ==
    ~inDoubt /\ ~marker /\ validateShapingSnapshot(journal) => Remembers(journal, kernel)

RecoveryInv == Journaled /\ ReportedSafe /\ JournalRemembers

\* A snapshot that is valid starts the state it was taken of.
LEMMA SnapshotRemembers ==
    ASSUME NEW state, Sound(state), validateShapingSnapshot(snapshotFromState(state))
    PROVE  Remembers(snapshotFromState(state), state)
<1> DEFINE snapshot == snapshotFromState(state)
<1>1. /\ snapshot.active = state.active /\ snapshot.lastKnownGood = state.lastKnownGood
      /\ snapshot.proposal = state.proposal /\ snapshot.safeMode = state.safeMode
      /\ snapshot.disabledExtensions = state.disabledExtensions
  BY DEF snapshotFromState
<1>2. snapshot # NoSnapshot
  BY <1>1 DEF validateShapingSnapshot, ValidDecided, NoSnapshot, NoRevision
<1>3. state.safeMode => state.active = InitialRevision /\ state.proposal = NoRevision
  BY DEF Sound, SafeModeIsSound
<1>4. state.safeMode \in BOOLEAN
  BY DEF Sound, KernelStates
<1> HIDE DEF snapshot
<1>5. LET started == initialState([snapshot |-> snapshot, recovered |-> FALSE, recovery |-> FALSE])
      IN  /\ started.active = IF snapshot.safeMode THEN InitialRevision ELSE snapshot.active
          /\ started.lastKnownGood = snapshot.lastKnownGood
          /\ started.proposal = IF snapshot.safeMode THEN NoRevision ELSE snapshot.proposal
          /\ started.safeMode = (snapshot.safeMode \/ FALSE)
          /\ started.disabledExtensions = snapshot.disabledExtensions
  BY <1>2 DEF initialState
<1> QED
  BY <1>1, <1>3, <1>4, <1>5 DEF Remembers, snapshot

\* What is stored of a state can be stored when the state can.
LEMMA SnapshotStorable ==
    ASSUME NEW state
    PROVE  Storable(snapshotFromState(state)) <=> Storable(state)
  BY DEF Storable, snapshotFromState

\* Whatever persist does with a state that can be stored; what it leaves of a reported safe
\* mode is the caller's to say.
LEMMA PersistKeepsRecovery ==
    ASSUME Inv, RecoveryInv, NEW next, Sound(next), Writes(next), persist(next),
           safeReported' => safeReported /\ (next.safeMode \/ journal' = journal)
    PROVE  RecoveryInv'
<1> DEFINE snapshot == snapshotFromState(next)
<1>1. /\ Storable(next) /\ Loadable(snapshot) /\ Storable(snapshot)
      /\ snapshot.safeMode = next.safeMode
      /\ validateShapingSnapshot(snapshot) => Remembers(snapshot, next)
  BY SnapshotRemembers, SnapshotStorable DEF Writes, snapshotFromState
<1> HIDE DEF snapshot
<1>2. CASE Saved(next)
  <2>1. kernel' = next /\ journal' = snapshot
    BY <1>2 DEF Saved, snapshot
  <2> QED
    BY <1>1, <2>1 DEF RecoveryInv, Journaled, ReportedSafe, JournalRemembers, snapshot
<1>3. CASE NotSaved
  BY <1>3 DEF NotSaved, storage, RecoveryInv, Journaled, ReportedSafe, JournalRemembers
<1>4. CASE HalfSaved(next)
  <2>1. /\ kernel' = kernel /\ journal' = snapshot /\ ~next.safeMode /\ inDoubt' = TRUE
    BY <1>4 DEF HalfSaved, snapshot
  <2>2. ~safeReported'
    BY <1>1, <2>1 DEF RecoveryInv, ReportedSafe
  <2> QED
    BY <1>1, <2>1, <2>2 DEF RecoveryInv, Journaled, ReportedSafe, JournalRemembers
<1> QED
  BY <1>2, <1>3, <1>4 DEF persist

\* The two recovery transitions.
LEMMA PersistAnywayKeepsRecovery ==
    ASSUME Inv, RecoveryInv, NEW next, Sound(next), Writes(next), next.safeMode,
           NEW saveFails \in BOOLEAN, persistAnyway(next, saveFails),
           safeReported' => safeReported \/ ~saveFails
    PROVE  RecoveryInv'
<1> DEFINE snapshot == snapshotFromState(next)
<1>1. /\ Storable(next) /\ Loadable(snapshot) /\ Storable(snapshot)
      /\ snapshot.safeMode = next.safeMode
      /\ validateShapingSnapshot(snapshot) => Remembers(snapshot, next)
  BY SnapshotRemembers, SnapshotStorable DEF Writes, snapshotFromState
<1>2. kernel' = next /\ journal' = (IF saveFails THEN journal ELSE snapshot) /\ inDoubt' = saveFails
  BY DEF persistAnyway
<1>3. snapshotFromState(kernel') = snapshot
  BY <1>2
<1> HIDE DEF snapshot
<1>4. Journaled'
  BY <1>1, <1>2, <1>3 DEF RecoveryInv, Journaled
<1>5. ReportedSafe'
  BY <1>1, <1>2 DEF RecoveryInv, ReportedSafe
<1>6. JournalRemembers'
  BY <1>1, <1>2 DEF JournalRemembers
<1> QED
  BY <1>4, <1>5, <1>6 DEF RecoveryInv

\* A step that leaves kernel and journal alone, and the marker or the doubt too.
LEMMA QuietKeepsRecovery ==
    ASSUME RecoveryInv, UNCHANGED <<kernel, journal, inDoubt, safeReported>>, marker => marker'
    PROVE  RecoveryInv'
  BY DEF RecoveryInv, Journaled, ReportedSafe, JournalRemembers

\* What the repository loads.
LEMMA LoadIs ==
    ASSUME Inv, RecoveryInv
    PROVE  /\ load.snapshot = NoSnapshot \/ (load.snapshot = journal /\ Storable(journal))
           /\ load.recovery = marker
           /\ journal.safeMode => load.recovered \/ load.snapshot = journal
           /\ validateShapingSnapshot(journal) => load.snapshot = journal /\ load.recovered = FALSE
           /\ load.snapshot \in Snapshots /\ load.recovered \in BOOLEAN /\ load.recovery \in BOOLEAN
<1>1. validateShapingSnapshot(journal) => journal # NoSnapshot
  BY DEF validateShapingSnapshot, ValidDecided, NoSnapshot, NoRevision
<1>2. journal.safeMode => journal # NoSnapshot
  BY DEF NoSnapshot
<1> QED
  BY <1>1, <1>2, ConstantTypes DEF load, Loaded, RecoveryInv, Journaled, Inv, TypesAside

\* A start has counted no failure, and what it starts from can be stored.
LEMMA StartStorable ==
    ASSUME NEW from, from.snapshot = NoSnapshot \/ Storable(from.snapshot)
    PROVE  /\ Storable(initialState(from))
           /\ initialState(from).failureCounts = NoFailures
<1>1. ValidDecided(InitialRevision) /\ InitialRevision.id # NoId
  BY DEF ValidDecided, InitialRevision, isInitialRevision, BuiltInId, NoId
<1>2. CASE from.snapshot = NoSnapshot
  BY <1>1, <1>2 DEF initialState, Storable
<1>3. CASE from.snapshot # NoSnapshot
  <2> DEFINE s == initialState(from)
             safe == from.snapshot.safeMode \/ (from.recovered \/ from.recovery)
  <2>1. /\ s.active = IF safe THEN InitialRevision ELSE from.snapshot.active
        /\ s.lastKnownGood = from.snapshot.lastKnownGood
        /\ s.proposal = IF safe THEN NoRevision ELSE from.snapshot.proposal
        /\ s.failureCounts = NoFailures
    BY <1>3 DEF initialState
  <2> HIDE DEF s, safe
  <2> QED
    BY <1>1, <1>3, <2>1 DEF Storable, s
<1> QED
  BY <1>2, <1>3

LEMMA RestartKeepsRecovery == ASSUME Inv, RecoveryInv, Restart PROVE RecoveryInv'
<1> DEFINE state == initialState(load)
           reconciled == reconciledState(state)
<1>1. Sound(state) /\ Sound(reconciled)
  BY StartIsSound
<1>2. Storable(state) /\ state.failureCounts = NoFailures
  BY LoadIs, StartStorable
<1>3. kernel' = reconciled /\ UNCHANGED safeReported
  BY DEF Restart, StartFrom
<1>4. journal.safeMode => state.safeMode
  <2>1. journal.safeMode => journal # NoSnapshot
    BY DEF NoSnapshot
  <2> QED
    BY <2>1, LoadIs DEF initialState
<1>5. ~marker /\ validateShapingSnapshot(journal) => Remembers(journal, state)
  <2> SUFFICES ASSUME ~marker, validateShapingSnapshot(journal) PROVE Remembers(journal, state)
    OBVIOUS
  <2>1. load = [snapshot |-> journal, recovered |-> FALSE, recovery |-> FALSE]
    <3>1. journal # NoSnapshot
      BY DEF validateShapingSnapshot, ValidDecided, NoSnapshot, NoRevision
    <3> QED
      BY <3>1 DEF load, Loaded, Inv, TypesAside
  <2> QED
    BY <2>1 DEF Remembers
<1>6. CASE isPending(state)
  <2>1. canPreview(state, state.proposal.id) /\ reconciled = previewed(state, state.proposal.id)
    BY <1>6 DEF isPending, canPreview, isProposal, reconciledState, previewed
  <2>2. Writes(reconciled)
    BY <1>1, <1>2, <2>1, PreviewedWrites
  <2>3. ~state.safeMode /\ ~safeReported
    BY <1>1, <1>4, <1>6 DEF Sound, CandidateIsSound, isPending, RecoveryInv, ReportedSafe
  <2>4. \/ journal' = journal /\ inDoubt'
        \/ journal' = snapshotFromState(reconciled)
    BY <1>6 DEF Restart, Saved, storage
  <2>5. /\ Storable(snapshotFromState(reconciled)) /\ Loadable(snapshotFromState(reconciled))
        /\ Storable(reconciled)
        /\ validateShapingSnapshot(snapshotFromState(reconciled)) =>
              Remembers(snapshotFromState(reconciled), reconciled)
    BY <1>1, <2>2, SnapshotStorable, SnapshotRemembers DEF Writes
  <2> HIDE DEF reconciled
  <2>6. Journaled'
    BY <1>3, <2>4, <2>5 DEF RecoveryInv, Journaled
  <2>7. JournalRemembers'
    BY <1>3, <2>4, <2>5 DEF JournalRemembers
  <2> QED
    BY <1>3, <2>3, <2>6, <2>7 DEF RecoveryInv, ReportedSafe
<1>7. CASE ~isPending(state)
  <2>1. reconciled = state /\ journal' = journal /\ marker' = marker
    BY <1>7 DEF Restart, reconciledState, storage
  <2> HIDE DEF state, reconciled
  <2>2. \A e \in Extensions : kernel'.failureCounts[e] = 0
    BY <1>2, <1>3, <2>1 DEF NoFailures
  <2>3. Journaled'
    BY <1>2, <1>3, <2>1, <2>2 DEF RecoveryInv, Journaled
  <2>4. ReportedSafe'
    BY <1>3, <1>4, <2>1 DEF RecoveryInv, ReportedSafe
  <2>5. JournalRemembers'
    BY <1>3, <1>5, <2>1 DEF JournalRemembers
  <2> QED
    BY <2>3, <2>4, <2>5 DEF RecoveryInv
<1> QED
  BY <1>6, <1>7

LEMMA UnreadableKeepsRecovery == ASSUME Inv, RecoveryInv, RestartUnreadable PROVE RecoveryInv'
<1> DEFINE state == initialState(unreadable)
<1>1. Storable(state) /\ state.failureCounts = NoFailures
  BY StartStorable DEF unreadable
<1>2. state.safeMode
  BY DEF initialState, unreadable
<1> HIDE DEF state
<1>3. kernel' = state /\ inDoubt' /\ UNCHANGED <<journal, safeReported>>
  BY DEF RestartUnreadable, StartFrom, storage, state
<1>4. \A e \in Extensions : kernel'.failureCounts[e] = 0
  BY <1>1, <1>3 DEF NoFailures
<1> QED
  BY <1>1, <1>2, <1>3, <1>4 DEF RecoveryInv, Journaled, ReportedSafe, JournalRemembers

\* A success is stored under the event of the failures before it.
LEMMA SuccessWrites ==
    ASSUME Inv, RecoveryInv, NEW extension \in Extensions, kernel.failureCounts[extension] > 0
    PROVE  Writes(extensionSucceeded(kernel, extension))
<1> DEFINE next == extensionSucceeded(kernel, extension)
<1>1. Storable(kernel) /\ Loadable(snapshotFromState(kernel))
  BY DEF RecoveryInv, Journaled, Inv, Sound, KernelStates
<1>2. /\ next.active = kernel.active /\ next.lastKnownGood = kernel.lastKnownGood
      /\ next.proposal = kernel.proposal /\ next.safeMode = kernel.safeMode
      /\ next.disabledExtensions = kernel.disabledExtensions /\ next.lastEvent = kernel.lastEvent
  BY DEF extensionSucceeded, Inv, Sound, KernelStates
<1> HIDE DEF next
<1>3. snapshotFromState(next) = snapshotFromState(kernel)
  BY <1>2 DEF snapshotFromState
<1> QED
  BY <1>1, <1>2, <1>3 DEF Writes, Storable, next

LEMMA NextRecovery == Inv /\ RecoveryInv /\ [Next]_vars => RecoveryInv'
<1> SUFFICES ASSUME Inv, RecoveryInv, [Next]_vars PROVE RecoveryInv'
  OBVIOUS
<1>k. /\ Sound(kernel) /\ Storable(kernel) /\ nextId \in Nat
      /\ safeReported => kernel.safeMode /\ kernel.proposal = NoRevision
  BY DEF Inv, TypesAside, RecoveryInv, Journaled, ReportedSafe, nextId, Sound, SafeModeIsSound
<1>s. \A source \in RequestSources : source \in {"user", "shaper"} /\ source \in Sources
  BY RequestSourcesAssumption DEF Sources
<1>r. ASSUME Refused, UNCHANGED safeReported PROVE RecoveryInv'
  BY <1>r, QuietKeepsRecovery DEF Refused, storage
<1>1. ASSUME NEW document \in Documents, NEW source \in RequestSources, propose(document, source)
      PROVE  RecoveryInv'
  <2>1. CASE canPropose(kernel)
    <3> DEFINE next == proposed(kernel, nextId, document, source)
    <3>1. Sound(next) /\ Writes(next)
      BY <1>k, <1>s, <2>1, ProposedSound, ProposedWrites
    <3>2. persist(next) /\ safeReported' = safeReported /\ ~safeReported
      BY <1>1, <1>k, <2>1 DEF propose, canPropose
    <3> HIDE DEF next
    <3> QED
      BY <3>1, <3>2, PersistKeepsRecovery
  <2>2. CASE ~canPropose(kernel)
    BY <1>1, <1>r, <2>2 DEF propose
  <2> QED
    BY <2>1, <2>2
<1>2. ASSUME NEW document \in Documents, NEW source \in RequestSources,
             applyLocalRevision(document, source)
      PROVE  RecoveryInv'
  <2>1. CASE canPropose(kernel)
    <3> DEFINE next == applied(kernel, nextId, document, source)
    <3>1. Sound(next) /\ Writes(next)
      BY <1>k, <1>s, <2>1, AppliedSound, AppliedWrites
    <3>2. persist(next) /\ safeReported' = safeReported /\ ~safeReported
      BY <1>2, <1>k, <2>1 DEF applyLocalRevision, canPropose
    <3> HIDE DEF next
    <3> QED
      BY <3>1, <3>2, PersistKeepsRecovery
  <2>2. CASE ~canPropose(kernel)
    BY <1>2, <1>r, <2>2 DEF applyLocalRevision
  <2> QED
    BY <2>1, <2>2
<1>3. ASSUME NEW document \in Documents, NEW source \in RequestSources, supersede(document, source)
      PROVE  RecoveryInv'
  <2> DEFINE next == superseded(kernel, nextId, document, source)
  <2>1. Sound(next) /\ Writes(next)
    BY <1>3, <1>k, <1>s, SupersededSound, SupersededWrites DEF supersede
  <2>2. persist(next) /\ safeReported' = safeReported /\ ~safeReported
    BY <1>3, <1>k DEF supersede, canSupersede
  <2> HIDE DEF next
  <2> QED
    BY <2>1, <2>2, PersistKeepsRecovery
<1>4. ASSUME NEW document \in Documents, NEW extension \in Extensions,
             NEW binding \in {"accepted", "candidate"},
             applyExtensionIntents(document, extension, binding)
      PROVE  RecoveryInv'
  <2> DEFINE next == extensionProposed(kernel, nextId, document, extension, binding)
  <2>1. Sound(next) /\ Writes(next)
    BY <1>4, <1>k, ExtensionProposedSound, ExtensionProposedWrites DEF applyExtensionIntents
  <2>2. persist(next) /\ safeReported' = safeReported /\ ~safeReported
    BY <1>4, <1>k DEF applyExtensionIntents, canApplyExtensionIntents
  <2> HIDE DEF next
  <2> QED
    BY <2>1, <2>2, PersistKeepsRecovery
<1>5. CASE preview
  <2> DEFINE next == previewed(kernel, kernel.proposal.id)
  <2>1. Sound(next) /\ Writes(next)
    BY <1>5, <1>k, PreviewedSound, PreviewedWrites DEF preview
  <2>2. persist(next) /\ safeReported' = safeReported /\ ~safeReported
    BY <1>5, <1>k DEF preview, canPreview, isProposal
  <2> HIDE DEF next
  <2> QED
    BY <2>1, <2>2, PersistKeepsRecovery
<1>6. CASE accept
  <2> DEFINE next == accepted(kernel)
  <2>1. Sound(next) /\ Writes(next)
    BY <1>6, <1>k, AcceptedSound, AcceptedWrites DEF accept
  <2>2. persist(next) /\ safeReported' = safeReported /\ ~safeReported
    BY <1>6, <1>k DEF accept, canAccept, isProposal
  <2> HIDE DEF next
  <2> QED
    BY <2>1, <2>2, PersistKeepsRecovery
<1>7. CASE reject
  <2> DEFINE next == rejected(kernel)
  <2>1. Sound(next) /\ Writes(next)
    BY <1>7, <1>k, RejectedSound, RejectedWrites DEF reject
  <2>2. persist(next) /\ safeReported' = safeReported /\ ~safeReported
    BY <1>7, <1>k DEF reject
  <2> HIDE DEF next
  <2> QED
    BY <2>1, <2>2, PersistKeepsRecovery
<1>8. CASE rollback \/ restoreLastKnownGood
  <2> DEFINE next == rolledBack(kernel)
  <2>1. Sound(next) /\ Writes(next)
    BY <1>k, RolledBackSound, RolledBackWrites
  <2>2. persist(next)
    BY <1>8 DEF rollback, restoreLastKnownGood
  <2>3. safeReported' => safeReported /\ journal' = journal
    <3>1. CASE rollback
      BY <1>k, <3>1 DEF rollback, canRollback, isRollbackAvailable, snapshotFromState
    <3>2. CASE restoreLastKnownGood
      BY <3>2 DEF restoreLastKnownGood
    <3> QED
      BY <1>8, <3>1, <3>2
  <2> HIDE DEF next
  <2> QED
    BY <2>1, <2>2, <2>3, PersistKeepsRecovery
<1>9. CASE markRecovery
  <2>1. UNCHANGED <<kernel, journal, inDoubt, safeReported>> /\ (marker => marker')
    BY <1>9 DEF markRecovery, history
  <2> QED
    BY <2>1, QuietKeepsRecovery
<1>10. CASE enterSafeMode
  <2> DEFINE next == safeModeEntered(kernel)
  <2>1. Sound(next) /\ Writes(next)
    BY <1>k, SafeModeEnteredSound, SafeModeEnteredWrites
  <2>2. next.safeMode
    BY <1>k DEF Sound, KernelStates, safeModeEntered, Protected, Sequenced
  <2>3. PICK saveFails \in BOOLEAN :
          /\ persistAnyway(next, saveFails)
          /\ safeReported' = (safeReported \/ (entering = "marked" /\ ~saveFails))
    BY <1>10 DEF enterSafeMode
  <2> HIDE DEF next
  <2> QED
    BY <2>1, <2>2, <2>3, PersistAnywayKeepsRecovery
<1>11. ASSUME NEW extension \in Extensions, recordExtensionFailure(extension)
       PROVE  RecoveryInv'
  <2> DEFINE next == extensionFailed(kernel, extension)
  <2>1. Sound(next) /\ Writes(next)
    BY <1>11, <1>k, ExtensionFailedSound, ExtensionFailedWrites DEF recordExtensionFailure
  <2>2. persist(next) /\ safeReported' = safeReported
    BY <1>11 DEF recordExtensionFailure
  <2>3. next.safeMode = kernel.safeMode
    BY <1>k DEF Sound, KernelStates, extensionFailed, Sequenced
  <2> HIDE DEF next
  <2> QED
    BY <1>k, <2>1, <2>2, <2>3, PersistKeepsRecovery
<1>12. ASSUME NEW extension \in Extensions, requestRecovery(extension)
       PROVE  RecoveryInv'
  <2> DEFINE next == recoveryRequested(kernel, extension)
  <2>1. Sound(next) /\ Writes(next)
    BY <1>12, <1>k, RecoveryRequestedSound, RecoveryRequestedWrites DEF requestRecovery
  <2>2. next.safeMode
    BY <1>k DEF Sound, KernelStates, recoveryRequested, Protected, Sequenced
  <2>3. PICK saveFails \in BOOLEAN : persistAnyway(next, saveFails)
    BY <1>12 DEF requestRecovery
  <2>4. safeReported' = safeReported
    BY <1>12 DEF requestRecovery
  <2> HIDE DEF next
  <2> QED
    BY <2>1, <2>2, <2>3, <2>4, PersistAnywayKeepsRecovery
<1>13. ASSUME NEW extension \in Extensions, recordExtensionSuccess(extension)
       PROVE  RecoveryInv'
  <2> DEFINE next == extensionSucceeded(kernel, extension)
  <2>1. Sound(next) /\ Writes(next)
    BY <1>13, <1>k, ExtensionSucceededSound, SuccessWrites DEF recordExtensionSuccess
  <2>2. persist(next) /\ safeReported' = safeReported
    BY <1>13 DEF recordExtensionSuccess
  <2>3. next.safeMode = kernel.safeMode
    BY <1>k DEF Sound, KernelStates, extensionSucceeded
  <2> HIDE DEF next
  <2> QED
    BY <1>k, <2>1, <2>2, <2>3, PersistKeepsRecovery
<1>14. CASE Restart \/ RestartUnreadable
  BY <1>14, RestartKeepsRecovery, UnreadableKeepsRecovery
<1>15. CASE UNCHANGED vars
  BY <1>15, QuietKeepsRecovery DEF vars
<1> QED
  BY <1>1, <1>2, <1>3, <1>4, <1>5, <1>6, <1>7, <1>8, <1>9, <1>10, <1>11, <1>12, <1>13, <1>14,
     <1>15 DEF Next

LEMMA InitRecovery == Init => RecoveryInv
<1> SUFFICES ASSUME Init PROVE RecoveryInv
  OBVIOUS
<1> DEFINE empty == [snapshot |-> NoSnapshot, recovered |-> FALSE, recovery |-> FALSE]
<1>1. Storable(initialState(empty)) /\ initialState(empty).failureCounts = NoFailures
  BY StartStorable
<1>2. kernel = initialState(empty) /\ journal = NoSnapshot /\ safeReported = FALSE
  BY DEF Init
<1>3. ~validateShapingSnapshot(NoSnapshot)
  BY DEF validateShapingSnapshot, ValidDecided, NoSnapshot, NoRevision
<1> HIDE DEF empty
<1>4. \A e \in Extensions : kernel.failureCounts[e] = 0
  BY <1>1, <1>2 DEF NoFailures
<1> QED
  BY <1>1, <1>2, <1>3, <1>4 DEF RecoveryInv, Journaled, ReportedSafe, JournalRemembers

\* The second invariant, carried by the first.
THEOREM RecoveryInvariance == Spec => []RecoveryInv
<1>1. Init => Inv /\ RecoveryInv
  BY InitInv, InitRecovery
<1>2. (Inv /\ RecoveryInv) /\ [Next]_vars => (Inv /\ RecoveryInv)'
  BY NextInv, NextRecovery
<1> QED
  BY <1>1, <1>2, PTL DEF Spec

\* Every journal the kernel writes can be read back, but for the two events the validator
\* is known to refuse (persist, persistAnyway, and the repair of a restart).
THEOREM JournalSafety == Spec => []JournalLoadsUnlessExtensionEvent
<1>1. RecoveryInv => JournalLoadsUnlessExtensionEvent
  BY DEF RecoveryInv, Journaled, Loadable, JournalLoadsUnlessExtensionEvent
<1> QED
  BY <1>1, RecoveryInvariance, PTL

\* After enterSafeMode has reported success, no crash and no failure of storage leads back to
\* the interface it hid, until a restore was written.
THEOREM ReportSafety == Spec => []ReportedSafeModeSurvives
<1>1. Inv /\ RecoveryInv => ReportedSafeModeSurvives
  <2> SUFFICES ASSUME Inv, RecoveryInv, safeReported PROVE initialState(load).safeMode
    BY DEF ReportedSafeModeSurvives
  <2>1. journal.safeMode /\ journal # NoSnapshot
    BY DEF RecoveryInv, ReportedSafe, NoSnapshot
  <2> QED
    BY <2>1, LoadIs DEF initialState
<1> QED
  BY <1>1, Invariance, RecoveryInvariance, PTL

\* A restart shows what the program showed, can undo to the same, and has the same candidate,
\* unless a failed operation left journal and kernel apart.
THEOREM RestartSafety == Spec => []RestartKeepsReportedState
<1>1. Inv /\ RecoveryInv => RestartKeepsReportedState
  <2> SUFFICES ASSUME Inv, RecoveryInv, ~inDoubt, ~marker, validateShapingSnapshot(journal)
               PROVE  LET restarted == reconciledState(initialState(load))
                      IN  /\ restarted.active = kernel.active
                          /\ restarted.lastKnownGood = kernel.lastKnownGood
                          /\ restarted.proposal.id = kernel.proposal.id
                          /\ restarted.safeMode = kernel.safeMode
                          /\ restarted.disabledExtensions = kernel.disabledExtensions
    BY DEF RestartKeepsReportedState
  <2> DEFINE state == initialState(load)
  <2>1. load = [snapshot |-> journal, recovered |-> FALSE, recovery |-> FALSE]
    <3>1. journal # NoSnapshot
      BY DEF validateShapingSnapshot, ValidDecided, NoSnapshot, NoRevision
    <3> QED
      BY <3>1 DEF load, Loaded, Inv, TypesAside
  <2>2. /\ state.active = kernel.active /\ state.lastKnownGood = kernel.lastKnownGood
        /\ state.proposal = kernel.proposal /\ state.safeMode = kernel.safeMode
        /\ state.disabledExtensions = kernel.disabledExtensions
    BY <2>1 DEF RecoveryInv, JournalRemembers, Remembers
  <2>3. state \in KernelStates
    BY StartIsSound DEF Sound
  <2> HIDE DEF state
  <2>4. /\ reconciledState(state).active = state.active
        /\ reconciledState(state).lastKnownGood = state.lastKnownGood
        /\ reconciledState(state).safeMode = state.safeMode
        /\ reconciledState(state).disabledExtensions = state.disabledExtensions
        /\ reconciledState(state).proposal.id = state.proposal.id
    BY <2>3 DEF reconciledState, Sequenced, KernelStates, Revisions
  <2> QED
    BY <2>2, <2>4 DEF state
<1> QED
  BY <1>1, Invariance, RecoveryInvariance, PTL
==============================================================================
