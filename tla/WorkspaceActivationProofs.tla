---------------------- MODULE WorkspaceActivationProofs ----------------------
(* Theorems about WorkspaceActivation, for any apps, sources, reviews and        *)
(* bounds: whatever fails or is interrupted, what the page shows was reviewed    *)
(* and asked for, stays bound, is put back by a decision that fails, and is the  *)
(* app of the document that the kernel shows.                                    *)
EXTENDS WorkspaceActivation, KernelTransitionsProofs

Command == runner["command"]
Import == runner["import"]

Capsules == Apps \union {NoApp}
Presentations == [accepted : Capsules, candidate : Capsules, lastKnownGood : Capsules]
Catalogs == [accepted : SUBSET Apps, candidate : SUBSET Apps]

\* The steps of staging, of a decision and of a turn.
Proposing == {"previewing", "proposed", "sourced", "abandoning", "presenting"}
ImportSteps == {"idle", "staging", "staged"} \union Proposing
Undecided == {"promoting", "activating", "discarding", "clearing"}
Decisions == Undecided \union {"accepting", "rejecting", "restoringCapsule", "restoringCatalog",
                               "degrading", "failed"}
Turns == {"turn", "tidying", "tidied", "shaping", "superseded"}
Steps == ImportSteps \union Decisions \union Turns
           \union {"applying", "restoring", "undoing", "rollingBack", "protecting"}

Runs == [step : Steps, app : Capsules, local : BOOLEAN, id : Ids, presentation : Presentations,
         catalog : Catalogs, failed : BOOLEAN, alone : BOOLEAN, shown : Capsules]

\* The kernel as its own proofs have it.
KernelTyped ==
    /\ Sound(kernel)
    /\ journal \in Snapshots /\ marker \in BOOLEAN
    /\ idSequence \in Nat /\ faults \in Nat

\* What is staged is an app, and an import only stages.
Typed ==
    /\ presentation \in Presentations /\ bindings \in Presentations /\ catalog \in Catalogs
    /\ runner \in [Runners -> Runs]
    /\ Import.step \in ImportSteps /\ ~Import.local
    /\ \A r \in Runners :
          runner[r].step \in {"staging", "staged", "applying"} \union Proposing =>
              runner[r].app \in Apps

\* What may be shown: apps somebody asked for, who saw a review that lets them pass.
Reviewed == (asked \ Blocked) \union {NoApp}

\* Without an import there is the command alone.
Alone == "import" \notin strays => Import.step = "idle"

Decent(shown) == shown.accepted \in Reviewed /\ shown.lastKnownGood \in Reviewed

\* All that could be shown again was reviewed; a decision still has the
\* candidate it was made about.
ReviewedOnly == "import" \notin strays =>
    /\ Decent(presentation) /\ Decent(bindings) /\ Decent(Command.presentation)
    /\ Command.local => Command.app \in asked \union Blocked /\ Command.step \notin Turns
    /\ Command.step \in {"promoting", "activating"} => presentation.candidate \in Reviewed
    /\ Command.step = "staged" => presentation.candidate = Command.app
    /\ Command.step \in Turns => presentation.candidate = NoApp

\* The app that was shown when the command began is still in both copies, as
\* the app or as what undo returns to.
StaysBound == Command.shown # NoApp =>
    /\ Command.presentation.accepted = Command.shown
    /\ Command.step \in Undecided => presentation.accepted = Command.shown
    /\ \A shown \in {presentation, bindings} :
          Command.shown \in {shown.accepted, shown.lastKnownGood}

\* A decision that runs alone finds the kernel as it was until it is done, and
\* has put back what it can before it reports its failure.
PutsBack == Command.alone /\ Command.step \in Decisions =>
    /\ Import.step = "idle"
    /\ Command.step \notin {"degrading", "failed"} => kernel.proposal.id = Command.id
    /\ Command.step = "restoringCatalog" /\ ~Command.failed => bindings = Command.presentation
    /\ Command.step = "failed" =>
         \/ kernel.safeMode
         \/ /\ presentation = Command.presentation /\ bindings = Command.presentation
            /\ catalog = Command.catalog /\ kernel.proposal.id = Command.id

\* A presentation that shows what the kernel shows.
Fits(shown) ==
    /\ shown.accepted = AppOf(kernel.active)
    /\ shown.candidate = AppOf(kernel.proposal)
    /\ kernel.active.id # kernel.lastKnownGood.id => shown.lastKnownGood = AppOf(kernel.lastKnownGood)

\* The journal would start what the kernel shows.
Mirrors ==
    \/ /\ journal = NoSnapshot
       /\ kernel.active = InitialRevision /\ kernel.lastKnownGood = InitialRevision
       /\ kernel.proposal = NoRevision
    \/ /\ journal.active = kernel.active /\ journal.lastKnownGood = kernel.lastKnownGood
       /\ journal.proposal = kernel.proposal

\* Step by step, what separates presentation and kernel: a proposal whose app
\* is not a candidate yet, or a change of one that the other still lacks.
Follows == strays = {} =>
    /\ ~kernel.safeMode
    /\ inDoubt \/ Mirrors
    /\ Command.step \notin {"restoringCapsule", "restoringCatalog", "degrading"} =>
         bindings = presentation
    /\ Command.step \in {"idle", "staging", "staged", "undoing", "protecting", "failed"}
                          \union Undecided \union Turns =>
         Fits(presentation)
    /\ Command.step \in Undecided => Command.presentation = presentation
    /\ Command.step \in {"accepting", "rejecting", "restoringCapsule", "restoringCatalog",
                         "applying", "rollingBack", "restoring"} =>
         Fits(Command.presentation)
    /\ Command.step = "accepting" => presentation = activated(Command.presentation)
    /\ Command.step = "rejecting" => presentation = withoutCandidate(Command.presentation)
    /\ Command.step = "applying" => presentation = installed(Command.presentation, Command.app)
    /\ Command.step = "rollingBack" => presentation = undone(Command.presentation)
    /\ Command.step = "restoringCatalog" /\ ~Command.failed => bindings = Command.presentation
    /\ Command.step \in Proposing =>
         /\ Fits([presentation EXCEPT !.candidate = Command.app])
         /\ presentation.candidate = NoApp
         /\ isProposal(kernel, Command.id)
    /\ Command.step = "previewing" => kernel.proposal.status = "proposed"
    /\ Command.step = "staged" => isProposal(kernel, Command.id)

Inv == KernelTyped /\ Typed /\ Alone /\ ReviewedOnly /\ StaysBound /\ PutsBack /\ Follows

------------------------------------------------------------------------------
\* What a command is when it begins to decide about the open proposal.
Decides(run, step) ==
    /\ run \in Runs
    /\ run.step = step /\ run.id = kernel.proposal.id
    /\ run.presentation = presentation /\ run.catalog = catalog
    /\ run.shown = shownAndBound /\ run.alone = (Import = Idle)
    /\ run.app = NoApp /\ ~run.local /\ ~run.failed

LEMMA IdleTyped ==
    /\ Idle \in Runs /\ Idle.step = "idle" /\ Idle.app = NoApp /\ ~Idle.local
    /\ Idle.presentation = NoBindings /\ Idle.shown = NoApp /\ ~Idle.failed /\ Idle.alone
    /\ NoBindings \in Presentations /\ NoBindings.accepted = NoApp
    /\ NoBindings.lastKnownGood = NoApp /\ NoBindings.candidate = NoApp
  BY DEF Idle, Runs, Steps, ImportSteps, NoBindings, Presentations, Capsules, Catalogs, Ids, NoId

LEMMA DecideIs ==
    ASSUME KernelTyped, Typed, NEW step \in Undecided
    PROVE  Decides([Idle EXCEPT !.step = step, !.id = kernel.proposal.id,
                       !.presentation = presentation, !.catalog = catalog,
                       !.alone = runner["import"] = Idle, !.shown = shownAndBound], step)
<1>1. kernel.proposal.id \in Ids
  BY DEF KernelTyped, Sound, KernelStates, Revisions
<1>2. shownAndBound \in Capsules
  BY DEF Typed, Presentations, Capsules, shownAndBound
<1>3. step \in Steps
  BY DEF Steps, Decisions
<1>4. (runner["import"] = Idle) \in BOOLEAN
  OBVIOUS
<1>5. Idle \in Runs /\ Idle.app = NoApp /\ ~Idle.local /\ ~Idle.failed
  BY IdleTyped
<1> QED
  BY <1>1, <1>2, <1>3, <1>4, <1>5 DEF Decides, Runs, Import, Typed

LEMMA AcceptIs ==
    ASSUME KernelTyped, Typed, NEW r, acceptProposal(r)
    PROVE  \E run : /\ runner' = [runner EXCEPT ![r] = run]
                    /\ run = Idle \/ (mayActivate /\ Decides(run, "promoting"))
  BY DecideIs DEF acceptProposal, Decide, End, Undecided

LEMMA RejectIs ==
    ASSUME KernelTyped, Typed, NEW r, rejectProposal(r)
    PROVE  \E run : /\ runner' = [runner EXCEPT ![r] = run]
                    /\ run = Idle \/ (kernel.proposal # NoRevision /\ Decides(run, "discarding"))
  BY DecideIs DEF rejectProposal, Decide, End, Undecided

\* What a command or an import is when it has read an app, or could not.
Stages(run, app, local) ==
    /\ run \in Runs /\ run.step \in {"idle", "staging"}
    /\ run.step = "staging" => run.app = app /\ kernel.proposal = NoRevision
    /\ run.local => local /\ run.app = app
    /\ run.presentation = NoBindings /\ run.shown = NoApp

LEMMA StageIs ==
    ASSUME NEW r, NEW app \in Apps, NEW local \in BOOLEAN, stage(r, app, local)
    PROVE  \E run : runner' = [runner EXCEPT ![r] = run] /\ Stages(run, app, local)
<1> DEFINE run == [Idle EXCEPT !.step = "staging", !.app = app, !.local = local]
<1>1. /\ run \in Runs /\ run.step = "staging" /\ run.app = app /\ run.local = local
      /\ run.presentation = NoBindings /\ run.shown = NoApp
  BY IdleTyped DEF Runs, Steps, ImportSteps, Capsules
<1>2. \/ runner' = [runner EXCEPT ![r] = run] /\ kernel.proposal = NoRevision
      \/ runner' = [runner EXCEPT ![r] = Idle]
  BY DEF stage, End
<1> HIDE DEF run
<1>3. Stages(Idle, app, local)
  BY IdleTyped DEF Stages
<1>4. kernel.proposal = NoRevision => Stages(run, app, local)
  BY <1>1 DEF Stages
<1> QED
  BY <1>2, <1>3, <1>4

\* What a command is when it has begun.
Starts(run) ==
    \/ Decides(run, "promoting") /\ mayActivate
    \/ Decides(run, "discarding")
    \/ /\ run.step \in {"idle", "staging", "turn", "undoing", "protecting"}
       /\ run.step = "staging" => run.app \in Apps
       /\ run.step = "turn" => mayShape
       /\ ~run.local /\ run.presentation = NoBindings /\ run.shown = NoApp

LEMMA StartIsOne ==
    ASSUME KernelTyped, Typed, start
    PROVE  /\ Command = Idle
           /\ \E run \in Runs : runner' = [runner EXCEPT !["command"] = run] /\ Starts(run)
<1>1. Command = Idle
  BY DEF start, Command
<1>2. CASE \E app \in Apps : stage("command", app, FALSE)
  <2>1. PICK app \in Apps : stage("command", app, FALSE)
    BY <1>2
  <2>2. PICK run : runner' = [runner EXCEPT !["command"] = run] /\ Stages(run, app, FALSE)
    BY <2>1, StageIs
  <2> QED
    BY <1>1, <2>2 DEF Stages, Starts
<1>3. CASE startTurn
  <2> DEFINE run == [Idle EXCEPT !.step = "turn", !.id = kernel.proposal.id]
  <2>1. run \in Runs /\ run.step = "turn" /\ ~run.local /\ run.presentation = NoBindings /\ run.shown = NoApp
    BY IdleTyped DEF Runs, Steps, Turns, KernelTyped, Sound, KernelStates, Revisions
  <2>2. runner' = [runner EXCEPT !["command"] = run] /\ mayShape
    BY <1>3 DEF startTurn
  <2> HIDE DEF run
  <2> QED
    BY <1>1, <2>1, <2>2 DEF Starts
<1>4. CASE acceptProposal("command")
  BY <1>1, <1>4, AcceptIs, IdleTyped DEF Starts, Decides
<1>5. CASE rejectProposal("command")
  BY <1>1, <1>5, RejectIs, IdleTyped DEF Starts, Decides
<1>6. ASSUME NEW step \in {"undoing", "protecting"},
             runner' = [runner EXCEPT !["command"].step = step]
      PROVE  \E run \in Runs : runner' = [runner EXCEPT !["command"] = run] /\ Starts(run)
  <2> DEFINE run == [Idle EXCEPT !.step = step]
  <2>1. run \in Runs /\ run.step = step /\ ~run.local /\ run.presentation = NoBindings /\ run.shown = NoApp
    BY IdleTyped DEF Runs, Steps
  <2>2. runner' = [runner EXCEPT !["command"] = run]
    BY <1>1, <1>6 DEF Command
  <2> HIDE DEF run
  <2> QED
    BY <2>1, <2>2 DEF Starts
<1> QED
  BY <1>1, <1>2, <1>3, <1>4, <1>5, <1>6 DEF start

------------------------------------------------------------------------------
(* The kernel's operations, as the activation finds them *)

\* A write of the next state: done, failed, or stored and reported as failed.
Persist(next) ==
    \/ kernel' = next /\ journal' = snapshotFromState(next) /\ inDoubt' = FALSE
    \/ kernel' = kernel /\ UNCHANGED <<journal, inDoubt>>
    \/ kernel' = kernel /\ journal' = snapshotFromState(next) /\ inDoubt' = TRUE

CountersTyped == idSequence' \in Nat /\ faults' \in Nat /\ marker' \in BOOLEAN

\* The kernel shows what it showed, and a failure that left a trace is in doubt.
KernelStays == kernel' = kernel /\ (UNCHANGED <<journal, inDoubt>> \/ inDoubt')

\* A candidate with that document and status, whatever else stays.
Opens(document, status) ==
    /\ kernel'.active = kernel.active /\ kernel'.lastKnownGood = kernel.lastKnownGood
    /\ kernel'.proposal # NoRevision
    /\ kernel'.proposal.document = document /\ kernel'.proposal.status = status
    /\ ~kernel'.safeMode /\ Mirrors'

\* A document becomes the interface, and the one that was shown what undo returns to.
Accepts(document) ==
    /\ kernel'.active.document = document /\ kernel'.lastKnownGood = kernel.active
    /\ kernel'.proposal = NoRevision
    /\ ~kernel'.safeMode /\ Mirrors'

LEMMA PersistTyped ==
    ASSUME KernelTyped, CountersTyped, NEW next, Sound(next), Persist(next)
    PROVE  /\ KernelTyped'
           /\ KernelStays \/ (kernel' = next /\ Mirrors')
<1>1. snapshotFromState(next) \in Snapshots
  BY SnapshotType DEF Sound
<1>2. Sound(kernel') /\ journal' \in Snapshots
  BY <1>1 DEF Persist, KernelTyped
<1>3. KernelStays \/ (kernel' = next /\ Mirrors')
  BY DEF Persist, KernelStays, Mirrors, snapshotFromState
<1> QED
  BY <1>2, <1>3 DEF KernelTyped, CountersTyped

\* The instance's copies of the transitions are the transitions.
LEMMA SameTransitions ==
    ASSUME NEW state, NEW id, NEW document, NEW source
    PROVE  /\ Kernel!proposed(state, id, document, source) = proposed(state, id, document, source)
           /\ Kernel!superseded(state, id, document, source) = superseded(state, id, document, source)
           /\ Kernel!previewed(state, id) = previewed(state, id)
           /\ Kernel!applied(state, id, document, source) = applied(state, id, document, source)
           /\ Kernel!accepted(state) = accepted(state)
           /\ Kernel!rejected(state) = rejected(state)
           /\ Kernel!rolledBack(state) = rolledBack(state)
           /\ Kernel!safeModeEntered(state) = safeModeEntered(state)
           /\ Kernel!snapshotFromState(state) = snapshotFromState(state)
  BY DEF Kernel!proposed, proposed, Kernel!superseded, superseded, Kernel!previewed, previewed,
     Kernel!applied, applied, Kernel!accepted, accepted, Kernel!rejected, rejected,
     Kernel!rolledBack, rolledBack, Kernel!safeModeEntered, safeModeEntered, Kernel!Protected,
     Protected, Kernel!deciding, deciding, Kernel!Sequenced, Sequenced, Kernel!eventFor, eventFor,
     Kernel!NewRevision, NewRevision, Kernel!NoRevision, NoRevision, Kernel!NoFailures, NoFailures,
     Kernel!InitialRevision, InitialRevision, Kernel!BuiltInId, BuiltInId, Kernel!NoId, NoId,
     Kernel!snapshotFromState, snapshotFromState

LEMMA SameGuards ==
    ASSUME NEW state, NEW id
    PROVE  /\ Kernel!canPropose(state) = canPropose(state)
           /\ Kernel!canPreview(state, id) = canPreview(state, id)
           /\ Kernel!canSupersede(state, id) = canSupersede(state, id)
           /\ Kernel!canRestore(state) = canRestore(state)
  BY DEF Kernel!canPropose, canPropose, Kernel!canPreview, canPreview, Kernel!canSupersede,
     canSupersede, Kernel!canRestore, canRestore, Kernel!isProposal, isProposal, Kernel!isOpen,
     isOpen, Kernel!NoRevision, NoRevision, Kernel!NoId, NoId

\* The operations of the kernel, over the transitions their lemmas are about.
LEMMA WritesIs ==
    ASSUME NEW next, Kernel!persist(next)
    PROVE  /\ Persist(next)
           /\ faults' = faults \/ faults' = faults + 1
           /\ marker' = marker \/ marker' = (marker /\ next.safeMode)
  BY DEF Persist, Kernel!persist, Kernel!Saved, Kernel!NotSaved, Kernel!HalfSaved,
     Kernel!StorageFails, Kernel!Failures, Kernel!storage, Kernel!snapshotFromState, snapshotFromState

LEMMA PersistIs ==
    ASSUME KernelTyped, NEW next, Sound(next), Kernel!persist(next), idSequence' \in Nat
    PROVE  /\ KernelTyped'
           /\ KernelStays \/ (kernel' = next /\ Mirrors')
<1>1. CountersTyped
  <2>1. next.safeMode \in BOOLEAN
    BY DEF Sound, KernelStates
  <2> QED
    BY <2>1, WritesIs DEF KernelTyped, CountersTyped
<1> QED
  BY <1>1, WritesIs, PersistTyped

LEMMA RefusedIs ==
    ASSUME KernelTyped, Kernel!Refused, idSequence' \in Nat
    PROVE  KernelTyped' /\ KernelStays
  BY DEF Kernel!Refused, Kernel!storage, KernelTyped, KernelStays

LEMMA ProposeIs ==
    ASSUME KernelTyped, NEW document \in Documents, NEW source \in Sources,
           Kernel!propose(document, source)
    PROVE  KernelTyped' /\ (KernelStays \/ Opens(document, "proposed"))
<1> DEFINE next == proposed(kernel, idSequence + 1, document, source)
<1>1. /\ idSequence' = idSequence + 1 /\ idSequence' \in Nat
      /\ (canPropose(kernel) /\ Kernel!persist(next)) \/ Kernel!Refused
  BY SameTransitions, SameGuards DEF Kernel!propose, Kernel!TakeId, Kernel!nextId, KernelTyped
<1>2. CASE canPropose(kernel) /\ Kernel!persist(next)
  <2>1. Sound(next)
    BY <1>1, <1>2, ProposedSound DEF KernelTyped
  <2>2. /\ next.active = kernel.active /\ next.lastKnownGood = kernel.lastKnownGood
        /\ next.proposal # NoRevision
        /\ next.proposal.document = document /\ next.proposal.status = "proposed"
        /\ ~next.safeMode
    BY <1>2 DEF proposed, Sequenced, NewRevision, NoRevision, canPropose, KernelTyped, Sound,
       KernelStates
  <2> HIDE DEF next
  <2> QED
    BY <1>1, <1>2, <2>1, <2>2, PersistIs DEF Opens
<1>3. CASE Kernel!Refused
  BY <1>1, <1>3, RefusedIs
<1> QED
  BY <1>1, <1>2, <1>3

LEMMA SupersedeIs ==
    ASSUME KernelTyped, NEW document \in Documents, NEW source \in Sources,
           Kernel!supersede(document, source)
    PROVE  KernelTyped' /\ (KernelStays \/ Opens(document, kernel.proposal.status))
<1> DEFINE next == superseded(kernel, idSequence + 1, document, source)
<1>1. /\ idSequence' = idSequence + 1 /\ idSequence' \in Nat
      /\ canSupersede(kernel, kernel.proposal.id) /\ Kernel!persist(next)
  BY SameTransitions, SameGuards DEF Kernel!supersede, Kernel!TakeId, Kernel!nextId, KernelTyped
<1>2. Sound(next)
  BY <1>1, SupersededSound DEF KernelTyped
<1>3. /\ next.active = kernel.active /\ next.lastKnownGood = kernel.lastKnownGood
      /\ next.proposal # NoRevision
      /\ next.proposal.document = document /\ next.proposal.status = kernel.proposal.status
      /\ ~next.safeMode
  BY <1>1 DEF superseded, Sequenced, NewRevision, NoRevision, canSupersede, isProposal, isOpen,
     KernelTyped, Sound, KernelStates
<1> HIDE DEF next
<1> QED
  BY <1>1, <1>2, <1>3, PersistIs DEF Opens

LEMMA PreviewIs ==
    ASSUME KernelTyped, Kernel!preview
    PROVE  /\ KernelTyped'
           /\ \/ KernelStays
              \/ Opens(kernel.proposal.document, "previewed") /\ kernel'.proposal.id = kernel.proposal.id
<1> DEFINE next == previewed(kernel, kernel.proposal.id)
<1>1. /\ idSequence' \in Nat
      /\ canPreview(kernel, kernel.proposal.id) /\ Kernel!persist(next)
  BY SameTransitions, SameGuards DEF Kernel!preview, KernelTyped
<1>2. Sound(next)
  BY <1>1, PreviewedSound DEF KernelTyped
<1>3. /\ next.active = kernel.active /\ next.lastKnownGood = kernel.lastKnownGood
      /\ next.proposal # NoRevision /\ next.proposal.id = kernel.proposal.id
      /\ next.proposal.document = kernel.proposal.document /\ next.proposal.status = "previewed"
      /\ ~next.safeMode
  <2>1. next.proposal = [kernel.proposal EXCEPT !.status = "previewed"]
    BY DEF previewed, Sequenced, KernelTyped, Sound, KernelStates
  <2>2. next.active = kernel.active /\ next.lastKnownGood = kernel.lastKnownGood
        /\ next.safeMode = kernel.safeMode
    BY DEF previewed, Sequenced, KernelTyped, Sound, KernelStates
  <2>3. kernel.proposal \in Revisions /\ kernel.proposal # NoRevision
    BY <1>1 DEF KernelTyped, Sound, KernelStates, canPreview, isProposal
  <2> HIDE DEF next
  <2> QED
    BY <2>1, <2>2, <2>3 DEF Revisions, NoRevision, KernelTyped, Sound, CandidateIsSound
<1> HIDE DEF next
<1> QED
  BY <1>1, <1>2, <1>3, PersistIs DEF Opens

LEMMA DecidingIs ==
    ASSUME KernelTyped, NEW revision, NEW next, next = deciding(kernel, revision)
    PROVE  /\ next.active = revision /\ next.lastKnownGood = kernel.active
           /\ next.proposal = NoRevision /\ ~next.safeMode
  BY DEF deciding, Sequenced, KernelTyped, Sound, KernelStates

LEMMA ApplyIs ==
    ASSUME KernelTyped, NEW document \in Documents, NEW source \in Sources,
           Kernel!applyLocalRevision(document, source)
    PROVE  KernelTyped' /\ (KernelStays \/ Accepts(document))
<1> DEFINE next == applied(kernel, idSequence + 1, document, source)
<1>1. /\ idSequence' = idSequence + 1 /\ idSequence' \in Nat
      /\ Kernel!persist(next) \/ Kernel!Refused
  BY SameTransitions, SameGuards DEF Kernel!applyLocalRevision, Kernel!TakeId, Kernel!nextId,
     KernelTyped
<1>2. Sound(next)
  BY <1>1, AppliedSound DEF KernelTyped
<1>3. /\ next.active.document = document /\ next.lastKnownGood = kernel.active
      /\ next.proposal = NoRevision /\ ~next.safeMode
  BY DecidingIs DEF applied, NewRevision
<1>4. CASE Kernel!persist(next)
  <2> HIDE DEF next
  <2> QED
    BY <1>1, <1>2, <1>3, <1>4, PersistIs DEF Accepts
<1>5. CASE Kernel!Refused
  BY <1>1, <1>5, RefusedIs
<1> QED
  BY <1>1, <1>4, <1>5

LEMMA KernelAcceptIs ==
    ASSUME KernelTyped, Kernel!accept
    PROVE  KernelTyped' /\ (KernelStays \/ Accepts(kernel.proposal.document))
<1> DEFINE next == accepted(kernel)
<1>1. idSequence' \in Nat /\ Kernel!persist(next)
  BY SameTransitions, SameGuards DEF Kernel!accept, KernelTyped
<1>2. Sound(next)
  BY AcceptedSound DEF KernelTyped
<1>3. /\ next.active.document = kernel.proposal.document /\ next.lastKnownGood = kernel.active
      /\ next.proposal = NoRevision /\ ~next.safeMode
  <2> DEFINE revision == [kernel.proposal EXCEPT !.status = "accepted"]
  <2>1. revision.document = kernel.proposal.document
    BY DEF KernelTyped, Sound, KernelStates, Revisions
  <2>2. next = deciding(kernel, revision)
    BY DEF accepted
  <2> HIDE DEF next, revision
  <2> QED
    BY <2>1, <2>2, DecidingIs
<1> HIDE DEF next
<1> QED
  BY <1>1, <1>2, <1>3, PersistIs DEF Accepts

\* The proposal is closed and everything else stays.
Closes ==
    /\ kernel'.active = kernel.active /\ kernel'.lastKnownGood = kernel.lastKnownGood
    /\ kernel'.proposal = NoRevision
    /\ kernel'.safeMode = kernel.safeMode /\ Mirrors'

LEMMA KernelRejectIs ==
    ASSUME KernelTyped, Kernel!reject
    PROVE  KernelTyped' /\ (KernelStays \/ Closes)
<1> DEFINE next == rejected(kernel)
<1>1. idSequence' \in Nat /\ Kernel!persist(next)
  BY SameTransitions, SameGuards DEF Kernel!reject, KernelTyped
<1>2. Sound(next)
  BY RejectedSound DEF KernelTyped
<1>3. /\ next.active = kernel.active /\ next.lastKnownGood = kernel.lastKnownGood
      /\ next.proposal = NoRevision /\ next.safeMode = kernel.safeMode
  BY DEF rejected, Sequenced, KernelTyped, Sound, KernelStates
<1> HIDE DEF next
<1> QED
  BY <1>1, <1>2, <1>3, PersistIs DEF Closes

\* What undo returns to becomes the interface.
Returns ==
    /\ kernel'.active = kernel'.lastKnownGood
    /\ kernel'.active.document = kernel.lastKnownGood.document
    /\ kernel'.proposal = NoRevision
    /\ ~kernel'.safeMode /\ Mirrors'

LEMMA ReturnsIs ==
    ASSUME KernelTyped, idSequence' \in Nat, Kernel!persist(rolledBack(kernel))
    PROVE  KernelTyped' /\ (KernelStays \/ Returns)
<1> DEFINE next == rolledBack(kernel)
<1>2. Sound(next)
  BY RolledBackSound DEF KernelTyped
<1>3. /\ next.active = next.lastKnownGood
      /\ next.active.document = kernel.lastKnownGood.document
      /\ next.proposal = NoRevision /\ ~next.safeMode
  <2> DEFINE revision == [kernel.lastKnownGood EXCEPT !.source = "recovery", !.status = "accepted"]
  <2>1. revision.document = kernel.lastKnownGood.document
    BY DEF KernelTyped, Sound, KernelStates, Revisions
  <2>2. /\ next.active = revision /\ next.lastKnownGood = revision
        /\ next.proposal = NoRevision /\ ~next.safeMode
    BY DEF rolledBack, Sequenced, KernelTyped, Sound, KernelStates
  <2> QED
    BY <2>1, <2>2
<1> HIDE DEF next
<1>4. Kernel!persist(next)
  BY DEF next
<1> QED
  BY <1>2, <1>3, <1>4, PersistIs DEF Returns

LEMMA RollbackIs ==
    ASSUME KernelTyped, Kernel!rollback
    PROVE  KernelTyped' /\ (KernelStays \/ Returns)
<1>1. idSequence' \in Nat /\ Kernel!persist(rolledBack(kernel))
  BY SameTransitions, SameGuards DEF Kernel!rollback, KernelTyped
<1> QED
  BY <1>1, ReturnsIs

LEMMA RestoreIs ==
    ASSUME KernelTyped, Kernel!restoreLastKnownGood
    PROVE  KernelTyped' /\ kernel.safeMode
<1>1. idSequence' \in Nat /\ Kernel!persist(rolledBack(kernel)) /\ kernel.safeMode
  BY SameTransitions, SameGuards DEF Kernel!restoreLastKnownGood, canRestore, KernelTyped
<1> QED
  BY <1>1, ReturnsIs

LEMMA MarkRecoveryIs ==
    ASSUME KernelTyped, Kernel!markRecovery
    PROVE  KernelTyped' /\ UNCHANGED <<kernel, journal, inDoubt>>
<1>1. UNCHANGED <<kernel, journal, inDoubt, idSequence>>
  BY DEF Kernel!markRecovery, Kernel!history
<1>2. marker' = TRUE \/ marker' = marker
  BY DEF Kernel!markRecovery
<1>3. faults' = faults \/ faults' = faults + 1
  BY DEF Kernel!markRecovery, Kernel!StorageFails, Kernel!Failures
<1>4. marker' \in BOOLEAN
  BY <1>2 DEF KernelTyped
<1>5. faults' \in Nat
  BY <1>3 DEF KernelTyped
<1> QED
  BY <1>1, <1>4, <1>5 DEF KernelTyped

LEMMA EnterSafeModeIs ==
    ASSUME KernelTyped, Kernel!enterSafeMode
    PROVE  KernelTyped' /\ kernel'.safeMode
<1> DEFINE next == safeModeEntered(kernel)
<1>1. /\ kernel' = next
      /\ journal' = journal \/ journal' = snapshotFromState(next)
      /\ UNCHANGED <<idSequence, marker>>
      /\ faults' = faults + 0 \/ faults' = faults + 1
  BY SameTransitions, SameGuards DEF Kernel!enterSafeMode, Kernel!Failures, Kernel!Count,
     Kernel!persistAnyway
<1>2. Sound(next)
  BY SafeModeEnteredSound DEF KernelTyped
<1>3. next.safeMode
  BY DEF safeModeEntered, Protected, Sequenced, KernelTyped, Sound, KernelStates
<1>4. snapshotFromState(next) \in Snapshots
  BY <1>2, SnapshotType DEF Sound
<1> HIDE DEF next
<1> QED
  BY <1>1, <1>2, <1>3, <1>4 DEF KernelTyped

------------------------------------------------------------------------------
(* Starting again *)

LEMMA SameStart ==
    ASSUME NEW state
    PROVE  /\ Kernel!initialState(state) = initialState(state)
           /\ Kernel!reconciledState(state) = reconciledState(state)
           /\ Kernel!isPending(state) = isPending(state)
  BY DEF Kernel!initialState, initialState, Kernel!reconciledState, reconciledState,
     Kernel!isPending, isPending, Kernel!Sequenced, Sequenced, Kernel!eventFor, eventFor,
     Kernel!NoRevision, NoRevision, Kernel!NoFailures, NoFailures, Kernel!NoSnapshot, NoSnapshot,
     Kernel!InitialRevision, InitialRevision, Kernel!InitialEvent, InitialEvent,
     Kernel!BuiltInId, BuiltInId, Kernel!NoId, NoId

\* What a start reads, and what it makes of it.
StartOf(loaded) == reconciledState(initialState(loaded))

Loads(loaded) ==
    /\ loaded.snapshot \in Snapshots /\ loaded.recovered \in BOOLEAN /\ loaded.recovery \in BOOLEAN
    /\ loaded.snapshot = NoSnapshot \/ ValidProposal(loaded.snapshot)

LEMMA LoadIs ==
    ASSUME KernelTyped
    PROVE  Loads(Kernel!load) /\ (~Kernel!load.recovered => Kernel!load.snapshot = journal)
<1>1. NoSnapshot \in Snapshots
  BY ConstantTypes
<1>2. Kernel!validateShapingSnapshot(journal) => ValidProposal(journal)
  BY DEF Kernel!validateShapingSnapshot, Kernel!ValidProposal, ValidProposal, Kernel!NoRevision,
     NoRevision, Kernel!NoId, NoId
<1>3. Kernel!NoSnapshot = NoSnapshot
  BY DEF Kernel!NoSnapshot, NoSnapshot, Kernel!NoRevision, NoRevision, Kernel!InitialEvent,
     InitialEvent, Kernel!BuiltInId, BuiltInId, Kernel!NoId, NoId
<1>4. CASE journal # NoSnapshot /\ Kernel!validateShapingSnapshot(journal)
  <2>1. Kernel!load = [snapshot |-> journal, recovered |-> FALSE, recovery |-> marker]
    BY <1>3, <1>4 DEF Kernel!load, Kernel!Loaded
  <2> QED
    BY <1>2, <1>4, <2>1 DEF KernelTyped, Loads
<1>5. CASE ~(journal # NoSnapshot /\ Kernel!validateShapingSnapshot(journal))
  <2>1. Kernel!load = [snapshot |-> NoSnapshot, recovered |-> journal # NoSnapshot, recovery |-> marker]
    BY <1>3, <1>5 DEF Kernel!load, Kernel!Loaded
  <2> QED
    BY <1>1, <2>1 DEF KernelTyped, Loads
<1> QED
  BY <1>4, <1>5

\* The kernel that starts is sound, and the repair of a proposal changes its status only.
LEMMA StartIs ==
    ASSUME NEW loaded, Loads(loaded)
    PROVE  /\ Sound(initialState(loaded)) /\ Sound(StartOf(loaded))
           /\ StartOf(loaded).sequence \in Nat
           /\ snapshotFromState(StartOf(loaded)) \in Snapshots
           /\ StartOf(loaded).active = initialState(loaded).active
           /\ StartOf(loaded).lastKnownGood = initialState(loaded).lastKnownGood
           /\ StartOf(loaded).safeMode = initialState(loaded).safeMode
           /\ StartOf(loaded).proposal.document = initialState(loaded).proposal.document
           /\ ~isPending(initialState(loaded)) => StartOf(loaded) = initialState(loaded)
<1> DEFINE state == initialState(loaded)
           next == StartOf(loaded)
<1>1. Sound(state)
  BY InitialStateSound DEF Loads
<1> HIDE DEF state
<1>2. Sound(next)
  BY <1>1, ReconciledSound DEF StartOf, state
<1>3. next = reconciledState(state)
  BY DEF StartOf, state
<1>4. /\ next.active = state.active /\ next.lastKnownGood = state.lastKnownGood
      /\ next.safeMode = state.safeMode /\ next.proposal.document = state.proposal.document
      /\ ~isPending(state) => next = state
  <2>1. CASE isPending(state)
    <3>1. next = [Sequenced(state, "revision-previewed", state.proposal.id, NoExtension)
                    EXCEPT !.proposal.status = "previewed"]
      BY <1>3, <2>1 DEF reconciledState
    <3> HIDE DEF next
    <3>2. /\ next.active = state.active /\ next.lastKnownGood = state.lastKnownGood
          /\ next.safeMode = state.safeMode
          /\ next.proposal = [state.proposal EXCEPT !.status = "previewed"]
      BY <1>1, <3>1 DEF Sequenced, Sound, KernelStates
    <3> QED
      BY <1>1, <2>1, <3>2 DEF Sound, KernelStates, Revisions
  <2>2. CASE ~isPending(state)
    BY <1>3, <2>2 DEF reconciledState
  <2> QED
    BY <2>1, <2>2
<1>5. next.sequence \in Nat /\ snapshotFromState(next) \in Snapshots
  BY <1>2, SnapshotType DEF Sound, KernelStates
<1> QED
  BY <1>1, <1>2, <1>4, <1>5 DEF state, next

\* A start outside safe mode found the journal readable.
LEMMA LoadedState ==
    ASSUME NEW loaded, Loads(loaded), ~initialState(loaded).safeMode
    PROVE  /\ ~loaded.recovered
           /\ loaded.snapshot = NoSnapshot =>
                /\ initialState(loaded).active = InitialRevision
                /\ initialState(loaded).lastKnownGood = InitialRevision
                /\ initialState(loaded).proposal = NoRevision
           /\ loaded.snapshot # NoSnapshot =>
                /\ initialState(loaded).active = loaded.snapshot.active
                /\ initialState(loaded).lastKnownGood = loaded.snapshot.lastKnownGood
                /\ initialState(loaded).proposal = loaded.snapshot.proposal
  BY DEF Loads, initialState, Snapshots

\* A restart that read what is stored.
LEMMA RestartIs ==
    ASSUME KernelTyped, Kernel!Restart
    PROVE  /\ KernelTyped'
           /\ kernel' = StartOf(Kernel!load)
           /\ \/ journal' = snapshotFromState(kernel')
              \/ journal' = journal /\ (~isPending(initialState(Kernel!load)) \/ faults' # faults)
<1> DEFINE loaded == Kernel!load
           state == initialState(loaded)
           next == StartOf(loaded)
<1>1. Loads(loaded)
  BY LoadIs
<1> HIDE DEF loaded
<1>2. Sound(next) /\ next.sequence \in Nat /\ snapshotFromState(next) \in Snapshots
  BY <1>1, StartIs
<1>3. /\ kernel' = next /\ idSequence' = next.sequence
      /\ \/ isPending(state) /\ Kernel!Saved(next)
         \/ isPending(state) /\ Kernel!StorageFails /\ UNCHANGED <<journal, marker>>
         \/ /\ isPending(state) /\ Kernel!StorageFails
            /\ journal' = snapshotFromState(next) /\ UNCHANGED marker
         \/ ~isPending(state) /\ UNCHANGED <<journal, marker, faults>>
  BY SameStart, SameTransitions DEF Kernel!Restart, Kernel!StartFrom, StartOf, loaded,
     Kernel!storage
<1>4. \/ UNCHANGED <<journal, marker, faults>> /\ ~isPending(state)
      \/ UNCHANGED <<journal, marker>> /\ faults' = faults + 1
      \/ journal' = snapshotFromState(next) /\ UNCHANGED marker /\ faults' = faults + 1
      \/ journal' = snapshotFromState(next) /\ marker' = (marker /\ next.safeMode) /\ UNCHANGED faults
  BY <1>3, SameTransitions DEF Kernel!Saved, Kernel!StorageFails, Kernel!Failures
<1> HIDE DEF next, state
<1>5. marker' \in BOOLEAN
  BY <1>2, <1>4 DEF KernelTyped, Sound, KernelStates
<1>6. faults' \in Nat /\ faults + 1 # faults
  BY <1>4 DEF KernelTyped
<1>7. Sound(kernel') /\ journal' \in Snapshots /\ idSequence' \in Nat
  BY <1>2, <1>3, <1>4 DEF KernelTyped
<1> QED
  BY <1>3, <1>4, <1>5, <1>6, <1>7 DEF KernelTyped, state, next, loaded

LEMMA UnreadableIs ==
    ASSUME KernelTyped, Kernel!RestartUnreadable
    PROVE  KernelTyped' /\ faults' # faults
<1> DEFINE loaded == [snapshot |-> NoSnapshot, recovered |-> TRUE, recovery |-> FALSE]
           state == initialState(loaded)
<1>1. Loads(loaded)
  BY ConstantTypes DEF Loads
<1>2. Kernel!unreadable = loaded
  BY DEF Kernel!unreadable, Kernel!NoSnapshot, NoSnapshot, Kernel!NoRevision, NoRevision,
     Kernel!InitialEvent, InitialEvent, Kernel!BuiltInId, BuiltInId, Kernel!NoId, NoId
<1> HIDE DEF loaded
<1>3. kernel' = state /\ idSequence' = state.sequence /\ UNCHANGED <<journal, marker>>
  BY <1>2, SameStart DEF Kernel!RestartUnreadable, Kernel!StartFrom, Kernel!storage
<1>4. faults' = faults + 1
  BY DEF Kernel!RestartUnreadable, Kernel!StorageFails, Kernel!Failures
<1>5. Sound(state) /\ state.sequence \in Nat
  BY <1>1, StartIs DEF Sound, KernelStates
<1> HIDE DEF state
<1> QED
  BY <1>3, <1>4, <1>5 DEF KernelTyped

LEMMA WithoutCapsulesIs ==
    ASSUME KernelTyped, reloadWithoutCapsules
    PROVE  KernelTyped' /\ faults' # faults
<1> DEFINE loaded == Kernel!load
           state == initialState(loaded)
           next == StartOf(loaded)
<1>1. Loads(loaded)
  BY LoadIs
<1> HIDE DEF loaded
<1>2. Sound(next) /\ next.sequence \in Nat /\ snapshotFromState(next) \in Snapshots
  BY <1>1, StartIs
<1>3. /\ kernel' = next /\ idSequence' = next.sequence /\ UNCHANGED marker
      /\ journal' = snapshotFromState(next) \/ journal' = journal
  BY DEF reloadWithoutCapsules, Kernel!StartFrom, StartOf, loaded
<1>4. faults' = faults + 1
  BY DEF reloadWithoutCapsules, Fault
<1> HIDE DEF next
<1> QED
  BY <1>2, <1>3, <1>4 DEF KernelTyped

------------------------------------------------------------------------------
(* Steps that leave the kernel alone *)

LEMMA QuietIs ==
    ASSUME KernelTyped, NoKernelStep, Steady \/ Fault
    PROVE  /\ KernelTyped' /\ UNCHANGED <<kernel, journal, inDoubt>>
<1>1. UNCHANGED <<kernel, idSequence, journal, marker, inDoubt>>
  BY DEF NoKernelStep, OtherKernelVars
<1>2. faults' \in Nat
  BY DEF Steady, Fault, KernelTyped
<1> QED
  BY <1>1, <1>2 DEF KernelTyped

LEMMA AbandonedIs ==
    ASSUME KernelTyped, NEW r, Abandoned(r)
    PROVE  /\ KernelTyped'
           /\ \/ KernelStays
              \/ isProposal(kernel, runner[r].id) /\ Closes
  BY QuietIs, KernelRejectIs DEF Abandoned, KernelStays

LEMMA AppOfIs ==
    /\ AppOf(NoRevision) = NoApp /\ AppOf(InitialRevision) = NoApp
    /\ \A revision : AppOf(revision) \in Capsules
    /\ \A revision, other : revision.document = other.document => AppOf(revision) = AppOf(other)
    /\ \A revision : revision.document \in Apps => AppOf(revision) = revision.document
    /\ \A revision : revision.document \notin Apps => AppOf(revision) = NoApp
  BY ActivationAssumption DEF AppOf, NoRevision, InitialRevision, Capsules

LEMMA SourcesIs == "shaper" \in Sources /\ "user" \in Sources
  BY DEF Sources

------------------------------------------------------------------------------
(* The steps that change more than one thing a runner carries *)

\* A runner goes on, at that step, with its app and what it knows.
GoesOn(run, r, step) ==
    /\ run \in Runs /\ run.step = step
    /\ run.app = runner[r].app /\ run.local = runner[r].local /\ run.alone = runner[r].alone
    /\ run.failed = runner[r].failed /\ run.catalog = runner[r].catalog

\* It goes on, with what was shown when it began to change that.
Remembers(run, r, step) ==
    /\ GoesOn(run, r, step) /\ run.id = runner[r].id
    /\ run.presentation = presentation /\ run.shown = shownAndBound

\* It goes on, with the proposal it made.
Proposes(run, r, step) ==
    /\ GoesOn(run, r, step) /\ run.id = kernel'.proposal.id
    /\ run.presentation = runner[r].presentation /\ run.shown = runner[r].shown

LEMMA Remembering ==
    ASSUME Typed, NEW r \in Runners, NEW step \in Steps
    PROVE  Remembers([runner[r] EXCEPT !.step = step, !.presentation = presentation,
                                       !.shown = shownAndBound], r, step)
<1>1. runner[r] \in Runs /\ presentation \in Presentations /\ shownAndBound \in Capsules
  BY DEF Typed, shownAndBound, Presentations, Capsules
<1> QED
  BY <1>1 DEF Remembers, GoesOn, Runs

LEMMA Proposed ==
    ASSUME KernelTyped', Typed, NEW r \in Runners, NEW step \in Steps
    PROVE  Proposes([runner[r] EXCEPT !.id = kernel'.proposal.id, !.step = step], r, step)
<1>1. kernel'.proposal.id \in Ids
  BY DEF KernelTyped, Sound, KernelStates, Revisions
<1> QED
  BY <1>1 DEF Proposes, GoesOn, Typed, Runs

LEMMA InstallPresentationIs ==
    ASSUME Typed, NEW r \in Runners, installPresentation(r)
    PROVE  /\ runner[r].step = "staging" /\ isInstalled(r)
           /\ UNCHANGED <<strays, catalog, asked>>
           /\ \/ /\ Presented(installed(presentation, runner[r].app))
                 /\ \E run : /\ runner' = [runner EXCEPT ![r] = run]
                             /\ Remembers(run, r, "applying")
              \/ NotPresented /\ End(r)
<1>1. "applying" \in Steps
  BY DEF Steps
<1> QED
  BY <1>1, Remembering DEF installPresentation, Keeps, CatalogAndAsked

LEMMA RollbackPresentationIs ==
    ASSUME Typed, rollbackPresentation("command")
    PROVE  /\ runner["command"].step = "undoing" /\ UNCHANGED <<strays, catalog, asked>>
           /\ \/ /\ Presented(undone(presentation))
                 /\ \E run : /\ runner' = [runner EXCEPT !["command"] = run]
                             /\ Remembers(run, "command", "rollingBack")
              \/ NotPresented /\ End("command")
<1>1. "rollingBack" \in Steps /\ "command" \in Runners
  BY DEF Steps, Runners
<1> QED
  BY <1>1, Remembering DEF rollbackPresentation, Keeps, CatalogAndAsked

LEMMA ProposeAppIs ==
    ASSUME KernelTyped, Typed, NEW r \in Runners, proposeApp(r)
    PROVE  /\ runner[r].step = "staging" /\ ~isInstalled(r)
           /\ UNCHANGED <<strays, presentation, bindings, catalog, asked>> /\ KernelTyped'
           /\ \/ /\ kernel.proposal = NoRevision /\ KernelDone
                 /\ Opens(runner[r].app, "proposed")
                 /\ \E run : /\ runner' = [runner EXCEPT ![r] = run]
                             /\ Proposes(run, r, IF isDeferred(r) THEN "proposed" ELSE "previewing")
              \/ KernelStays /\ End(r)
<1>1. runner[r].step = "staging" /\ ~isInstalled(r)
  BY DEF proposeApp
<1>2. UNCHANGED <<strays, presentation, bindings, catalog, asked>>
  BY DEF proposeApp, Keeps, KeepsCapsules, CatalogAndAsked
<1>3. {"proposed", "previewing"} \subseteq Steps
  BY DEF Steps, ImportSteps, Proposing
<1>4. runner[r].app \in Documents /\ "user" \in Sources
  BY <1>1, SourcesIs, ActivationAssumption DEF Typed
<1>5. CASE kernel.proposal = NoRevision
  <2>1. /\ KernelTyped'
        /\ KernelStays \/ (Opens(runner[r].app, "proposed"))
    BY <1>4, <1>5, ProposeIs DEF proposeApp
  <2>2. CASE KernelDone
    <3>1. runner' = [runner EXCEPT ![r] =
                       [runner[r] EXCEPT !.id = kernel'.proposal.id,
                            !.step = IF isDeferred(r) THEN "proposed" ELSE "previewing"]]
      BY <1>5, <2>2 DEF proposeApp
    <3>2. Opens(runner[r].app, "proposed")
      BY <2>1, <2>2 DEF KernelDone, KernelStays
    <3> QED
      BY <1>1, <1>2, <1>3, <1>5, <2>1, <2>2, <3>1, <3>2, Proposed
  <2>3. CASE ~KernelDone
    <3>1. KernelStays /\ End(r)
      BY <1>5, <2>1, <2>3 DEF proposeApp, KernelDone, KernelStays, Opens
    <3> QED
      BY <1>1, <1>2, <2>1, <3>1
  <2> QED
    BY <2>2, <2>3
<1>6. CASE kernel.proposal # NoRevision
  <2>1. KernelTyped' /\ KernelStays /\ End(r)
    BY <1>6, QuietIs DEF proposeApp, KernelStays, NoKernelStep, OtherKernelVars
  <2> QED
    BY <1>1, <1>2, <2>1
<1> QED
  BY <1>5, <1>6

LEMMA SupersedeWithSourceIs ==
    ASSUME KernelTyped, Typed, NEW r \in Runners, supersedeWithSource(r)
    PROVE  /\ runner[r].step = "proposed"
           /\ UNCHANGED <<presentation, bindings, catalog, asked>> /\ KernelTyped'
           /\ strays' \in {strays, strays \union {"step"}}
           /\ \/ /\ Opens(runner[r].app, kernel.proposal.status) /\ UNCHANGED strays
                 /\ \E run : /\ runner' = [runner EXCEPT ![r] = run]
                             /\ Proposes(run, r, "sourced")
              \/ End(r) /\ (Closes \/ strays' = strays \union {"step"})
              \/ End(r) /\ ~canSupersede(kernel, runner[r].id)
<1>1. /\ runner[r].step = "proposed"
      /\ UNCHANGED <<presentation, bindings, catalog, asked>>
      /\ strays' \in {strays, strays \union {"step"}}
  BY DEF supersedeWithSource, KeepsCapsules, CatalogAndAsked, Keeps, Strays, StraysIf
<1>2. "sourced" \in Steps
  BY DEF Steps, ImportSteps, Proposing
<1>3. runner[r].app \in Documents /\ "user" \in Sources
  BY <1>1, SourcesIs, ActivationAssumption DEF Typed, Proposing
<1>4. CASE Abandoned(r) /\ End(r) /\ StraysIf(KernelFailed, "step")
  <2>1. KernelTyped' /\ (KernelStays \/ Closes)
    BY <1>4, AbandonedIs
  <2>2. KernelStays => strays' = strays \union {"step"}
    BY <1>4 DEF StraysIf, KernelFailed, KernelStays
  <2> QED
    BY <1>1, <1>4, <2>1, <2>2
<1>5. CASE canSupersede(kernel, runner[r].id) /\ Kernel!supersede(runner[r].app, "user")
  <2>1. KernelTyped' /\ (KernelStays \/ Opens(runner[r].app, kernel.proposal.status))
    BY <1>3, <1>5, SupersedeIs
  <2>2. CASE /\ KernelDone /\ Keeps
             /\ runner' = [runner EXCEPT ![r] =
                   [runner[r] EXCEPT !.id = kernel'.proposal.id, !.step = "sourced"]]
    <3>1. Opens(runner[r].app, kernel.proposal.status) /\ UNCHANGED strays
      BY <2>1, <2>2 DEF KernelDone, KernelStays, Keeps
    <3> QED
      BY <1>1, <1>2, <2>1, <2>2, <3>1, Proposed
  <2>3. CASE KernelFailed /\ End(r) /\ Strays
    BY <1>1, <2>1, <2>3 DEF Strays, StraysIf
  <2> QED
    BY <1>4, <1>5, <2>2, <2>3 DEF supersedeWithSource
<1>6. CASE ~canSupersede(kernel, runner[r].id) /\ Steady /\ NoKernelStep /\ End(r)
  BY <1>1, <1>6, QuietIs
<1> QED
  BY <1>4, <1>5, <1>6 DEF supersedeWithSource

LEMMA RestoreCapsuleIs ==
    ASSUME Typed, NEW r \in Runners, restoreCapsule(r)
    PROVE  /\ runner[r].step = "restoringCapsule" /\ UNCHANGED <<strays, catalog, asked>>
           /\ \/ Presented(runner[r].presentation) /\ Go(r, "restoringCatalog")
              \/ /\ Fault /\ NoKernelStep /\ UNCHANGED <<presentation, bindings>>
                 /\ \E run \in Runs :
                       /\ runner' = [runner EXCEPT ![r] = run]
                       /\ run.step = "restoringCatalog" /\ run.failed
                       /\ run.id = runner[r].id /\ run.app = runner[r].app
                       /\ run.local = runner[r].local /\ run.alone = runner[r].alone
                       /\ run.presentation = runner[r].presentation
                       /\ run.catalog = runner[r].catalog /\ run.shown = runner[r].shown
<1>1. /\ runner[r].step = "restoringCapsule" /\ UNCHANGED <<strays, catalog, asked>>
  BY DEF restoreCapsule, Keeps, CatalogAndAsked
<1> DEFINE run == [runner[r] EXCEPT !.step = "restoringCatalog", !.failed = TRUE]
<1>2. "restoringCatalog" \in Steps /\ runner[r] \in Runs
  BY DEF Steps, Decisions, Typed
<1>3. /\ run \in Runs /\ run.step = "restoringCatalog" /\ run.failed
      /\ run.id = runner[r].id /\ run.app = runner[r].app
      /\ run.local = runner[r].local /\ run.alone = runner[r].alone
      /\ run.presentation = runner[r].presentation
      /\ run.catalog = runner[r].catalog /\ run.shown = runner[r].shown
  BY <1>2 DEF Runs
<1>4. \/ Presented(runner[r].presentation) /\ Go(r, "restoringCatalog")
      \/ /\ Fault /\ NoKernelStep /\ UNCHANGED <<presentation, bindings>>
         /\ runner' = [runner EXCEPT ![r] = run]
  BY DEF restoreCapsule, KeepsCapsules
<1> HIDE DEF run
<1> QED
  BY <1>1, <1>3, <1>4

LEMMA EndTurnIs ==
    ASSUME Typed, endTurn
    PROVE  /\ Command.step = "turn" /\ UNCHANGED <<strays, presentation, bindings, catalog, asked>>
           /\ NoKernelStep /\ Steady
           /\ \/ End("command")
              \/ \E run : /\ runner' = [runner EXCEPT !["command"] = run]
                          /\ run \in Runs /\ run.step = "tidying"
                          /\ run.local = Command.local /\ run.alone = Command.alone
                          /\ run.presentation = Command.presentation
                          /\ run.shown = Command.shown
<1>1. /\ Command.step = "turn" /\ UNCHANGED <<strays, presentation, bindings, catalog, asked>>
      /\ NoKernelStep /\ Steady
  BY DEF endTurn, Command, Keeps, KeepsCapsules, CatalogAndAsked
<1>2. ASSUME NEW app \in Capsules,
             runner' = [runner EXCEPT !["command"] = [Command EXCEPT !.step = "tidying", !.app = app]]
      PROVE  \E run : /\ runner' = [runner EXCEPT !["command"] = run]
                      /\ run \in Runs /\ run.step = "tidying"
                      /\ run.local = Command.local /\ run.alone = Command.alone
                      /\ run.presentation = Command.presentation
                      /\ run.shown = Command.shown
  <2> DEFINE run == [Command EXCEPT !.step = "tidying", !.app = app]
  <2>1. "tidying" \in Steps /\ Command \in Runs
    BY DEF Steps, Turns, Typed, Command, Runners
  <2>2. /\ run \in Runs /\ run.step = "tidying"
        /\ run.local = Command.local /\ run.alone = Command.alone
        /\ run.presentation = Command.presentation /\ run.shown = Command.shown
    BY <2>1 DEF Runs
  <2> HIDE DEF run
  <2> QED
    BY <1>2, <2>2 DEF run
<1> QED
  BY <1>1, <1>2 DEF endTurn, Capsules, Command

------------------------------------------------------------------------------
(* How commands and imports begin to stage *)

\* What start, the staging of a turn's app and the start of an import leave alone.
StartLeaves == UNCHANGED <<kernel, journal, inDoubt, presentation, bindings, catalog>>

LEMMA StartKeeps ==
    ASSUME KernelTyped, Typed, start
    PROVE  /\ StartLeaves /\ KernelTyped' /\ UNCHANGED strays
           /\ asked \subseteq asked'
           /\ Import' = Import /\ Command.step = "idle"
           /\ Command' \in Runs /\ Starts(Command')
           /\ Command'.step = "promoting" => presentation.candidate \in asked'
<1>1. PICK run \in Runs : runner' = [runner EXCEPT !["command"] = run] /\ Starts(run)
  BY StartIsOne
<1>2. Command' = run /\ Import' = Import
  BY <1>1 DEF Command, Import, Typed, Runners
<1>3. StartLeaves /\ KernelTyped' /\ UNCHANGED strays
  BY QuietIs DEF start, KeepsCapsules, Keeps, StartLeaves
<1>4. asked \subseteq asked' /\ (Command'.step = "promoting" => presentation.candidate \in asked')
  BY DEF start, Command
<1>5. Command.step = "idle"
  BY StartIsOne, IdleTyped
<1> QED
  BY <1>1, <1>2, <1>3, <1>4, <1>5

LEMMA ShapeAppKeeps ==
    ASSUME KernelTyped, Typed, shapeApp
    PROVE  /\ StartLeaves /\ KernelTyped' /\ UNCHANGED strays
           /\ asked \subseteq asked' /\ Command.app \in Apps /\ Command.app \in asked' \union Blocked
           /\ Import' = Import /\ Command.step = "shaping"
           /\ Command' \in Runs /\ Stages(Command', Command.app, TRUE)
<1>1. Command.app \in Apps
  BY DEF shapeApp, Command, Typed, Runners, Runs, Capsules
<1>2. \E run : runner' = [runner EXCEPT !["command"] = run] /\ Stages(run, Command.app, TRUE)
  <2>1. CASE stage("command", Command.app, TRUE)
    BY <1>1, <2>1, StageIs
  <2>2. CASE End("command")
    BY <2>2, IdleTyped DEF End, Stages
  <2> QED
    BY <2>1, <2>2 DEF shapeApp, Command
<1>3. PICK run : runner' = [runner EXCEPT !["command"] = run] /\ Stages(run, Command.app, TRUE)
  BY <1>2
<1>4. Command' = run /\ Import' = Import /\ run \in Runs
  BY <1>3 DEF Command, Import, Typed, Runners, Stages
<1>5. StartLeaves /\ KernelTyped' /\ UNCHANGED strays
  BY QuietIs DEF shapeApp, KeepsCapsules, Keeps, StartLeaves
<1>6. asked' = asked \union ({Command.app} \ Blocked) /\ Command.step = "shaping"
  BY DEF shapeApp, Command
<1> QED
  BY <1>1, <1>3, <1>4, <1>5, <1>6

LEMMA StartImportKeeps ==
    ASSUME KernelTyped, Typed, startImport
    PROVE  /\ StartLeaves /\ KernelTyped' /\ UNCHANGED asked
           /\ strays' = strays \union {"import"}
           /\ Command' = Command /\ Command.step = "turn"
           /\ \E app \in Apps : Import' \in Runs /\ Stages(Import', app, FALSE)
<1>1. PICK app \in Imported : stage("import", app, FALSE)
  BY DEF startImport
<1>2. app \in Apps
  BY ActivationAssumption
<1>3. PICK run : runner' = [runner EXCEPT !["import"] = run] /\ Stages(run, app, FALSE)
  BY <1>1, <1>2, StageIs
<1>4. Command' = Command /\ Import' = run /\ run \in Runs
  BY <1>3 DEF Command, Import, Typed, Runners, Stages
<1>5. StartLeaves /\ KernelTyped' /\ UNCHANGED asked
  BY QuietIs DEF startImport, KeepsCapsules, StartLeaves, CatalogAndAsked
<1>6. strays' = strays \union {"import"} /\ Command.step = "turn"
  BY DEF startImport, StraysIf, Command
<1> QED
  BY <1>2, <1>3, <1>4, <1>5, <1>6

------------------------------------------------------------------------------
(* Types *)

\* A runner that carries what it may keeps the types.
LEMMA RunTyped ==
    ASSUME Typed, NEW r \in Runners, NEW run \in Runs, runner' = [runner EXCEPT ![r] = run],
           UNCHANGED <<presentation, bindings, catalog>>,
           r = "import" => run.step \in ImportSteps /\ ~run.local,
           run.step \in {"staging", "staged", "applying"} \union Proposing => run.app \in Apps
    PROVE  Typed'
<1>1. runner' \in [Runners -> Runs]
  BY DEF Typed
<1>2. Import'.step \in ImportSteps /\ ~Import'.local
  BY DEF Typed, Import, Runners
<1>3. \A other \in Runners :
        runner'[other].step \in {"staging", "staged", "applying"} \union Proposing =>
          runner'[other].app \in Apps
  BY DEF Typed
<1> QED
  BY <1>1, <1>2, <1>3 DEF Typed

LEMMA IdleRunTyped ==
    ASSUME Typed, NEW r \in Runners, End(r), UNCHANGED <<presentation, bindings, catalog>>
    PROVE  Typed'
  BY RunTyped, IdleTyped DEF End, ImportSteps, Proposing

LEMMA DecidesTyped ==
    ASSUME Typed, acceptProposal("command"), KernelTyped,
           UNCHANGED <<presentation, bindings, catalog>>
    PROVE  Typed'
<1>1. "command" \in Runners
  BY DEF Runners
<1>2. CASE End("command")
  BY <1>1, <1>2, IdleRunTyped
<1>3. ASSUME NEW run, runner' = [runner EXCEPT !["command"] = run], Decides(run, "promoting")
      PROVE  Typed'
  BY <1>1, <1>3, RunTyped DEF Decides, Proposing
<1> QED
  BY <1>2, <1>3, AcceptIs DEF End

LEMMA ProposeAppTyped ==
    ASSUME KernelTyped, Typed, NEW r \in Runners, proposeApp(r)
    PROVE  Typed'
<1>1. UNCHANGED <<presentation, bindings, catalog>> /\ runner[r].step = "staging"
  BY ProposeAppIs
<1>2. CASE End(r)
  BY <1>1, <1>2, IdleRunTyped
<1>3. ASSUME NEW run, runner' = [runner EXCEPT ![r] = run],
             Proposes(run, r, IF isDeferred(r) THEN "proposed" ELSE "previewing")
      PROVE  Typed'
  <2>1. /\ run \in Runs /\ run.step \in Proposing /\ run.local = runner[r].local
        /\ run.app \in Apps
    BY <1>1, <1>3 DEF Proposes, GoesOn, Typed, Proposing
  <2> QED
    BY <1>1, <1>3, <2>1, RunTyped DEF ImportSteps, Typed, Import
<1> QED
  BY <1>2, <1>3, ProposeAppIs

LEMMA SupersedeWithSourceTyped ==
    ASSUME KernelTyped, Typed, NEW r \in Runners, supersedeWithSource(r)
    PROVE  Typed'
<1>1. UNCHANGED <<presentation, bindings, catalog>> /\ runner[r].step = "proposed"
  BY SupersedeWithSourceIs
<1>2. CASE End(r)
  BY <1>1, <1>2, IdleRunTyped
<1>3. ASSUME NEW run, runner' = [runner EXCEPT ![r] = run], Proposes(run, r, "sourced")
      PROVE  Typed'
  <2>1. /\ run \in Runs /\ run.step \in Proposing /\ run.local = runner[r].local
        /\ run.app \in Apps
    BY <1>1, <1>3 DEF Proposes, GoesOn, Typed, Proposing
  <2> QED
    BY <1>1, <1>3, <2>1, RunTyped DEF ImportSteps, Typed, Import
<1> QED
  BY <1>2, <1>3, SupersedeWithSourceIs

LEMMA FinishStagingTyped ==
    ASSUME KernelTyped, Typed, Alone, NEW r \in Runners, finishStaging(r)
    PROVE  Typed'
<1>1. UNCHANGED <<presentation, bindings, catalog>>
  BY DEF finishStaging, KeepsCapsules, CatalogAndAsked
<1>2. CASE End(r)
  BY <1>1, <1>2, IdleRunTyped
<1>3. CASE acceptsItself(r)
  <2>1. r = "command"
    BY <1>3 DEF acceptsItself, Typed, Import, Runners
  <2> QED
    BY <1>1, <1>3, <2>1, DecidesTyped DEF finishStaging
<1> QED
  BY <1>2, <1>3 DEF finishStaging

LEMMA AcceptShapedTyped ==
    ASSUME KernelTyped, Typed, acceptShaped
    PROVE  Typed'
  BY DecidesTyped DEF acceptShaped, KeepsCapsules, CatalogAndAsked

LEMMA RestoreCapsuleTyped ==
    ASSUME Typed, restoreCapsule("command")
    PROVE  Typed'
<1>1. "command" \in Runners /\ runner["command"] \in Runs
  BY DEF Runners, Typed
<1>2. UNCHANGED catalog
  BY <1>1, RestoreCapsuleIs
<1>3. CASE Presented(runner["command"].presentation) /\ Go("command", "restoringCatalog")
  <2>1. presentation' \in Presentations /\ bindings' \in Presentations
    BY <1>1, <1>3 DEF Presented, Runs
  <2>2. /\ runner' = [runner EXCEPT !["command"].step = "restoringCatalog"]
        /\ "restoringCatalog" \in Steps
    BY <1>3 DEF Go, Steps, Decisions
  <2> QED
    BY <1>1, <1>2, <2>1, <2>2 DEF Typed, Runs, Import, Runners, Proposing
<1>4. ASSUME UNCHANGED <<presentation, bindings>>, NEW run \in Runs,
             runner' = [runner EXCEPT !["command"] = run], run.step = "restoringCatalog"
      PROVE  Typed'
  BY <1>1, <1>2, <1>4, RunTyped DEF Proposing
<1> QED
  BY <1>1, <1>3, <1>4, RestoreCapsuleIs

LEMMA EndTurnTyped ==
    ASSUME Typed, endTurn
    PROVE  Typed'
<1>1. "command" \in Runners /\ UNCHANGED <<presentation, bindings, catalog>>
  BY EndTurnIs DEF Runners
<1>2. CASE End("command")
  BY <1>1, <1>2, IdleRunTyped
<1>3. ASSUME NEW run, runner' = [runner EXCEPT !["command"] = run], run \in Runs,
             run.step = "tidying"
      PROVE  Typed'
  BY <1>1, <1>3, RunTyped DEF Proposing
<1> QED
  BY <1>2, <1>3, EndTurnIs

LEMMA StartTyped ==
    ASSUME KernelTyped, Typed, start
    PROVE  Typed'
<1>1. UNCHANGED <<presentation, bindings, catalog>> /\ "command" \in Runners
  BY StartKeeps DEF StartLeaves, Runners
<1>2. PICK run \in Runs : runner' = [runner EXCEPT !["command"] = run] /\ Starts(run)
  BY StartIsOne
<1>3. run.step \in {"staging", "staged", "applying"} \union Proposing => run.app \in Apps
  BY <1>2 DEF Starts, Decides, Proposing
<1> QED
  BY <1>1, <1>2, <1>3, RunTyped

LEMMA ShapeAppTyped ==
    ASSUME KernelTyped, Typed, shapeApp
    PROVE  Typed'
<1>1. /\ UNCHANGED <<presentation, bindings, catalog>> /\ Command.app \in Apps
      /\ Import' = Import /\ Command' \in Runs /\ Stages(Command', Command.app, TRUE)
  BY ShapeAppKeeps DEF StartLeaves
<1>2. \E run : runner' = [runner EXCEPT !["command"] = run]
  BY DEF shapeApp, End, stage
<1>3. PICK run : runner' = [runner EXCEPT !["command"] = run]
  BY <1>2
<1>4. "command" \in Runners /\ run = Command'
  BY <1>3 DEF Runners, Typed, Command
<1>5. run.step \in {"staging", "staged", "applying"} \union Proposing => run.app \in Apps
  BY <1>1, <1>4 DEF Stages, Proposing
<1> QED
  BY <1>1, <1>3, <1>4, <1>5, RunTyped

LEMMA StartImportTyped ==
    ASSUME KernelTyped, Typed, startImport
    PROVE  Typed'
<1>1. UNCHANGED <<presentation, bindings, catalog>> /\ "import" \in Runners
  BY StartImportKeeps DEF StartLeaves, Runners
<1>2. PICK app \in Imported : stage("import", app, FALSE)
  BY DEF startImport
<1>3. app \in Apps
  BY ActivationAssumption
<1>4. PICK run : runner' = [runner EXCEPT !["import"] = run] /\ Stages(run, app, FALSE)
  BY <1>2, <1>3, StageIs
<1>5. /\ run \in Runs /\ run.step \in ImportSteps /\ ~run.local
      /\ run.step \in {"staging", "staged", "applying"} \union Proposing => run.app \in Apps
  BY <1>3, <1>4 DEF Stages, ImportSteps, Proposing
<1> QED
  BY <1>1, <1>4, <1>5, RunTyped

------------------------------------------------------------------------------
(* The steps after which the page follows the kernel for more than one reason *)

LEMMA InstallRevisionFollows ==
    ASSUME KernelTyped, Typed, Alone, Follows, NEW r \in Runners, installRevision(r)
    PROVE  Follows'
<1>1. UNCHANGED <<strays, presentation, bindings>>
  BY DEF installRevision, Keeps, KeepsCapsules
<1>2. SUFFICES ASSUME strays = {}
               PROVE  Follows'
  BY <1>1 DEF Follows
<1>3. r = "command"
  BY <1>2 DEF installRevision, Alone, Import, Runners
<1>4. /\ Command.step = "applying" /\ Command.app \in Apps
      /\ Fits(Command.presentation) /\ bindings = presentation
      /\ presentation = installed(Command.presentation, Command.app)
      /\ ~kernel.safeMode /\ (inDoubt \/ Mirrors)
  BY <1>2, <1>3 DEF installRevision, Follows, Typed, Command, Runners
<1>5. KernelStays \/ Accepts(Command.app)
  BY <1>3, <1>4, ApplyIs, ActivationAssumption DEF installRevision, Sources, Command
<1>6. CASE KernelDone /\ End(r)
  <2>1. Accepts(Command.app)
    BY <1>5, <1>6 DEF KernelDone, KernelStays
  <2>2. Command' = Idle
    BY <1>3, <1>6 DEF End, Command, Typed, Runners
  <2>3. /\ presentation'.accepted = AppOf(kernel'.active)
        /\ presentation'.candidate = AppOf(kernel'.proposal)
        /\ presentation'.lastKnownGood = AppOf(kernel'.lastKnownGood)
    BY <1>1, <1>4, <2>1, AppOfIs DEF Accepts, installed, Fits
  <2> QED
    BY <1>1, <1>4, <2>1, <2>2, <2>3, IdleTyped DEF Follows, Fits, Accepts, Undecided, Turns,
       Proposing, AppOf
<1>7. CASE KernelFailed /\ Go(r, "restoring")
  <2>1. Command' = [Command EXCEPT !.step = "restoring"] /\ Command \in Runs
    BY <1>3, <1>7 DEF Go, Command, Typed, Runners
  <2>2. kernel' = kernel /\ ((inDoubt \/ Mirrors)')
    BY <1>4, <1>5, <1>7 DEF KernelFailed, KernelStays, Accepts, Mirrors
  <2> QED
    BY <1>1, <1>4, <2>1, <2>2 DEF Follows, Fits, Undecided, Turns, Proposing, Runs, AppOf
<1> QED
  BY <1>6, <1>7 DEF installRevision

LEMMA ProposeAppFollows ==
    ASSUME KernelTyped, Typed, Alone, Follows, NEW r \in Runners, proposeApp(r)
    PROVE  Follows'
<1>1. UNCHANGED <<strays, presentation, bindings>>
  BY ProposeAppIs
<1>2. SUFFICES ASSUME strays = {}
               PROVE  Follows'
  BY <1>1 DEF Follows
<1>3. r = "command"
  BY <1>2, ProposeAppIs DEF Alone, Import, Runners
<1>4. /\ Command.step = "staging" /\ Command.app \in Apps
      /\ Fits(presentation) /\ bindings = presentation
      /\ ~kernel.safeMode /\ (inDoubt \/ Mirrors)
  BY <1>2, <1>3, ProposeAppIs DEF Follows, Typed, Command, Runners
<1>5. CASE KernelStays /\ End(r)
  <2>1. Command' = Idle
    BY <1>3, <1>5 DEF End, Command, Typed, Runners
  <2>2. kernel' = kernel /\ (inDoubt \/ Mirrors)'
    BY <1>4, <1>5 DEF KernelStays, Mirrors
  <2> QED
    BY <1>1, <1>4, <2>1, <2>2, IdleTyped DEF Follows, Fits, Undecided, Turns, Proposing, AppOf
<1>6. ASSUME kernel.proposal = NoRevision, Opens(Command.app, "proposed"),
             NEW run, runner' = [runner EXCEPT ![r] = run],
             Proposes(run, r, IF isDeferred(r) THEN "proposed" ELSE "previewing")
      PROVE  Follows'
  <2>1. /\ Command'.step \in {"proposed", "previewing"}
        /\ Command'.app = Command.app /\ Command'.id = kernel'.proposal.id
    BY <1>3, <1>6 DEF Proposes, GoesOn, Command, Typed, Runners
  <2>2. presentation.candidate = NoApp
    BY <1>4, <1>6, AppOfIs DEF Fits
  <2>3. /\ AppOf(kernel'.active) = AppOf(kernel.active) /\ AppOf(kernel'.proposal) = Command.app
        /\ kernel'.active = kernel.active /\ kernel'.lastKnownGood = kernel.lastKnownGood
        /\ kernel'.proposal # NoRevision /\ kernel'.proposal.status = "proposed"
        /\ ~kernel'.safeMode /\ Mirrors'
    BY <1>4, <1>6, AppOfIs DEF Opens
  <2>4. Fits([presentation EXCEPT !.candidate = Command.app])'
    BY <1>1, <1>4, <2>1, <2>3 DEF Fits, Typed, Presentations, AppOf
  <2> QED
    BY <1>1, <1>4, <2>1, <2>2, <2>3, <2>4 DEF Follows, Undecided, Turns, Proposing, isProposal
<1> QED
  BY <1>3, <1>5, <1>6, ProposeAppIs DEF Command

\* A proposal of that app that the page does not show yet.
LEMMA OpenedFollows ==
    ASSUME KernelTyped, Typed, strays = {}, Follows, Command.step \in Proposing,
           UNCHANGED <<presentation, bindings>>,
           NEW status, Opens(kernel.proposal.document, status) \/ Opens(Command.app, status),
           Command' \in Runs, Command'.step \in {"proposed", "sourced"},
           Command'.app = Command.app, Command'.id = kernel'.proposal.id
    PROVE  Follows'
<1>1. /\ Command.app \in Apps
      /\ Fits([presentation EXCEPT !.candidate = Command.app])
      /\ presentation.candidate = NoApp /\ bindings = presentation
  BY DEF Follows, Typed, Command, Runners, Proposing
<1>2. AppOf(kernel.proposal) = Command.app
  BY <1>1 DEF Fits, Typed, Presentations
<1>3. /\ AppOf(kernel'.proposal) = Command.app
      /\ kernel'.active = kernel.active /\ kernel'.lastKnownGood = kernel.lastKnownGood
      /\ kernel'.proposal # NoRevision /\ ~kernel'.safeMode /\ Mirrors'
  BY <1>1, <1>2, AppOfIs DEF Opens
<1>4. Fits([presentation EXCEPT !.candidate = Command.app])'
  BY <1>1, <1>3 DEF Fits, Typed, Presentations, AppOf
<1> QED
  BY <1>1, <1>3, <1>4 DEF Follows, Undecided, Turns, Proposing, isProposal

\* The proposal whose app the page did not show yet is closed.
LEMMA AbandonedFollows ==
    ASSUME KernelTyped, Typed, strays = {}, Follows, Command.step \in Proposing,
           UNCHANGED <<presentation, bindings>>, Closes, Command' = Idle
    PROVE  Follows'
<1>1. /\ Command.app \in Apps
      /\ Fits([presentation EXCEPT !.candidate = Command.app])
      /\ presentation.candidate = NoApp /\ bindings = presentation /\ ~kernel.safeMode
  BY DEF Follows, Typed, Command, Runners, Proposing
<1>2. Fits(presentation)'
  BY <1>1, AppOfIs DEF Fits, Typed, Presentations, Closes, AppOf
<1> QED
  BY <1>1, <1>2, IdleTyped DEF Follows, Closes, Undecided, Turns, Proposing

LEMMA PreviewAppFollows ==
    ASSUME KernelTyped, Typed, Alone, Follows, NEW r \in Runners, previewApp(r)
    PROVE  Follows'
<1>1. UNCHANGED <<presentation, bindings>>
  BY DEF previewApp, KeepsCapsules
<1>2. SUFFICES ASSUME strays' = {}
               PROVE  Follows'
  BY DEF Follows
<1>3. strays = {}
  BY <1>2 DEF previewApp, Keeps, Strays, StraysIf
<1>4. r = "command"
  BY <1>3 DEF previewApp, Alone, Import, Runners
<1>5. /\ Command.step = "previewing" /\ Command \in Runs
      /\ isProposal(kernel, Command.id) /\ kernel.proposal.status = "proposed"
  BY <1>3, <1>4 DEF previewApp, Follows, Typed, Command, Runners, Proposing
<1>6. canPreview(kernel, Command.id)
  BY <1>5 DEF canPreview
<1>7. /\ Kernel!preview /\ KernelDone
      /\ Command' = [Command EXCEPT !.step = "proposed"]
  BY <1>2, <1>4, <1>6 DEF previewApp, Go, Command, Strays, StraysIf, Typed, Runners
<1>8. /\ Opens(kernel.proposal.document, "previewed")
      /\ kernel'.proposal.id = Command.id
  BY <1>5, <1>7, PreviewIs DEF KernelDone, KernelStays, isProposal
<1>9. /\ Command' \in Runs /\ Command'.step = "proposed"
      /\ Command'.app = Command.app /\ Command'.id = kernel'.proposal.id
  BY <1>5, <1>7, <1>8 DEF Runs, Steps, ImportSteps, Proposing
<1> QED
  BY <1>1, <1>3, <1>5, <1>8, <1>9, OpenedFollows DEF Proposing

LEMMA SupersedeWithSourceFollows ==
    ASSUME KernelTyped, Typed, Alone, Follows, NEW r \in Runners, supersedeWithSource(r)
    PROVE  Follows'
<1>1. UNCHANGED <<presentation, bindings>> /\ strays' \in {strays, strays \union {"step"}}
  BY SupersedeWithSourceIs
<1>2. SUFFICES ASSUME strays' = {}
               PROVE  Follows'
  BY DEF Follows
<1>3. strays = {}
  BY <1>1, <1>2
<1>4. r = "command"
  BY <1>3, SupersedeWithSourceIs DEF Alone, Import, Runners
<1>5. /\ Command.step = "proposed" /\ Command.app \in Apps /\ isProposal(kernel, Command.id)
      /\ ~kernel.safeMode
  BY <1>3, <1>4, SupersedeWithSourceIs DEF Follows, Typed, Command, Runners, Proposing
<1>6. CASE Closes /\ End(r)
  <2>1. Command' = Idle
    BY <1>4, <1>6 DEF End, Command, Typed, Runners
  <2> QED
    BY <1>1, <1>3, <1>5, <1>6, <2>1, AbandonedFollows DEF Proposing
<1>7. ASSUME Opens(Command.app, kernel.proposal.status), NEW run,
             runner' = [runner EXCEPT ![r] = run], Proposes(run, r, "sourced")
      PROVE  Follows'
  <2>1. /\ Command' \in Runs /\ Command'.step = "sourced"
        /\ Command'.app = Command.app /\ Command'.id = kernel'.proposal.id
    BY <1>4, <1>7 DEF Proposes, GoesOn, Command, Typed, Runners
  <2> QED
    BY <1>1, <1>3, <1>5, <1>7, <2>1, OpenedFollows DEF Proposing
<1>8. canSupersede(kernel, Command.id)
  BY <1>5 DEF canSupersede, isProposal, KernelTyped, Sound, CandidateIsSound
<1> QED
  BY <1>2, <1>4, <1>6, <1>7, <1>8, SupersedeWithSourceIs DEF Command

LEMMA RollbackRevisionFollows ==
    ASSUME KernelTyped, Typed, Alone, Follows, rollbackRevision("command")
    PROVE  Follows'
<1>1. UNCHANGED <<strays, presentation, bindings>>
  BY DEF rollbackRevision, Keeps, KeepsCapsules
<1>2. SUFFICES ASSUME strays = {}
               PROVE  Follows'
  BY <1>1 DEF Follows
<1>4. /\ Command.step = "rollingBack" /\ Command \in Runs
      /\ Fits(Command.presentation) /\ bindings = presentation
      /\ presentation = undone(Command.presentation)
      /\ ~kernel.safeMode /\ (inDoubt \/ Mirrors)
  BY <1>2 DEF rollbackRevision, Follows, Typed, Command, Runners
<1>5. CASE kernel' = kernel /\ (inDoubt \/ Mirrors)' /\ Go("command", "restoring")
  <2>1. Command' = [Command EXCEPT !.step = "restoring"]
    BY <1>5 DEF Go, Command, Typed, Runners
  <2> QED
    BY <1>1, <1>4, <1>5, <2>1 DEF Follows, Fits, Undecided, Turns, Proposing, Runs, AppOf
<1>6. CASE canRollback(kernel) /\ Kernel!rollback
  <2>1. KernelStays \/ Returns
    BY <1>6, RollbackIs
  <2>2. CASE KernelDone /\ End("command")
    <3>1. Returns /\ kernel.active.id # kernel.lastKnownGood.id
      BY <1>6, <2>1, <2>2 DEF KernelDone, KernelStays, canRollback, isRollbackAvailable,
         snapshotFromState
    <3>2. Command' = Idle
      BY <2>2 DEF End, Command, Typed, Runners
    <3>3. /\ presentation'.accepted = AppOf(kernel'.active)
          /\ presentation'.candidate = AppOf(kernel'.proposal)
          /\ kernel'.active.id = kernel'.lastKnownGood.id
      BY <1>1, <1>4, <3>1, AppOfIs DEF Returns, undone, Fits
    <3> QED
      BY <1>1, <1>4, <3>1, <3>2, <3>3, IdleTyped DEF Follows, Fits, Returns, Undecided, Turns,
         Proposing, AppOf
  <2>3. CASE KernelFailed /\ Go("command", "restoring")
    BY <1>4, <1>5, <2>1, <2>3 DEF KernelFailed, KernelStays, Returns, Mirrors
  <2> QED
    BY <1>6, <2>2, <2>3 DEF rollbackRevision
<1>7. CASE ~canRollback(kernel)
  BY <1>4, <1>5, <1>7 DEF rollbackRevision, NoKernelStep, OtherKernelVars, Mirrors
<1> QED
  BY <1>6, <1>7 DEF rollbackRevision

\* A reload finds the kernel's documents in the journal, unless it strays.
LEMMA ReloadFollows ==
    ASSUME KernelTyped, Typed, Follows, reload
    PROVE  Follows'
<1> DEFINE state == initialState(Kernel!load)
<1>1. SUFFICES ASSUME strays' = {}
               PROVE  Follows'
  BY DEF Follows
<1>2. /\ strays = {} /\ runner = [r \in Runners |-> Idle] /\ ~inDoubt /\ faults' = faults
      /\ ~kernel'.safeMode /\ Command' = Idle
      /\ presentation' = loadedBindings(kernel'.proposal) /\ bindings' = presentation'
  BY <1>1 DEF reload, Reloaded, StraysIf, Command, Runners
<1>3. Kernel!Restart
  BY <1>2, UnreadableIs DEF reload
<1>4. Command.step = "idle"
  BY <1>2, IdleTyped DEF Command, Runners
<1>5. /\ Mirrors /\ bindings = presentation /\ presentation \in Presentations
      /\ presentation.accepted = AppOf(kernel.active)
      /\ presentation.candidate = AppOf(kernel.proposal)
      /\ kernel.active.id # kernel.lastKnownGood.id =>
           presentation.lastKnownGood = AppOf(kernel.lastKnownGood)
  BY <1>2, <1>4 DEF Follows, Fits, Typed
<1>6. /\ kernel' = StartOf(Kernel!load) /\ KernelTyped'
      /\ \/ journal' = snapshotFromState(kernel')
         \/ journal' = journal /\ ~isPending(state)
  BY <1>2, <1>3, RestartIs
<1>7. Loads(Kernel!load) /\ (~Kernel!load.recovered => Kernel!load.snapshot = journal)
  BY LoadIs
<1>8. /\ kernel'.active = state.active /\ kernel'.lastKnownGood = state.lastKnownGood
      /\ kernel'.proposal.document = state.proposal.document
      /\ ~isPending(state) => kernel' = state
      /\ ~state.safeMode
  BY <1>2, <1>6, <1>7, StartIs
<1>9. /\ journal = NoSnapshot =>
           state.active = InitialRevision /\ state.lastKnownGood = InitialRevision
             /\ state.proposal = NoRevision
      /\ journal # NoSnapshot =>
           state.active = journal.active /\ state.lastKnownGood = journal.lastKnownGood
             /\ state.proposal = journal.proposal
  BY <1>7, <1>8, LoadedState
<1> HIDE DEF state
<1>10. Mirrors'
  <2>1. CASE journal' = snapshotFromState(kernel')
    BY <2>1 DEF Mirrors, snapshotFromState
  <2>2. CASE journal' = journal /\ kernel' = state
    BY <1>9, <2>2 DEF Mirrors
  <2> QED
    BY <1>6, <1>8, <2>1, <2>2
<1>11. /\ AppOf(kernel'.active) = AppOf(kernel.active)
       /\ AppOf(kernel'.proposal) = AppOf(kernel.proposal)
       /\ kernel'.active.id # kernel'.lastKnownGood.id =>
            /\ kernel'.lastKnownGood = kernel.lastKnownGood
            /\ kernel.active.id # kernel.lastKnownGood.id
  <2>1. CASE journal = NoSnapshot
    <3>1. kernel.active \in {NoRevision, InitialRevision} /\ kernel.proposal = NoRevision
      BY <1>5, <2>1 DEF Mirrors, NoSnapshot
    <3> QED
      BY <1>8, <1>9, <2>1, <3>1, AppOfIs
  <2>2. CASE journal # NoSnapshot
    BY <1>5, <1>8, <1>9, <2>2, AppOfIs DEF Mirrors
  <2> QED
    BY <2>1, <2>2
<1>12. Fits(presentation)'
  <2>1. /\ presentation'.accepted = presentation.accepted
        /\ presentation'.lastKnownGood = presentation.lastKnownGood
        /\ presentation'.candidate = presentation.candidate
    BY <1>2, <1>5, <1>11, AppOfIs DEF loadedBindings, withoutCandidate, Presentations
  <2> QED
    BY <1>5, <1>11, <2>1 DEF Fits, AppOf
<1> QED
  BY <1>2, <1>10, <1>12, IdleTyped DEF Follows, Undecided, Turns, Proposing

------------------------------------------------------------------------------
(* Every action preserves the invariant.  The operators that say how a step      *)
(* runs, presents and records are expanded from here on. *)

USE DEF Go, End, Presented, NotPresented, Cataloged, NotCataloged, Keeps, Strays, StraysIf,
KeepsCapsules, CatalogAndAsked, Command, Import, Runners, Runs, Steps, ImportSteps, Proposing,
Decisions, Undecided, Turns, Presentations, Capsules

LEMMA InstallPresentationInv == ASSUME Inv, NEW r \in Runners, installPresentation(r) PROVE Inv'
<1> USE DEF Inv
<1>1. /\ UNCHANGED <<strays, catalog, asked>>
      /\ runner[r].step = "staging" /\ isInstalled(r)
  BY InstallPresentationIs
<1>2. ASSUME Presented(installed(presentation, runner[r].app)), NEW run,
             runner' = [runner EXCEPT ![r] = run], Remembers(run, r, "applying")
      PROVE  Inv'
  <2>1. KernelTyped' /\ UNCHANGED <<kernel, journal, inDoubt>>
    BY <1>2, QuietIs
  <2>2. /\ presentation' = installed(presentation, runner[r].app)
        /\ bindings' = installed(presentation, runner[r].app)
    BY <1>2
  <2>3. Typed'
    BY <1>1, <1>2, <2>1, <2>2 DEF Remembers, GoesOn, Typed, installed, isInstalled
  <2>4. Alone'
    BY <1>1, <1>2, <2>1, <2>2 DEF Remembers, GoesOn, Typed, Alone, installed, isInstalled
  <2>5. ReviewedOnly'
    BY <1>1, <1>2, <2>1, <2>2 DEF Remembers, GoesOn, Typed, Alone, ReviewedOnly, Reviewed, Decent,
       installed, isInstalled
  <2>6. StaysBound'
    BY <1>1, <1>2, <2>1, <2>2 DEF Remembers, GoesOn, Typed, StaysBound, shownAndBound, installed,
       isInstalled
  <2>7. PutsBack'
    BY <1>1, <1>2, <2>1, <2>2 DEF Remembers, GoesOn, Typed, Alone, PutsBack, installed,
       isInstalled
  <2>8. Follows'
    BY <1>1, <1>2, <2>1, <2>2, AppOfIs, SourcesIs DEF Remembers, GoesOn, Typed, Alone, Follows,
       Fits, Mirrors, AppOf, ReviewedOnly, installed, isInstalled
  <2> QED
    BY <2>1, <2>3, <2>4, <2>5, <2>6, <2>7, <2>8
<1>3. CASE NotPresented /\ End(r)
  <2>1. KernelTyped' /\ UNCHANGED <<kernel, journal, inDoubt>>
    BY <1>3, QuietIs
  <2>2. Typed'
    BY <1>1, <1>3, <2>1, IdleTyped DEF Typed
  <2>3. Alone'
    BY <1>1, <1>3, <2>1, IdleTyped DEF Typed, Alone
  <2>4. ReviewedOnly'
    BY <1>1, <1>3, <2>1, IdleTyped DEF Typed, Alone, ReviewedOnly, Reviewed, Decent
  <2>5. StaysBound'
    BY <1>1, <1>3, <2>1, IdleTyped DEF Typed, StaysBound, shownAndBound
  <2>6. PutsBack'
    BY <1>1, <1>3, <2>1, IdleTyped DEF Typed, Alone, PutsBack
  <2>7. Follows'
    BY <1>1, <1>3, <2>1, IdleTyped, AppOfIs, SourcesIs DEF Typed, Alone, Follows, Fits, Mirrors,
       AppOf, ReviewedOnly
  <2> QED
    BY <2>1, <2>2, <2>3, <2>4, <2>5, <2>6, <2>7
<1> QED
  BY <1>2, <1>3, InstallPresentationIs

LEMMA InstallRevisionInv == ASSUME Inv, NEW r \in Runners, installRevision(r) PROVE Inv'
<1> USE DEF Inv, Typed, installRevision, KernelDone, KernelFailed
<1>1. KernelTyped'
  BY IdleTyped, ApplyIs, ActivationAssumption DEF Typed, Sources, Steady, Fault, KernelTyped,
     installRevision, KernelDone, KernelFailed
<1>2. Typed'
  BY IdleTyped DEF Catalogs
<1>3. Alone'
  BY IdleTyped DEF Alone
<1>4. ReviewedOnly'
  BY IdleTyped DEF Alone, ReviewedOnly, Reviewed, Decent
<1>5. StaysBound'
  BY IdleTyped DEF StaysBound
<1>6. PutsBack'
  BY IdleTyped, ApplyIs DEF Alone, PutsBack, KernelStays, Accepts
<1>7. Follows'
  BY InstallRevisionFollows
<1> QED
  BY <1>1, <1>2, <1>3, <1>4, <1>5, <1>6, <1>7

LEMMA RestorePresentationInv == ASSUME Inv, NEW r \in Runners, restorePresentation(r) PROVE Inv'
<1> USE DEF Inv, Typed, restorePresentation
<1>1. KernelTyped'
  BY IdleTyped, QuietIs DEF Steady, Fault, KernelTyped
<1>2. Typed'
  BY IdleTyped DEF Catalogs
<1>3. Alone'
  BY IdleTyped DEF Alone
<1>4. ReviewedOnly'
  BY IdleTyped DEF Alone, ReviewedOnly, Reviewed, Decent
<1>5. StaysBound'
  BY IdleTyped DEF StaysBound
<1>6. PutsBack'
  BY IdleTyped, QuietIs DEF Alone, PutsBack
<1>7. Follows'
  BY IdleTyped, QuietIs DEF Alone, Follows, Fits, Mirrors, ReviewedOnly, installed, activated,
     withoutCandidate, undone
<1> QED
  BY <1>1, <1>2, <1>3, <1>4, <1>5, <1>6, <1>7

LEMMA ProposeAppInv == ASSUME Inv, NEW r \in Runners, proposeApp(r) PROVE Inv'
<1> USE DEF Inv, Typed, isInstalled, KernelDone
<1>1. KernelTyped'
  BY IdleTyped, ProposeAppIs DEF Steady, KernelTyped, Proposes, GoesOn
<1>2. Typed'
  BY ProposeAppTyped
<1>3. Alone'
  BY IdleTyped, ProposeAppIs DEF Alone, Proposes, GoesOn
<1>4. ReviewedOnly'
  BY IdleTyped, ProposeAppIs DEF Alone, ReviewedOnly, Reviewed, Decent, Proposes, GoesOn
<1>5. StaysBound'
  BY IdleTyped, ProposeAppIs DEF StaysBound, Proposes, GoesOn
<1>6. PutsBack'
  BY IdleTyped, ProposeAppIs DEF Alone, PutsBack, KernelStays, Opens, Proposes, GoesOn
<1>7. Follows'
  BY ProposeAppFollows
<1> QED
  BY <1>1, <1>2, <1>3, <1>4, <1>5, <1>6, <1>7

LEMMA PreviewAppInv == ASSUME Inv, NEW r \in Runners, previewApp(r) PROVE Inv'
<1> USE DEF Inv, Typed, previewApp, KernelDone, KernelFailed
<1>1. KernelTyped'
  BY IdleTyped, PreviewIs, QuietIs DEF Steady, Fault, KernelTyped
<1>2. Typed'
  BY IdleTyped DEF Catalogs
<1>3. Alone'
  BY IdleTyped DEF Alone
<1>4. ReviewedOnly'
  BY IdleTyped DEF Alone, ReviewedOnly, Reviewed, Decent
<1>5. StaysBound'
  BY IdleTyped DEF StaysBound
<1>6. PutsBack'
  BY IdleTyped, PreviewIs, QuietIs DEF Alone, PutsBack, KernelStays, Opens
<1>7. Follows'
  BY PreviewAppFollows
<1> QED
  BY <1>1, <1>2, <1>3, <1>4, <1>5, <1>6, <1>7

LEMMA SupersedeWithSourceInv == ASSUME Inv, NEW r \in Runners, supersedeWithSource(r) PROVE Inv'
<1> USE DEF Inv, Typed
<1>1. KernelTyped'
  BY IdleTyped, SupersedeWithSourceIs DEF Steady, KernelTyped, Proposes, GoesOn
<1>2. Typed'
  BY SupersedeWithSourceTyped
<1>3. Alone'
  BY IdleTyped, SupersedeWithSourceIs DEF Alone, Proposes, GoesOn
<1>4. ReviewedOnly'
  BY IdleTyped, SupersedeWithSourceIs DEF Alone, ReviewedOnly, Reviewed, Decent, Proposes, GoesOn
<1>5. StaysBound'
  BY IdleTyped, SupersedeWithSourceIs DEF StaysBound, Proposes, GoesOn
<1>6. PutsBack'
  BY IdleTyped, SupersedeWithSourceIs DEF Alone, PutsBack, Opens, Closes, Proposes, GoesOn
<1>7. Follows'
  BY SupersedeWithSourceFollows
<1> QED
  BY <1>1, <1>2, <1>3, <1>4, <1>5, <1>6, <1>7

LEMMA FailBuildInv == ASSUME Inv, NEW r \in Runners, failBuild(r) PROVE Inv'
<1> USE DEF Inv, Typed, failBuild, KernelFailed
<1>1. KernelTyped'
  BY IdleTyped, AbandonedIs DEF Steady, KernelTyped
<1>2. Typed'
  BY IdleTyped DEF Catalogs
<1>3. Alone'
  BY IdleTyped DEF Alone
<1>4. ReviewedOnly'
  BY IdleTyped DEF Alone, ReviewedOnly, Reviewed, Decent
<1>5. StaysBound'
  BY IdleTyped DEF StaysBound
<1>6. PutsBack'
  BY IdleTyped, AbandonedIs DEF Alone, PutsBack, KernelStays, Closes
<1>7. Follows'
  BY IdleTyped, AbandonedIs, AppOfIs DEF Alone, Follows, Fits, Mirrors, ReviewedOnly, installed,
     activated, withoutCandidate, undone, KernelStays, Closes
<1> QED
  BY <1>1, <1>2, <1>3, <1>4, <1>5, <1>6, <1>7

LEMMA StageExtensionsInv == ASSUME Inv, NEW r \in Runners, stageExtensions(r) PROVE Inv'
<1> USE DEF Inv, Typed, stageExtensions, isSourced
<1>1. KernelTyped'
  BY QuietIs DEF Steady, Fault, KernelTyped
<1>2. Typed'
  BY DEF Catalogs
<1>3. Alone'
  BY DEF Alone
<1>4. ReviewedOnly'
  BY DEF Alone, ReviewedOnly, Reviewed, Decent
<1>5. StaysBound'
  BY DEF StaysBound
<1>6. PutsBack'
  BY QuietIs DEF Alone, PutsBack
<1>7. Follows'
  BY QuietIs DEF Alone, Follows, Fits, Mirrors, ReviewedOnly, installed, activated,
     withoutCandidate, undone
<1> QED
  BY <1>1, <1>2, <1>3, <1>4, <1>5, <1>6, <1>7

LEMMA FailExtensionsInv == ASSUME Inv, NEW r \in Runners, failExtensions(r) PROVE Inv'
<1> USE DEF Inv, Typed, failExtensions, isSourced
<1>1. KernelTyped'
  BY QuietIs DEF Steady, Fault, KernelTyped
<1>2. Typed'
  BY DEF Catalogs
<1>3. Alone'
  BY DEF Alone
<1>4. ReviewedOnly'
  BY DEF Alone, ReviewedOnly, Reviewed, Decent
<1>5. StaysBound'
  BY DEF StaysBound
<1>6. PutsBack'
  BY QuietIs DEF Alone, PutsBack, Fault
<1>7. Follows'
  BY QuietIs DEF Alone, Follows, Fits, Mirrors, ReviewedOnly, installed, activated,
     withoutCandidate, undone, Fault
<1> QED
  BY <1>1, <1>2, <1>3, <1>4, <1>5, <1>6, <1>7

LEMMA AbandonInv == ASSUME Inv, NEW r \in Runners, abandon(r) PROVE Inv'
<1> USE DEF Inv, Typed, abandon, KernelFailed
<1>1. KernelTyped'
  BY IdleTyped, AbandonedIs DEF Steady, KernelTyped
<1>2. Typed'
  BY IdleTyped DEF Catalogs
<1>3. Alone'
  BY IdleTyped DEF Alone
<1>4. ReviewedOnly'
  BY IdleTyped DEF Alone, ReviewedOnly, Reviewed, Decent
<1>5. StaysBound'
  BY IdleTyped DEF StaysBound
<1>6. PutsBack'
  BY IdleTyped, AbandonedIs DEF Alone, PutsBack, KernelStays, Closes
<1>7. Follows'
  BY IdleTyped, AbandonedIs, AppOfIs DEF Alone, Follows, Fits, Mirrors, ReviewedOnly, installed,
     activated, withoutCandidate, undone, KernelStays, Closes
<1> QED
  BY <1>1, <1>2, <1>3, <1>4, <1>5, <1>6, <1>7

LEMMA PresentCandidateInv == ASSUME Inv, NEW r \in Runners, presentCandidate(r) PROVE Inv'
<1> USE DEF Inv, Typed, presentCandidate, withCandidate
<1>1. KernelTyped'
  BY IdleTyped, QuietIs DEF Steady, Fault, KernelTyped
<1>2. Typed'
  BY IdleTyped DEF Catalogs
<1>3. Alone'
  BY IdleTyped DEF Alone
<1>4. ReviewedOnly'
  BY IdleTyped DEF Alone, ReviewedOnly, Reviewed, Decent
<1>5. StaysBound'
  BY IdleTyped DEF StaysBound
<1>6. PutsBack'
  BY IdleTyped, QuietIs DEF Alone, PutsBack
<1>7. Follows'
  BY IdleTyped, QuietIs DEF Alone, Follows, Fits, Mirrors, ReviewedOnly, installed, activated,
     withoutCandidate, undone
<1> QED
  BY <1>1, <1>2, <1>3, <1>4, <1>5, <1>6, <1>7

LEMMA FinishStagingInv == ASSUME Inv, NEW r \in Runners, finishStaging(r) PROVE Inv'
<1> USE DEF Inv, Typed, finishStaging, acceptsItself, isDeferred, mayActivate, shownAndBound
<1>1. KernelTyped'
  BY IdleTyped, QuietIs, PreviewIs, AcceptIs DEF Steady, Fault, KernelTyped, Decides
<1>2. Typed'
  BY FinishStagingTyped
<1>3. Alone'
  BY IdleTyped, AcceptIs DEF Alone, Decides
<1>4. ReviewedOnly'
  BY IdleTyped, AcceptIs DEF Alone, ReviewedOnly, Reviewed, Decent, Decides
<1>5. StaysBound'
  BY IdleTyped, AcceptIs DEF StaysBound, Decides
<1>6. PutsBack'
  BY IdleTyped, QuietIs, PreviewIs, AcceptIs DEF Alone, PutsBack, KernelStays, Opens, Decides
<1>7. Follows'
  BY IdleTyped, QuietIs, PreviewIs, AcceptIs, AppOfIs DEF Alone, Follows, Fits, Mirrors,
     ReviewedOnly, installed, activated, withoutCandidate, undone, KernelStays, Opens, Decides
<1> QED
  BY <1>1, <1>2, <1>3, <1>4, <1>5, <1>6, <1>7

LEMMA PromoteExtensionsInv == ASSUME Inv, promoteExtensions("command") PROVE Inv'
<1> USE DEF Inv, Typed, promoteExtensions, Failing
<1>1. KernelTyped'
  BY QuietIs DEF Steady, Fault, KernelTyped
<1>2. Typed'
  BY DEF Catalogs
<1>3. Alone'
  BY DEF Alone
<1>4. ReviewedOnly'
  BY DEF Alone, ReviewedOnly, Reviewed, Decent
<1>5. StaysBound'
  BY DEF StaysBound
<1>6. PutsBack'
  BY QuietIs DEF Alone, PutsBack
<1>7. Follows'
  BY QuietIs DEF Alone, Follows, Fits, Mirrors, ReviewedOnly, installed, activated,
     withoutCandidate, undone
<1> QED
  BY <1>1, <1>2, <1>3, <1>4, <1>5, <1>6, <1>7

LEMMA ActivatePresentationInv == ASSUME Inv, activatePresentation("command") PROVE Inv'
<1> USE DEF Inv, Typed, activatePresentation, Failing, activated
<1>1. KernelTyped'
  BY QuietIs DEF Steady, Fault, KernelTyped
<1>2. Typed'
  BY DEF Catalogs
<1>3. Alone'
  BY DEF Alone
<1>4. ReviewedOnly'
  BY DEF Alone, ReviewedOnly, Reviewed, Decent
<1>5. StaysBound'
  BY DEF StaysBound
<1>6. PutsBack'
  BY QuietIs DEF Alone, PutsBack
<1>7. Follows'
  BY QuietIs DEF Alone, Follows, Fits, Mirrors, ReviewedOnly, installed, withoutCandidate, undone
<1> QED
  BY <1>1, <1>2, <1>3, <1>4, <1>5, <1>6, <1>7

LEMMA AcceptRevisionInv == ASSUME Inv, acceptRevision("command") PROVE Inv'
<1> USE DEF Inv, Typed, acceptRevision, Failing, KernelDone, KernelFailed
<1>1. KernelTyped'
  BY IdleTyped, KernelAcceptIs, QuietIs DEF Steady, Fault, KernelTyped
<1>2. Typed'
  BY IdleTyped DEF Catalogs
<1>3. Alone'
  BY IdleTyped DEF Alone
<1>4. ReviewedOnly'
  BY IdleTyped DEF Alone, ReviewedOnly, Reviewed, Decent
<1>5. StaysBound'
  BY IdleTyped DEF StaysBound
<1>6. PutsBack'
  BY IdleTyped, KernelAcceptIs, QuietIs DEF Alone, PutsBack, KernelStays, Accepts
<1>7. Follows'
  BY IdleTyped, KernelAcceptIs, QuietIs, AppOfIs DEF Alone, Follows, Fits, Mirrors, ReviewedOnly,
     installed, activated, withoutCandidate, undone, KernelStays, Accepts
<1> QED
  BY <1>1, <1>2, <1>3, <1>4, <1>5, <1>6, <1>7

LEMMA RejectExtensionsInv == ASSUME Inv, rejectExtensions("command") PROVE Inv'
<1> USE DEF Inv, Typed, rejectExtensions, Failing, withoutCandidates
<1>1. KernelTyped'
  BY QuietIs DEF Steady, Fault, KernelTyped
<1>2. Typed'
  BY DEF Catalogs
<1>3. Alone'
  BY DEF Alone
<1>4. ReviewedOnly'
  BY DEF Alone, ReviewedOnly, Reviewed, Decent
<1>5. StaysBound'
  BY DEF StaysBound
<1>6. PutsBack'
  BY QuietIs DEF Alone, PutsBack
<1>7. Follows'
  BY QuietIs DEF Alone, Follows, Fits, Mirrors, ReviewedOnly, installed, activated,
     withoutCandidate, undone
<1> QED
  BY <1>1, <1>2, <1>3, <1>4, <1>5, <1>6, <1>7

LEMMA ClearCandidateInv == ASSUME Inv, clearCandidate("command") PROVE Inv'
<1> USE DEF Inv, Typed, clearCandidate, Failing, withoutCandidate
<1>1. KernelTyped'
  BY QuietIs DEF Steady, Fault, KernelTyped
<1>2. Typed'
  BY DEF Catalogs
<1>3. Alone'
  BY DEF Alone
<1>4. ReviewedOnly'
  BY DEF Alone, ReviewedOnly, Reviewed, Decent
<1>5. StaysBound'
  BY DEF StaysBound
<1>6. PutsBack'
  BY QuietIs DEF Alone, PutsBack
<1>7. Follows'
  BY QuietIs DEF Alone, Follows, Fits, Mirrors, ReviewedOnly, installed, activated, undone
<1> QED
  BY <1>1, <1>2, <1>3, <1>4, <1>5, <1>6, <1>7

LEMMA RejectRevisionInv == ASSUME Inv, rejectRevision("command") PROVE Inv'
<1> USE DEF Inv, Typed, rejectRevision, Failing, KernelDone, KernelFailed
<1>1. KernelTyped'
  BY IdleTyped, KernelRejectIs, QuietIs DEF Steady, Fault, KernelTyped
<1>2. Typed'
  BY IdleTyped DEF Catalogs
<1>3. Alone'
  BY IdleTyped DEF Alone
<1>4. ReviewedOnly'
  BY IdleTyped DEF Alone, ReviewedOnly, Reviewed, Decent
<1>5. StaysBound'
  BY IdleTyped DEF StaysBound
<1>6. PutsBack'
  BY IdleTyped, KernelRejectIs, QuietIs DEF Alone, PutsBack, KernelStays, Closes
<1>7. Follows'
  BY IdleTyped, KernelRejectIs, QuietIs, AppOfIs DEF Alone, Follows, Fits, Mirrors, ReviewedOnly,
     installed, activated, withoutCandidate, undone, KernelStays, Closes
<1> QED
  BY <1>1, <1>2, <1>3, <1>4, <1>5, <1>6, <1>7

LEMMA RestoreCapsuleInv == ASSUME Inv, restoreCapsule("command") PROVE Inv'
<1> USE DEF Inv, Typed
<1>1. KernelTyped'
  BY RestoreCapsuleIs, QuietIs DEF Steady, Fault, KernelTyped
<1>2. Typed'
  BY RestoreCapsuleTyped
<1>3. Alone'
  BY RestoreCapsuleIs DEF Alone
<1>4. ReviewedOnly'
  BY RestoreCapsuleIs, QuietIs DEF Alone, ReviewedOnly, Reviewed, Decent
<1>5. StaysBound'
  BY RestoreCapsuleIs DEF StaysBound
<1>6. PutsBack'
  BY RestoreCapsuleIs, QuietIs DEF Alone, PutsBack
<1>7. Follows'
  BY RestoreCapsuleIs, QuietIs, AppOfIs DEF Alone, Follows, Fits, Mirrors, ReviewedOnly,
     installed, activated, withoutCandidate, undone
<1> QED
  BY <1>1, <1>2, <1>3, <1>4, <1>5, <1>6, <1>7

LEMMA RestoreCatalogInv == ASSUME Inv, restoreCatalog("command") PROVE Inv'
<1> USE DEF Inv, Typed, restoreCatalog, restoredCatalog
<1>1. KernelTyped'
  BY QuietIs DEF Steady, Fault, KernelTyped
<1>2. Typed'
  BY DEF Catalogs
<1>3. Alone'
  BY DEF Alone
<1>4. ReviewedOnly'
  BY DEF Alone, ReviewedOnly, Reviewed, Decent
<1>5. StaysBound'
  BY DEF StaysBound
<1>6. PutsBack'
  BY QuietIs DEF Alone, PutsBack
<1>7. Follows'
  BY QuietIs DEF Alone, Follows, Fits, Mirrors, ReviewedOnly, installed, activated,
     withoutCandidate, undone
<1> QED
  BY <1>1, <1>2, <1>3, <1>4, <1>5, <1>6, <1>7

LEMMA MarkRecoveryInv == ASSUME Inv, markRecovery("command") PROVE Inv'
<1> USE DEF Inv, Typed, markRecovery
<1>1. KernelTyped'
  BY MarkRecoveryIs DEF KernelTyped
<1>2. Typed'
  BY DEF Catalogs
<1>3. Alone'
  BY DEF Alone
<1>4. ReviewedOnly'
  BY DEF Alone, ReviewedOnly, Reviewed, Decent
<1>5. StaysBound'
  BY DEF StaysBound
<1>6. PutsBack'
  BY MarkRecoveryIs DEF Alone, PutsBack
<1>7. Follows'
  BY MarkRecoveryIs, AppOfIs DEF Alone, Follows, Fits, Mirrors, ReviewedOnly, installed,
     activated, withoutCandidate, undone
<1> QED
  BY <1>1, <1>2, <1>3, <1>4, <1>5, <1>6, <1>7

LEMMA EnterSafeModeInv == ASSUME Inv, enterSafeMode("command") PROVE Inv'
<1> USE DEF Inv, Typed, enterSafeMode
<1>1. KernelTyped'
  BY IdleTyped, EnterSafeModeIs DEF KernelTyped
<1>2. Typed'
  BY IdleTyped DEF Catalogs
<1>3. Alone'
  BY IdleTyped DEF Alone
<1>4. ReviewedOnly'
  BY IdleTyped DEF Alone, ReviewedOnly, Reviewed, Decent
<1>5. StaysBound'
  BY IdleTyped DEF StaysBound
<1>6. PutsBack'
  BY IdleTyped, EnterSafeModeIs DEF Alone, PutsBack
<1>7. Follows'
  BY IdleTyped, EnterSafeModeIs, AppOfIs DEF Alone, Follows, Fits, Mirrors, ReviewedOnly,
     installed, activated, withoutCandidate, undone
<1> QED
  BY <1>1, <1>2, <1>3, <1>4, <1>5, <1>6, <1>7

LEMMA ReportFailureInv == ASSUME Inv, reportFailure("command") PROVE Inv'
<1> USE DEF Inv, Typed, reportFailure
<1>1. KernelTyped'
  BY IdleTyped, QuietIs DEF Steady, Fault, KernelTyped
<1>2. Typed'
  BY IdleTyped DEF Catalogs
<1>3. Alone'
  BY IdleTyped DEF Alone
<1>4. ReviewedOnly'
  BY IdleTyped DEF Alone, ReviewedOnly, Reviewed, Decent
<1>5. StaysBound'
  BY IdleTyped DEF StaysBound
<1>6. PutsBack'
  BY IdleTyped, QuietIs DEF Alone, PutsBack
<1>7. Follows'
  BY IdleTyped, QuietIs DEF Alone, Follows, Fits, Mirrors, ReviewedOnly, installed, activated,
     withoutCandidate, undone
<1> QED
  BY <1>1, <1>2, <1>3, <1>4, <1>5, <1>6, <1>7

LEMMA RollbackPresentationInv == ASSUME Inv, rollbackPresentation("command") PROVE Inv'
<1> USE DEF Inv
<1>1. /\ UNCHANGED <<strays, catalog, asked>>
      /\ runner["command"].step = "undoing"
  BY RollbackPresentationIs
<1>2. ASSUME Presented(undone(presentation)), NEW run,
             runner' = [runner EXCEPT !["command"] = run], Remembers(run, "command", "rollingBack")
      PROVE  Inv'
  <2>1. KernelTyped' /\ UNCHANGED <<kernel, journal, inDoubt>>
    BY <1>2, QuietIs
  <2>2. /\ presentation' = undone(presentation)
        /\ bindings' = undone(presentation)
    BY <1>2
  <2>3. Typed'
    BY <1>1, <1>2, <2>1, <2>2 DEF Remembers, GoesOn, Typed, undone
  <2>4. Alone'
    BY <1>1, <1>2, <2>1, <2>2 DEF Remembers, GoesOn, Typed, Alone, undone
  <2>5. ReviewedOnly'
    BY <1>1, <1>2, <2>1, <2>2 DEF Remembers, GoesOn, Typed, Alone, ReviewedOnly, Reviewed, Decent,
       undone
  <2>6. StaysBound'
    BY <1>1, <1>2, <2>1, <2>2 DEF Remembers, GoesOn, Typed, StaysBound, shownAndBound, undone
  <2>7. PutsBack'
    BY <1>1, <1>2, <2>1, <2>2 DEF Remembers, GoesOn, Typed, Alone, PutsBack, undone
  <2>8. Follows'
    BY <1>1, <1>2, <2>1, <2>2, AppOfIs, SourcesIs DEF Remembers, GoesOn, Typed, Alone, Follows,
       Fits, Mirrors, AppOf, ReviewedOnly, undone
  <2> QED
    BY <2>1, <2>3, <2>4, <2>5, <2>6, <2>7, <2>8
<1>3. CASE NotPresented /\ End("command")
  <2>1. KernelTyped' /\ UNCHANGED <<kernel, journal, inDoubt>>
    BY <1>3, QuietIs
  <2>2. Typed'
    BY <1>1, <1>3, <2>1, IdleTyped DEF Typed
  <2>3. Alone'
    BY <1>1, <1>3, <2>1, IdleTyped DEF Typed, Alone
  <2>4. ReviewedOnly'
    BY <1>1, <1>3, <2>1, IdleTyped DEF Typed, Alone, ReviewedOnly, Reviewed, Decent
  <2>5. StaysBound'
    BY <1>1, <1>3, <2>1, IdleTyped DEF Typed, StaysBound, shownAndBound
  <2>6. PutsBack'
    BY <1>1, <1>3, <2>1, IdleTyped DEF Typed, Alone, PutsBack
  <2>7. Follows'
    BY <1>1, <1>3, <2>1, IdleTyped, AppOfIs, SourcesIs DEF Typed, Alone, Follows, Fits, Mirrors,
       AppOf, ReviewedOnly
  <2> QED
    BY <2>1, <2>2, <2>3, <2>4, <2>5, <2>6, <2>7
<1> QED
  BY <1>2, <1>3, RollbackPresentationIs

LEMMA RollbackRevisionInv == ASSUME Inv, rollbackRevision("command") PROVE Inv'
<1> USE DEF Inv, Typed, rollbackRevision, KernelDone, KernelFailed
<1>1. KernelTyped'
  BY IdleTyped, RollbackIs, QuietIs DEF Steady, Fault, KernelTyped
<1>2. Typed'
  BY IdleTyped DEF Catalogs
<1>3. Alone'
  BY IdleTyped DEF Alone
<1>4. ReviewedOnly'
  BY IdleTyped DEF Alone, ReviewedOnly, Reviewed, Decent
<1>5. StaysBound'
  BY IdleTyped DEF StaysBound
<1>6. PutsBack'
  BY IdleTyped, RollbackIs, QuietIs DEF Alone, PutsBack, KernelStays, Returns
<1>7. Follows'
  BY RollbackRevisionFollows
<1> QED
  BY <1>1, <1>2, <1>3, <1>4, <1>5, <1>6, <1>7

LEMMA StartInv == ASSUME Inv, start PROVE Inv'
<1> USE DEF Inv
<1>1. KernelTyped'
  BY StartKeeps
<1>2. Typed'
  BY StartTyped
<1>3. Alone'
  BY StartKeeps, IdleTyped DEF Alone, Starts, Decides, StartLeaves, Typed
<1>4. ReviewedOnly'
  BY StartKeeps, IdleTyped DEF Alone, ReviewedOnly, Reviewed, Decent, mayActivate, mayShape,
     Starts, Decides, StartLeaves, Typed
<1>5. StaysBound'
  BY StartKeeps, IdleTyped DEF StaysBound, shownAndBound, Starts, Decides, StartLeaves, Typed
<1>6. PutsBack'
  BY StartKeeps, IdleTyped DEF Alone, PutsBack, Starts, Decides, StartLeaves, Typed
<1>7. Follows'
  BY StartKeeps, IdleTyped DEF Alone, Follows, Fits, Mirrors, AppOf, Starts, Decides, StartLeaves,
     Typed
<1> QED
  BY <1>1, <1>2, <1>3, <1>4, <1>5, <1>6, <1>7

LEMMA RestoreSafeModeInv == ASSUME Inv, restoreSafeMode PROVE Inv'
<1> USE DEF Inv, Typed, restoreSafeMode
<1>1. KernelTyped'
  BY IdleTyped, RestoreIs DEF KernelTyped
<1>2. Typed'
  BY IdleTyped DEF Catalogs
<1>3. Alone'
  BY IdleTyped DEF Alone
<1>4. ReviewedOnly'
  BY IdleTyped DEF Alone, ReviewedOnly, Reviewed, Decent
<1>5. StaysBound'
  BY IdleTyped DEF StaysBound
<1>6. PutsBack'
  BY IdleTyped, RestoreIs DEF Alone, PutsBack
<1>7. Follows'
  BY IdleTyped, RestoreIs, AppOfIs DEF Alone, Follows, Fits, Mirrors, ReviewedOnly, installed,
     activated, withoutCandidate, undone
<1> QED
  BY <1>1, <1>2, <1>3, <1>4, <1>5, <1>6, <1>7

LEMMA StartImportInv == ASSUME Inv, startImport PROVE Inv'
<1> USE DEF Inv
<1>1. KernelTyped'
  BY StartImportKeeps
<1>2. Typed'
  BY StartImportTyped
<1>3. Alone'
  BY StartImportKeeps, IdleTyped DEF Alone, Stages, StartLeaves, Typed
<1>4. ReviewedOnly'
  BY StartImportKeeps, IdleTyped DEF Alone, ReviewedOnly, Reviewed, Decent, mayActivate, mayShape,
     Stages, StartLeaves, Typed
<1>5. StaysBound'
  BY StartImportKeeps, IdleTyped DEF StaysBound, shownAndBound, Stages, StartLeaves, Typed
<1>6. PutsBack'
  BY StartImportKeeps, IdleTyped DEF Alone, PutsBack, Stages, StartLeaves, Typed
<1>7. Follows'
  BY StartImportKeeps, IdleTyped DEF Alone, Follows, Fits, Mirrors, AppOf, Stages, StartLeaves,
     Typed
<1> QED
  BY <1>1, <1>2, <1>3, <1>4, <1>5, <1>6, <1>7

LEMMA EndTurnInv == ASSUME Inv, endTurn PROVE Inv'
<1> USE DEF Inv, Typed
<1>1. KernelTyped'
  BY IdleTyped, EndTurnIs, QuietIs DEF Steady, Fault, KernelTyped
<1>2. Typed'
  BY EndTurnTyped
<1>3. Alone'
  BY IdleTyped, EndTurnIs DEF Alone
<1>4. ReviewedOnly'
  BY IdleTyped, EndTurnIs, QuietIs DEF Alone, ReviewedOnly, Reviewed, Decent
<1>5. StaysBound'
  BY IdleTyped, EndTurnIs DEF StaysBound
<1>6. PutsBack'
  BY IdleTyped, EndTurnIs, QuietIs DEF Alone, PutsBack
<1>7. Follows'
  BY IdleTyped, EndTurnIs, QuietIs, AppOfIs DEF Alone, Follows, Fits, Mirrors, ReviewedOnly,
     installed, activated, withoutCandidate, undone
<1> QED
  BY <1>1, <1>2, <1>3, <1>4, <1>5, <1>6, <1>7

LEMMA TidyExtensionsInv == ASSUME Inv, tidyExtensions PROVE Inv'
<1> USE DEF Inv, Typed, tidyExtensions, withoutCandidates
<1>1. KernelTyped'
  BY IdleTyped, QuietIs DEF Steady, Fault, KernelTyped
<1>2. Typed'
  BY IdleTyped DEF Catalogs
<1>3. Alone'
  BY IdleTyped DEF Alone
<1>4. ReviewedOnly'
  BY IdleTyped DEF Alone, ReviewedOnly, Reviewed, Decent
<1>5. StaysBound'
  BY IdleTyped DEF StaysBound
<1>6. PutsBack'
  BY IdleTyped, QuietIs DEF Alone, PutsBack
<1>7. Follows'
  BY IdleTyped, QuietIs DEF Alone, Follows, Fits, Mirrors, ReviewedOnly, installed, activated,
     withoutCandidate, undone
<1> QED
  BY <1>1, <1>2, <1>3, <1>4, <1>5, <1>6, <1>7

LEMMA TidyPresentationInv == ASSUME Inv, tidyPresentation PROVE Inv'
<1> USE DEF Inv, Typed, tidyPresentation, withoutCandidate
<1>1. KernelTyped'
  BY IdleTyped, QuietIs DEF Steady, Fault, KernelTyped
<1>2. Typed'
  BY IdleTyped DEF Catalogs
<1>3. Alone'
  BY IdleTyped DEF Alone
<1>4. ReviewedOnly'
  BY IdleTyped DEF Alone, ReviewedOnly, Reviewed, Decent
<1>5. StaysBound'
  BY IdleTyped DEF StaysBound
<1>6. PutsBack'
  BY IdleTyped, QuietIs DEF Alone, PutsBack
<1>7. Follows'
  BY IdleTyped, QuietIs DEF Alone, Follows, Fits, Mirrors, ReviewedOnly, installed, activated,
     undone
<1> QED
  BY <1>1, <1>2, <1>3, <1>4, <1>5, <1>6, <1>7

LEMMA ShapeAppInv == ASSUME Inv, shapeApp PROVE Inv'
<1> USE DEF Inv
<1>1. KernelTyped'
  BY ShapeAppKeeps
<1>2. Typed'
  BY ShapeAppTyped
<1>3. Alone'
  BY ShapeAppKeeps, IdleTyped DEF Alone, Stages, StartLeaves, Typed
<1>4. ReviewedOnly'
  BY ShapeAppKeeps, IdleTyped DEF Alone, ReviewedOnly, Reviewed, Decent, mayActivate, mayShape,
     Stages, StartLeaves, Typed
<1>5. StaysBound'
  BY ShapeAppKeeps, IdleTyped DEF StaysBound, shownAndBound, Stages, StartLeaves, Typed
<1>6. PutsBack'
  BY ShapeAppKeeps, IdleTyped DEF Alone, PutsBack, Stages, StartLeaves, Typed
<1>7. Follows'
  BY ShapeAppKeeps, IdleTyped DEF Alone, Follows, Fits, Mirrors, AppOf, Stages, StartLeaves, Typed
<1> QED
  BY <1>1, <1>2, <1>3, <1>4, <1>5, <1>6, <1>7

LEMMA ShapeDocumentInv == ASSUME Inv, shapeDocument PROVE Inv'
<1> USE DEF Inv, Typed, shapeDocument, KernelDone
<1>1. KernelTyped'
  BY IdleTyped, ApplyIs, ActivationAssumption, SourcesIs DEF KernelTyped
<1>2. Typed'
  BY IdleTyped DEF Catalogs
<1>3. Alone'
  BY IdleTyped DEF Alone
<1>4. ReviewedOnly'
  BY IdleTyped DEF Alone, ReviewedOnly, Reviewed, Decent
<1>5. StaysBound'
  BY IdleTyped DEF StaysBound
<1>6. PutsBack'
  BY IdleTyped, ApplyIs DEF Alone, PutsBack, KernelStays, Accepts
<1>7. Follows'
  BY IdleTyped, ApplyIs, AppOfIs, SourcesIs, ActivationAssumption DEF Alone, Follows, Fits,
     Mirrors, ReviewedOnly, installed, activated, withoutCandidate, undone, KernelStays, Accepts
<1> QED
  BY <1>1, <1>2, <1>3, <1>4, <1>5, <1>6, <1>7

LEMMA ShapeProposalInv == ASSUME Inv, shapeProposal PROVE Inv'
<1> USE DEF Inv, Typed, shapeProposal, KernelDone
<1>1. KernelTyped'
  BY IdleTyped, SupersedeIs, QuietIs, ActivationAssumption, SourcesIs DEF Steady, Fault,
     KernelTyped
<1>2. Typed'
  BY IdleTyped DEF Catalogs
<1>3. Alone'
  BY IdleTyped DEF Alone
<1>4. ReviewedOnly'
  BY IdleTyped DEF Alone, ReviewedOnly, Reviewed, Decent
<1>5. StaysBound'
  BY IdleTyped DEF StaysBound
<1>6. PutsBack'
  BY IdleTyped, SupersedeIs, QuietIs DEF Alone, PutsBack, KernelStays, Opens
<1>7. Follows'
  BY IdleTyped, SupersedeIs, QuietIs, AppOfIs, SourcesIs, ActivationAssumption DEF Alone, Follows,
     Fits, Mirrors, ReviewedOnly, installed, activated, withoutCandidate, undone, KernelStays,
     Opens
<1> QED
  BY <1>1, <1>2, <1>3, <1>4, <1>5, <1>6, <1>7

LEMMA AcceptShapedInv == ASSUME Inv, acceptShaped PROVE Inv'
<1> USE DEF Inv, Typed, acceptShaped, mayActivate, shownAndBound
<1>1. KernelTyped'
  BY IdleTyped, QuietIs, AcceptIs DEF Steady, Fault, KernelTyped, Decides
<1>2. Typed'
  BY AcceptShapedTyped
<1>3. Alone'
  BY IdleTyped, AcceptIs DEF Alone, Decides
<1>4. ReviewedOnly'
  BY IdleTyped, AcceptIs DEF Alone, ReviewedOnly, Reviewed, Decent, Decides
<1>5. StaysBound'
  BY IdleTyped, AcceptIs DEF StaysBound, Decides
<1>6. PutsBack'
  BY IdleTyped, QuietIs, AcceptIs DEF Alone, PutsBack, Decides
<1>7. Follows'
  BY IdleTyped, QuietIs, AcceptIs, AppOfIs DEF Alone, Follows, Fits, Mirrors, ReviewedOnly,
     installed, activated, withoutCandidate, undone, Decides
<1> QED
  BY <1>1, <1>2, <1>3, <1>4, <1>5, <1>6, <1>7

LEMMA InterruptInv == ASSUME Inv, interrupt PROVE Inv'
<1> USE DEF Inv, Typed, interrupt, underWay, Fault
<1>1. KernelTyped'
  BY IdleTyped DEF KernelTyped
<1>2. Typed'
  BY IdleTyped DEF withCandidate, Catalogs, installed, activated, undone, withoutCandidate
<1>3. Alone'
  BY IdleTyped DEF Alone
<1>4. ReviewedOnly'
  <2>1. "import" \notin strays => Decent(bindings')
    <3> SUFFICES ASSUME "import" \notin strays, NEW shown \in underWay("command")
                 PROVE  Decent(shown)
      BY DEF interrupt
    <3>1. Decent(presentation) /\ Decent(bindings) /\ Decent(Command.presentation)
      BY DEF ReviewedOnly
    <3>2. NoApp \in Reviewed
      BY DEF Reviewed
    <3>3. CASE /\ Command.step = "staging" /\ isInstalled("command")
               /\ shown = installed(presentation, Command.app)
      BY <3>1, <3>3 DEF ReviewedOnly, isInstalled, installed, Decent, Reviewed
    <3>4. CASE Command.step = "activating" /\ shown = activated(presentation)
      BY <3>1, <3>4 DEF ReviewedOnly, activated, Decent
    <3>5. CASE shown \in {bindings, Command.presentation, undone(presentation)}
      BY <3>1, <3>5 DEF undone, Decent
    <3>6. CASE shown \in {withCandidate(presentation, Command.app), withoutCandidate(presentation)}
      BY <3>1, <3>6 DEF withCandidate, withoutCandidate, Decent, Typed
    <3> QED
      BY <3>3, <3>4, <3>5, <3>6 DEF underWay
  <2>2. /\ UNCHANGED <<presentation, asked>> /\ Command' = Idle
        /\ "import" \in strays => "import" \in strays'
    BY DEF interrupt, Typed
  <2> QED
    BY <2>1, <2>2, IdleTyped DEF ReviewedOnly, Reviewed, Decent
<1>5. StaysBound'
  BY IdleTyped DEF StaysBound
<1>6. PutsBack'
  BY IdleTyped DEF Alone, PutsBack
<1>7. Follows'
  BY IdleTyped, AppOfIs DEF Alone, Follows, Fits, Mirrors, ReviewedOnly, installed, activated,
     withoutCandidate, undone
<1> QED
  BY <1>1, <1>2, <1>3, <1>4, <1>5, <1>6, <1>7

LEMMA ReloadInv == ASSUME Inv, reload PROVE Inv'
<1> USE DEF Inv, Typed, reload, Reloaded, loadedBindings, withoutCandidate
<1>1. KernelTyped'
  BY IdleTyped, RestartIs, UnreadableIs DEF KernelTyped
<1>2. Typed'
  BY IdleTyped DEF Catalogs
<1>3. Alone'
  BY IdleTyped DEF Alone
<1>4. ReviewedOnly'
  BY IdleTyped DEF Alone, ReviewedOnly, Reviewed, Decent
<1>5. StaysBound'
  BY IdleTyped DEF StaysBound
<1>6. PutsBack'
  BY IdleTyped, RestartIs, UnreadableIs DEF Alone, PutsBack
<1>7. Follows'
  BY ReloadFollows
<1> QED
  BY <1>1, <1>2, <1>3, <1>4, <1>5, <1>6, <1>7

LEMMA ReloadWithoutCapsulesInv == ASSUME Inv, reloadWithoutCapsules PROVE Inv'
<1> USE DEF Inv, Typed, reloadWithoutCapsules, Reloaded, NoBindings
<1>1. KernelTyped'
  BY IdleTyped, WithoutCapsulesIs DEF Fault, KernelTyped
<1>2. Typed'
  BY IdleTyped DEF Catalogs
<1>3. Alone'
  BY IdleTyped DEF Alone
<1>4. ReviewedOnly'
  BY IdleTyped DEF Alone, ReviewedOnly, Reviewed, Decent
<1>5. StaysBound'
  BY IdleTyped DEF StaysBound
<1>6. PutsBack'
  BY IdleTyped, WithoutCapsulesIs DEF Alone, PutsBack
<1>7. Follows'
  BY IdleTyped, WithoutCapsulesIs, AppOfIs DEF Alone, Follows, Fits, Mirrors, ReviewedOnly,
     installed, activated, withoutCandidate, undone
<1> QED
  BY <1>1, <1>2, <1>3, <1>4, <1>5, <1>6, <1>7

LEMMA RestInv == ASSUME Inv, UNCHANGED vars PROVE Inv'
<1> USE DEF Inv, vars, kernelVars
<1>1. KernelTyped' /\ Typed' /\ Alone' /\ ReviewedOnly'
  BY DEF KernelTyped, Typed, Alone, ReviewedOnly, Reviewed, Decent
<1>2. StaysBound' /\ PutsBack'
  BY DEF StaysBound, PutsBack
<1>3. Follows'
  BY DEF Follows, Fits, Mirrors, isProposal, AppOf
<1> QED
  BY <1>1, <1>2, <1>3

------------------------------------------------------------------------------
(* The inductive invariant, and what follows from it *)

LEMMA InitInv == Init => Inv
<1> SUFFICES ASSUME Init PROVE Inv
  OBVIOUS
<1> DEFINE empty == [snapshot |-> NoSnapshot, recovered |-> FALSE, recovery |-> FALSE]
<1>1. kernel = initialState(empty)
  <2>1. Kernel!NoSnapshot = NoSnapshot
    BY DEF Kernel!NoSnapshot, NoSnapshot, Kernel!NoRevision, NoRevision, Kernel!InitialEvent,
       InitialEvent, Kernel!BuiltInId, BuiltInId, Kernel!NoId, NoId
  <2> QED
    BY <2>1, SameStart DEF Init, Kernel!Init
<1>2. journal = NoSnapshot /\ marker = FALSE /\ idSequence = 0 /\ faults = 0 /\ inDoubt = FALSE
  BY DEF Init, Kernel!Init, Kernel!NoSnapshot, NoSnapshot, Kernel!NoRevision, NoRevision,
     Kernel!InitialEvent, InitialEvent, Kernel!BuiltInId, BuiltInId, Kernel!NoId, NoId
<1>3. Loads(empty) /\ empty.snapshot = NoSnapshot /\ ~empty.recovered /\ ~empty.recovery
  BY ConstantTypes DEF Loads
<1> HIDE DEF empty
<1>4. Sound(kernel) /\ NoSnapshot \in Snapshots
  BY <1>1, <1>3, StartIs, ConstantTypes
<1>5. ~kernel.safeMode
  BY <1>1, <1>3 DEF initialState
<1>6. /\ kernel.active = InitialRevision /\ kernel.lastKnownGood = InitialRevision
      /\ kernel.proposal = NoRevision
  BY <1>1, <1>3, <1>5, LoadedState
<1>7. /\ presentation = NoBindings /\ bindings = NoBindings
      /\ catalog = [accepted |-> {}, candidate |-> {}]
      /\ runner = [r \in Runners |-> Idle] /\ strays = {} /\ Command = Idle /\ Import = Idle
  BY DEF Init
<1>8. KernelTyped
  BY <1>2, <1>4 DEF KernelTyped
<1>9. Typed /\ Alone
  BY <1>7, IdleTyped DEF Typed, Alone, Catalogs
<1>10. ReviewedOnly /\ StaysBound /\ PutsBack
  BY <1>7, IdleTyped DEF ReviewedOnly, Reviewed, Decent, StaysBound, PutsBack
<1>11. Follows
  BY <1>2, <1>5, <1>6, <1>7, IdleTyped, AppOfIs DEF Follows, Fits, Mirrors
<1> QED
  BY <1>8, <1>9, <1>10, <1>11 DEF Inv

LEMMA NextInv == Inv /\ [Next]_vars => Inv'
<1> SUFFICES ASSUME Inv, [Next]_vars PROVE Inv'
  OBVIOUS
<1>1. CASE start \/ restoreSafeMode \/ startImport
  BY <1>1, StartInv, RestoreSafeModeInv, StartImportInv
<1>2. ASSUME NEW r \in Runners, Staging(r) PROVE Inv'
  BY <1>2, InstallPresentationInv, InstallRevisionInv, RestorePresentationInv, ProposeAppInv,
     PreviewAppInv, SupersedeWithSourceInv, FailBuildInv, StageExtensionsInv, FailExtensionsInv,
     AbandonInv, PresentCandidateInv, FinishStagingInv DEF Staging
<1>3. CASE Deciding("command")
  BY <1>3, PromoteExtensionsInv, ActivatePresentationInv, AcceptRevisionInv,
     RejectExtensionsInv, ClearCandidateInv, RejectRevisionInv, RestoreCapsuleInv,
     RestoreCatalogInv, MarkRecoveryInv, EnterSafeModeInv, ReportFailureInv DEF Deciding
<1>4. CASE rollbackPresentation("command") \/ rollbackRevision("command")
  BY <1>4, RollbackPresentationInv, RollbackRevisionInv
<1>5. CASE endTurn \/ tidyExtensions \/ tidyPresentation
  BY <1>5, EndTurnInv, TidyExtensionsInv, TidyPresentationInv
<1>6. CASE shapeApp \/ shapeDocument \/ shapeProposal \/ acceptShaped
  BY <1>6, ShapeAppInv, ShapeDocumentInv, ShapeProposalInv, AcceptShapedInv
<1>7. CASE interrupt \/ reload \/ reloadWithoutCapsules
  BY <1>7, InterruptInv, ReloadInv, ReloadWithoutCapsulesInv
<1>8. "command" \in Runners /\ "import" \in Runners
  OBVIOUS
<1> QED
  BY <1>1, <1>2, <1>3, <1>4, <1>5, <1>6, <1>7, <1>8, RestInv DEF Next

\* The inductive invariant holds in every behaviour.
THEOREM Invariance == Spec => []Inv
  BY InitInv, NextInv, PTL DEF Spec

\* Whatever fails, is interrupted or is reloaded, no app is shown, now or after a reload,
\* that nobody asked to activate or whose review blocks it, while the agent imports none.
THEOREM ActivationSafety == Spec => []ActivationIsReviewed
<1>1. Inv => ActivationIsReviewed
  BY DEF Inv, ReviewedOnly, Reviewed, Decent, ActivationIsReviewed
<1> QED
  BY <1>1, Invariance, PTL

\* The app that was shown when a decision, an installation or an undo began is one that
\* the stored bindings show again or return to, until it has ended.
THEOREM BindingSafety == Spec => []ShownAppStaysBound
<1>1. Inv => ShownAppStaysBound
  BY DEF Inv, StaysBound, ShownAppStaysBound
<1> QED
  BY <1>1, Invariance, PTL

\* A decision that failed, its compensations over, left page, storage, catalog and proposal
\* as it found them, or safe mode.
THEOREM FailedDecisionSafety == Spec => []FailedDecisionChangesNothing
<1>1. Inv => FailedDecisionChangesNothing
  BY DEF Inv, PutsBack, FailedDecisionChangesNothing
<1> QED
  BY <1>1, Invariance, PTL

\* Between commands the app on the page is the one of the document that the kernel shows,
\* the candidate the one of the open proposal, and undo returns to the app of the document
\* it returns to; what is stored is what is shown.
THEOREM DocumentSafety == Spec => []AppFollowsDocument
<1>1. Inv => AppFollowsDocument
  <2>1. canRollback(kernel) => kernel.active.id # kernel.lastKnownGood.id
    BY DEF canRollback, isRollbackAvailable, snapshotFromState
  <2> QED
    BY <2>1, IdleTyped DEF Inv, Follows, Fits, AppFollowsDocument
<1> QED
  BY <1>1, Invariance, PTL
==============================================================================
