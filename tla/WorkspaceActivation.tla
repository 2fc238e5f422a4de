-------------------------- MODULE WorkspaceActivation --------------------------
(* How an app (a capsule) becomes the interface: staging, activation, discard    *)
(* and undo in lib/workspace-controller.ts and lib/capsule-staging.ts, over the  *)
(* three stores they keep in step, one request after the other: the kernel       *)
(* (ShapingKernel), the capsule bindings (capsule/capsule-store.ts) and the      *)
(* extension catalog (extensions/extension-catalog.ts).                          *)
(*                                                                               *)
(* Commands hold the command permit, so one runs at a time, except an import of  *)
(* the agent, which passes the permit by and may outlive the turn it belongs to. *)
(* Any step may fail, a control client's command may be interrupted between two, *)
(* and the page may be reloaded anywhere.  A share is not under way.             *)
EXTENDS KernelTransitions

CONSTANTS
    RequestSources, MaxSequence, MaxId, MaxFaults,  \* as in ShapingKernel; interruptions count as faults
    Apps,        \* the capsules, each with the document its proposal carries
    Sourced,     \* those with source, checkpointed before they are reviewed
    Frameworks,  \* those of them that are built
    Blocked,     \* those whose review finds a requirement this host does not meet
    Imported,    \* bound: those the agent imports, once, while a turn runs
    NoApp

ASSUME ActivationAssumption ==
    /\ Apps \subseteq Documents \ {BuiltIn} /\ NoApp \notin Apps
    /\ Frameworks \subseteq Sourced /\ Sourced \subseteq Apps /\ Blocked \subseteq Apps
    /\ Imported \subseteq Apps

Runners == {"command", "import"}  \* the holder of the permit, the agent's import

VARIABLES
    kernel, idSequence, journal, marker, entering, faults, decided, inDoubt, safeReported,
    presentation,        \* capsulePresentation: what the page shows
    bindings,            \* bindings.json: what it shows after a reload
    capsulePersistence,  \* persistence.capsule is not "unavailable"
    catalog,             \* the apps whose extensions are accepted, and candidates
    runner,              \* what each runner is doing
    asked,               \* history: apps somebody asked to activate, who saw their review
    strays               \* history: what may have set presentation and kernel apart

kernelVars == <<kernel, idSequence, journal, marker, entering, faults, decided, inDoubt, safeReported>>
vars == <<kernelVars, presentation, bindings, capsulePersistence, catalog, runner, asked, strays>>

Kernel == INSTANCE ShapingKernel

NoBindings == [accepted |-> NoApp, candidate |-> NoApp, lastKnownGood |-> NoApp]

\* What a command carries: its app, whether it is to be accepted at once
\* (finalize: local), the revision it read or made, and what it found before.
Idle == [step |-> "idle", app |-> NoApp, local |-> FALSE, id |-> NoId,
         presentation |-> NoBindings, catalog |-> [accepted |-> {}, candidate |-> {}],
         failed |-> FALSE, alone |-> TRUE, shown |-> NoApp]

------------------------------------------------------------------------------
(* Capsule presentation *)

withCandidate(shown, app) == [shown EXCEPT !.candidate = app]
\* Mutant: a discarded candidate stays on the page.
withoutCandidate_Kept(shown) == shown

withoutCandidate(shown) == [shown EXCEPT !.candidate = NoApp]

\* Mutant: the app that was shown is not kept for undo.
activated_ForgetsShown(shown) ==
    [accepted |-> shown.candidate, candidate |-> NoApp, lastKnownGood |-> shown.lastKnownGood]

\* The candidate becomes the app; the app, if any, what undo returns to.
activated(shown) ==
    [accepted |-> shown.candidate, candidate |-> NoApp, lastKnownGood |-> shown.accepted]

installed(shown, app) ==
    [accepted |-> app, candidate |-> NoApp, lastKnownGood |-> shown.accepted]

undone(shown) ==
    [accepted |-> shown.lastKnownGood, candidate |-> NoApp, lastKnownGood |-> shown.accepted]

\* The app that is shown and would be after a reload.
shownAndBound == IF presentation.accepted = bindings.accepted THEN bindings.accepted ELSE NoApp

AppOf(revision) == IF revision.document \in Apps THEN revision.document ELSE NoApp

\* A local app is accepted at once, unless its review blocks it.
acceptsItself(r) == runner[r].local /\ presentation.candidate \notin Blocked

------------------------------------------------------------------------------
(* Running *)

Go(r, step) == runner' = [runner EXCEPT ![r].step = step]
End(r) == runner' = [runner EXCEPT ![r] = Idle]

Fault == faults < MaxFaults /\ faults' = faults + 1
Steady == UNCHANGED faults
OtherKernelVars == <<kernel, idSequence, journal, marker, entering, decided, inDoubt, safeReported>>
NoKernelStep == UNCHANGED OtherKernelVars

\* An import of the agent ran beside commands, or a step was left without the
\* one that makes document and app agree: a reader of AppFollowsDocument finds
\* here all that it excludes.
StraysIf(condition, reason) == strays' = IF condition THEN strays \union {reason} ELSE strays
Strays == StraysIf(TRUE, "step")
Keeps == UNCHANGED strays
KeepsCapsules == UNCHANGED <<presentation, bindings, capsulePersistence>>

\* updateCapsulePresentation: stored first, then shown.
Presented(next) ==
    /\ bindings' = next
    /\ presentation' = next
    /\ Steady /\ NoKernelStep /\ UNCHANGED capsulePersistence

\* It failed: nothing was stored, and the page says so.
NotPresented ==
    /\ Fault /\ NoKernelStep
    /\ capsulePersistence' = FALSE
    /\ UNCHANGED <<presentation, bindings>>

Cataloged(next) == catalog' = next /\ Steady /\ NoKernelStep
NotCataloged == Fault /\ NoKernelStep /\ UNCHANGED catalog

withoutCandidates == [catalog EXCEPT !.candidate = {}]

\* The kernel's operation changed its state, or failed without doing so.
KernelDone == kernel' # kernel
KernelFailed == kernel' = kernel

\* kernel.reject of the proposal that was made, its failure ignored.
Abandoned(r) ==
    IF isProposal(kernel, runner[r].id) THEN Kernel!reject ELSE Steady /\ NoKernelStep

CatalogAndAsked == <<catalog, asked>>

------------------------------------------------------------------------------
(* Staging: stageCapsuleProposal *)

\* The capsule was read, while no proposal was open.
stage(r, app, local) ==
    IF kernel.proposal = NoRevision
    THEN runner' = [runner EXCEPT ![r] = [Idle EXCEPT !.step = "staging", !.app = app, !.local = local]]
    ELSE End(r)

\* A static app the agent made is installed without becoming a candidate.
isInstalled(r) ==
    runner[r].local /\ runner[r].app \notin Frameworks \union Blocked

installPresentation(r) ==
    /\ runner[r].step = "staging" /\ isInstalled(r)
    /\ \/ /\ Presented(installed(presentation, runner[r].app))
          /\ runner' = [runner EXCEPT ![r] =
                [@ EXCEPT !.step = "applying", !.presentation = presentation, !.shown = shownAndBound]]
       \/ NotPresented /\ End(r)
    /\ Keeps /\ UNCHANGED CatalogAndAsked

installRevision(r) ==
    /\ runner[r].step = "applying"
    /\ Kernel!applyLocalRevision(runner[r].app, "shaper")
    /\ \/ KernelDone /\ End(r)
       \/ KernelFailed /\ Go(r, "restoring")
    /\ Keeps /\ KeepsCapsules /\ UNCHANGED CatalogAndAsked

\* restoreCapsulePresentation, its failure ignored or reported: nobody retries.
restorePresentation(r) ==
    /\ runner[r].step = "restoring"
    /\ \/ Presented(runner[r].presentation) /\ Keeps
       \/ NoKernelStep /\ Fault /\ KeepsCapsules /\ Strays
    /\ End(r) /\ UNCHANGED CatalogAndAsked

\* Any other app becomes a proposal; an app to be built is not previewed yet.
isDeferred(r) == runner[r].local /\ runner[r].app \in Frameworks

proposeApp(r) ==
    /\ runner[r].step = "staging" /\ ~isInstalled(r)
    /\ IF kernel.proposal = NoRevision
       THEN /\ Kernel!propose(runner[r].app, "user")
            /\ IF KernelDone
               THEN runner' = [runner EXCEPT ![r] =
                    [@ EXCEPT !.id = kernel'.proposal.id,
                              !.step = IF isDeferred(r) THEN "proposed" ELSE "previewing"]]
               ELSE End(r)
       ELSE Steady /\ NoKernelStep /\ End(r)
    /\ Keeps /\ KeepsCapsules /\ UNCHANGED CatalogAndAsked

\* A preview that fails leaves the proposal open without its app.
previewApp(r) ==
    /\ runner[r].step = "previewing"
    /\ IF canPreview(kernel, runner[r].id)
       THEN /\ Kernel!preview
            /\ \/ KernelDone /\ Go(r, "proposed") /\ Keeps
               \/ KernelFailed /\ End(r) /\ Strays
       ELSE Steady /\ NoKernelStep /\ End(r) /\ Keeps
    /\ KeepsCapsules /\ UNCHANGED CatalogAndAsked

\* The source is checkpointed and the proposal made anew over it.
supersedeWithSource(r) ==
    /\ runner[r].step = "proposed" /\ runner[r].app \in Sourced
    /\ \/ /\ Abandoned(r) /\ End(r)   \* the checkpoint failed
          /\ StraysIf(KernelFailed, "step")
       \/ IF canSupersede(kernel, runner[r].id)
          THEN /\ Kernel!supersede(runner[r].app, "user")
               /\ \/ /\ KernelDone /\ Keeps
                     /\ runner' = [runner EXCEPT ![r] =
                            [@ EXCEPT !.id = kernel'.proposal.id, !.step = "sourced"]]
                  \/ KernelFailed /\ End(r) /\ Strays
          ELSE Steady /\ NoKernelStep /\ End(r) /\ Keeps
    /\ KeepsCapsules /\ UNCHANGED CatalogAndAsked

isSourced(r) ==
    \/ runner[r].step = "sourced"
    \/ runner[r].step = "proposed" /\ runner[r].app \notin Sourced

\* The build failed: the proposal is rejected, as far as that can be stored.
failBuild(r) ==
    /\ runner[r].step = "sourced" /\ runner[r].app \in Frameworks
    /\ Abandoned(r) /\ End(r)
    /\ StraysIf(KernelFailed, "step")
    /\ KeepsCapsules /\ UNCHANGED CatalogAndAsked

stageExtensions(r) ==
    /\ isSourced(r)
    /\ Cataloged([catalog EXCEPT !.candidate = {runner[r].app}]) /\ Go(r, "presenting")
    /\ Keeps /\ KeepsCapsules /\ UNCHANGED asked

failExtensions(r) ==
    /\ isSourced(r) /\ faults < MaxFaults
    /\ Go(r, "abandoning") /\ faults' = faults + 1 /\ NoKernelStep
    /\ Keeps /\ KeepsCapsules /\ UNCHANGED CatalogAndAsked

abandon(r) ==
    /\ runner[r].step = "abandoning"
    /\ Abandoned(r) /\ End(r)
    /\ StraysIf(KernelFailed, "step")
    /\ KeepsCapsules /\ UNCHANGED CatalogAndAsked

\* A candidate that cannot be stored leaves its proposal open without its app.
presentCandidate(r) ==
    /\ runner[r].step = "presenting"
    /\ \/ Presented(withCandidate(presentation, runner[r].app)) /\ Go(r, "staged") /\ Keeps
       \/ NotPresented /\ End(r) /\ Strays
    /\ UNCHANGED CatalogAndAsked

------------------------------------------------------------------------------
(* Decisions: acceptProposal and rejectProposal *)

Decide(r, step) ==
    runner' = [runner EXCEPT ![r] =
        [Idle EXCEPT !.step = step, !.id = kernel.proposal.id,
                     !.presentation = presentation, !.catalog = catalog,
                     !.alone = runner["import"] = Idle, !.shown = shownAndBound]]

\* Mutant: what the review blocks may be activated.
mayActivate_AnyReview == kernel.proposal # NoRevision

mayActivate == kernel.proposal # NoRevision /\ presentation.candidate \notin Blocked

acceptProposal(r) ==
    IF mayActivate THEN Decide(r, "promoting") ELSE End(r)

rejectProposal(r) ==
    IF kernel.proposal # NoRevision THEN Decide(r, "discarding") ELSE End(r)

\* What follows the staging of an app.
finishStaging(r) ==
    /\ runner[r].step = "staged"
    /\ IF acceptsItself(r)
       THEN acceptProposal(r) /\ Steady /\ NoKernelStep
       ELSE /\ End(r)
            /\ IF isDeferred(r) /\ canPreview(kernel, runner[r].id)
               THEN Kernel!preview
               ELSE Steady /\ NoKernelStep
    /\ Keeps /\ KeepsCapsules /\ UNCHANGED CatalogAndAsked

Failing(r) == Go(r, "restoringCapsule")

\* promoteCandidate; it also refuses extensions that were enabled and not tested.
promoteExtensions(r) ==
    /\ runner[r].step = "promoting"
    /\ \/ /\ Cataloged([accepted |-> catalog.accepted \union catalog.candidate, candidate |-> {}])
          /\ Go(r, "activating")
       \/ NotCataloged /\ Failing(r)
       \/ catalog.candidate # {} /\ Steady /\ NoKernelStep /\ Failing(r) /\ UNCHANGED catalog
    /\ Keeps /\ KeepsCapsules /\ UNCHANGED asked

activatePresentation(r) ==
    /\ runner[r].step = "activating"
    /\ \/ Presented(activated(presentation)) /\ Go(r, "accepting")
       \/ NotPresented /\ Failing(r)
    /\ Keeps /\ UNCHANGED CatalogAndAsked

acceptRevision(r) ==
    /\ runner[r].step = "accepting"
    /\ IF canAccept(kernel, runner[r].id)
       THEN /\ Kernel!accept
            /\ \/ KernelDone /\ End(r)
               \/ KernelFailed /\ Failing(r)
       ELSE Steady /\ NoKernelStep /\ Failing(r)
    /\ Keeps /\ KeepsCapsules /\ UNCHANGED CatalogAndAsked

rejectExtensions(r) ==
    /\ runner[r].step = "discarding"
    /\ \/ Cataloged(withoutCandidates) /\ Go(r, "clearing")
       \/ NotCataloged /\ Failing(r)
    /\ Keeps /\ KeepsCapsules /\ UNCHANGED asked

clearCandidate(r) ==
    /\ runner[r].step = "clearing"
    /\ \/ Presented(withoutCandidate(presentation)) /\ Go(r, "rejecting")
       \/ NotPresented /\ Failing(r)
    /\ Keeps /\ UNCHANGED CatalogAndAsked

rejectRevision(r) ==
    /\ runner[r].step = "rejecting"
    /\ IF isProposal(kernel, runner[r].id)
       THEN /\ Kernel!reject
            /\ \/ KernelDone /\ End(r)
               \/ KernelFailed /\ Failing(r)
       ELSE Steady /\ NoKernelStep /\ Failing(r)
    /\ Keeps /\ KeepsCapsules /\ UNCHANGED CatalogAndAsked

\* The compensations: each is tried, and what failed is remembered.
restoreCapsule(r) ==
    /\ runner[r].step = "restoringCapsule"
    /\ \/ Presented(runner[r].presentation) /\ Go(r, "restoringCatalog")
       \/ /\ Fault /\ NoKernelStep /\ KeepsCapsules
          /\ runner' = [runner EXCEPT ![r] = [@ EXCEPT !.step = "restoringCatalog", !.failed = TRUE]]
    /\ Keeps /\ UNCHANGED CatalogAndAsked

\* Mutant: the catalog stays as the failed decision left it.
restoredCatalog_Kept(r) == catalog

restoredCatalog(r) == runner[r].catalog

\* What is shown goes back whatever could be stored; a compensation that failed
\* is followed by safe mode.
restoreCatalog(r) ==
    /\ runner[r].step = "restoringCatalog"
    /\ \E fails \in BOOLEAN :
          /\ IF fails THEN NotCataloged ELSE Cataloged(restoredCatalog(r))
          /\ Go(r, IF fails \/ runner[r].failed THEN "degrading" ELSE "failed")
    /\ presentation' = runner[r].presentation
    /\ Keeps /\ UNCHANGED <<bindings, capsulePersistence, asked>>

\* enterDegradedRecovery, or the command that enters safe mode.
markRecovery(r) ==
    /\ runner[r].step \in {"degrading", "protecting"}
    /\ Kernel!markRecovery
    /\ Keeps /\ KeepsCapsules /\ UNCHANGED <<CatalogAndAsked, runner>>

enterSafeMode(r) ==
    /\ runner[r].step \in {"degrading", "protecting"}
    /\ Kernel!enterSafeMode
    /\ capsulePersistence' = (capsulePersistence /\ runner[r].step # "degrading")
    /\ IF runner[r].step = "degrading" THEN Go(r, "failed") ELSE End(r)
    /\ Strays /\ UNCHANGED <<presentation, bindings, CatalogAndAsked>>

\* dispatchCommand's onFailure: the caller is told that the decision failed.
reportFailure(r) ==
    /\ runner[r].step = "failed" /\ End(r)
    /\ NoKernelStep /\ Steady /\ Keeps /\ KeepsCapsules /\ UNCHANGED CatalogAndAsked

------------------------------------------------------------------------------
(* Undo *)

rollbackPresentation(r) ==
    /\ runner[r].step = "undoing"
    /\ \/ /\ Presented(undone(presentation))
          /\ runner' = [runner EXCEPT ![r] =
                [@ EXCEPT !.step = "rollingBack", !.presentation = presentation, !.shown = shownAndBound]]
       \/ NotPresented /\ End(r)
    /\ Keeps /\ UNCHANGED CatalogAndAsked

rollbackRevision(r) ==
    /\ runner[r].step = "rollingBack"
    /\ IF canRollback(kernel)
       THEN /\ Kernel!rollback
            /\ \/ KernelDone /\ End(r)
               \/ KernelFailed /\ Go(r, "restoring")
       ELSE Steady /\ NoKernelStep /\ Go(r, "restoring")
    /\ Keeps /\ KeepsCapsules /\ UNCHANGED CatalogAndAsked

------------------------------------------------------------------------------
(* Shaping: shapeInstruction *)

mayShape ==
    /\ ~kernel.safeMode
    /\ presentation.candidate = NoApp
    /\ catalog.candidate = {}

\* The turn remembers the proposal it found.
startTurn ==
    /\ mayShape
    /\ runner' = [runner EXCEPT !["command"] =
                    [Idle EXCEPT !.step = "turn", !.id = kernel.proposal.id]]

\* The turn ends with an app, with a plain document (NoApp), or not at all.
endTurn ==
    /\ runner["command"].step = "turn"
    /\ \/ End("command")
       \/ \E app \in Apps \union {NoApp} :
             runner' = [runner EXCEPT !["command"] = [@ EXCEPT !.step = "tidying", !.app = app]]
    /\ NoKernelStep /\ Steady /\ Keeps /\ KeepsCapsules /\ UNCHANGED CatalogAndAsked

\* Whatever became a candidate meanwhile is dropped, from the catalog first.
tidyExtensions ==
    /\ runner["command"].step = "tidying"
    /\ \/ Cataloged(withoutCandidates) /\ Go("command", "tidied")
       \/ NotCataloged /\ End("command")
    /\ Keeps /\ KeepsCapsules /\ UNCHANGED asked

tidyPresentation ==
    /\ runner["command"].step = "tidied"
    /\ \/ Presented(withoutCandidate(presentation)) /\ Go("command", "shaping")
       \/ NotPresented /\ End("command")
    /\ Keeps /\ UNCHANGED CatalogAndAsked

\* An app is staged, unless a proposal was open when the turn began.
shapeApp ==
    /\ runner["command"].step = "shaping" /\ runner["command"].app # NoApp
    /\ IF runner["command"].id # NoId THEN End("command")
       ELSE stage("command", runner["command"].app, TRUE)
    /\ asked' = asked \union ({runner["command"].app} \ Blocked)
    /\ NoKernelStep /\ Steady /\ Keeps /\ KeepsCapsules /\ UNCHANGED catalog

\* A document is applied; the app that is shown stays as it is.
shapeDocument ==
    /\ runner["command"].step = "shaping" /\ runner["command"].app = NoApp
    /\ runner["command"].id = NoId
    /\ \E document \in Documents \ (Apps \union {BuiltIn}) :
          Kernel!applyLocalRevision(document, "shaper")
    /\ End("command")
    /\ StraysIf(KernelDone /\ presentation # NoBindings, "step")
    /\ KeepsCapsules /\ UNCHANGED CatalogAndAsked

\* A document made over an open proposal takes its place and is accepted.
shapeProposal ==
    /\ runner["command"].step = "shaping" /\ runner["command"].app = NoApp
    /\ runner["command"].id # NoId
    /\ IF canSupersede(kernel, runner["command"].id)
       THEN /\ \E document \in Documents \ (Apps \union {BuiltIn}) :
                  Kernel!supersede(document, "shaper")
            /\ IF KernelDone
               THEN runner' = [runner EXCEPT !["command"].step = "superseded"]
               ELSE End("command")
       ELSE Steady /\ NoKernelStep /\ End("command")
    /\ Keeps /\ KeepsCapsules /\ UNCHANGED CatalogAndAsked

acceptShaped ==
    /\ runner["command"].step = "superseded"
    /\ acceptProposal("command")
    /\ NoKernelStep /\ Steady /\ Keeps /\ KeepsCapsules /\ UNCHANGED CatalogAndAsked

------------------------------------------------------------------------------
(* Commands *)

Begins == kernel.sequence < MaxSequence /\ idSequence < MaxId

start ==
    /\ runner["command"] = Idle /\ Begins
    /\ \/ \E app \in Apps : stage("command", app, FALSE)
       \/ startTurn
       \/ acceptProposal("command")
       \/ rejectProposal("command")
       \/ runner' = [runner EXCEPT !["command"].step = "undoing"]
       \/ runner' = [runner EXCEPT !["command"].step = "protecting"]
    /\ runner' # runner
    /\ asked' = IF runner'["command"].step = "promoting"
                THEN asked \union {presentation.candidate, AppOf(kernel.proposal)} ELSE asked
    /\ NoKernelStep /\ Steady /\ Keeps /\ KeepsCapsules /\ UNCHANGED catalog

restoreSafeMode ==
    /\ runner["command"] = Idle
    /\ Kernel!restoreLastKnownGood
    /\ Keeps /\ KeepsCapsules /\ UNCHANGED <<CatalogAndAsked, runner>>

\* The agent's flect imports a capsule while its turn runs, without the permit.
startImport ==
    /\ runner["command"].step = "turn" /\ "import" \notin strays
    /\ \E app \in Imported : stage("import", app, FALSE)
    /\ runner' # runner
    /\ StraysIf(TRUE, "import") /\ Fault
    /\ NoKernelStep /\ KeepsCapsules /\ UNCHANGED CatalogAndAsked

\* What a command was storing may still be stored after its interruption.
underWay(r) ==
    CASE runner[r].step = "staging" /\ isInstalled(r) -> {bindings, installed(presentation, runner[r].app)}
      [] runner[r].step \in {"restoring", "restoringCapsule"} -> {bindings, runner[r].presentation}
      [] runner[r].step = "presenting" -> {bindings, withCandidate(presentation, runner[r].app)}
      [] runner[r].step = "activating" -> {bindings, activated(presentation)}
      [] runner[r].step \in {"clearing", "tidied"} -> {bindings, withoutCandidate(presentation)}
      [] runner[r].step = "undoing" -> {bindings, undone(presentation)}
      [] OTHER -> {bindings}

\* The revocation of a control client's grant: nothing is compensated.
interrupt ==
    /\ runner["command"].step # "idle" /\ Fault
    /\ bindings' \in underWay("command")
    /\ entering' = "idle"
    /\ End("command") /\ Strays
    /\ UNCHANGED <<kernel, idSequence, journal, marker, decided, inDoubt, safeReported,
                   presentation, capsulePersistence, catalog, asked>>

loadedBindings(proposal) ==
    IF proposal = NoRevision THEN withoutCandidate(bindings) ELSE bindings

Reloaded ==
    /\ StraysIf(\/ runner # [r \in Runners |-> Idle]
                \/ inDoubt \/ faults' # faults \/ kernel'.safeMode, "step")
    /\ runner' = [r \in Runners |-> Idle]
    /\ UNCHANGED CatalogAndAsked

\* The page is reloaded.  A candidate whose proposal is gone is dropped.
reload ==
    /\ Kernel!Restart \/ Kernel!RestartUnreadable
    /\ presentation' = loadedBindings(kernel'.proposal)
    /\ bindings' = presentation'
    /\ capsulePersistence' = TRUE
    /\ Reloaded

\* The capsules cannot be read: none is shown, what is stored stays.
reloadWithoutCapsules ==
    /\ Fault
    /\ LET state == initialState(Kernel!load)
           started == reconciledState(state)
       IN  /\ Kernel!StartFrom(started)
           /\ journal' = IF isPending(state) THEN snapshotFromState(started) ELSE journal
    /\ inDoubt' = FALSE
    /\ presentation' = NoBindings
    /\ capsulePersistence' = FALSE
    /\ Reloaded
    /\ UNCHANGED <<marker, bindings>>

Init ==
    /\ Kernel!Init
    /\ presentation = NoBindings /\ bindings = NoBindings
    /\ capsulePersistence = TRUE
    /\ catalog = [accepted |-> {}, candidate |-> {}]
    /\ runner = [r \in Runners |-> Idle]
    /\ asked = {} /\ strays = {}

Staging(r) ==
    \/ installPresentation(r) \/ installRevision(r) \/ restorePresentation(r)
    \/ proposeApp(r) \/ previewApp(r) \/ supersedeWithSource(r) \/ failBuild(r)
    \/ stageExtensions(r) \/ failExtensions(r) \/ abandon(r)
    \/ presentCandidate(r) \/ finishStaging(r)

Deciding(r) ==
    \/ promoteExtensions(r) \/ activatePresentation(r) \/ acceptRevision(r)
    \/ rejectExtensions(r) \/ clearCandidate(r) \/ rejectRevision(r)
    \/ restoreCapsule(r) \/ restoreCatalog(r) \/ markRecovery(r) \/ enterSafeMode(r)
    \/ reportFailure(r)

Next ==
    \/ start \/ restoreSafeMode \/ startImport
    \/ Staging("command") \/ Staging("import") \/ Deciding("command")
    \/ rollbackPresentation("command") \/ rollbackRevision("command")
    \/ endTurn \/ tidyExtensions \/ tidyPresentation
    \/ shapeApp \/ shapeDocument \/ shapeProposal \/ acceptShaped
    \/ interrupt \/ reload \/ reloadWithoutCapsules

Spec == Init /\ [][Next]_vars

------------------------------------------------------------------------------
(* Properties *)

\* Import opens a candidate and never activates it: no app is shown, now or after
\* a reload, that nobody asked to activate.
ActivationIsExplicit == {presentation.accepted, bindings.accepted} \subseteq asked \union {NoApp}

\* The same, and a requirement that is not met is a hard precondition: whatever
\* fails or is interrupted, only an app whose review does not block it is shown
\* for the accepted one, and only after it was asked for, as long as no import of
\* the agent runs on beside the commands.
ActivationIsReviewed ==
    "import" \notin strays =>
        {presentation.accepted, bindings.accepted} \subseteq (asked \ Blocked) \union {NoApp}

\* At rest the app that is shown is the one whose revision the kernel shows, and
\* the candidate the one whose proposal is open, after any number of failures
\* that were compensated; Strays names the exceptions.
AppFollowsDocument ==
    strays = {} /\ runner["command"] = Idle =>
        /\ presentation.accepted = AppOf(kernel.active)
        /\ presentation.candidate = AppOf(kernel.proposal)
        /\ canRollback(kernel) => presentation.lastKnownGood = AppOf(kernel.lastKnownGood)
        /\ bindings = presentation

\* A decision that fails is as if it had never been asked, on the page and in
\* storage, or the workspace is in safe mode.
FailedDecisionChangesNothing ==
    runner["command"].step = "failed" /\ runner["command"].alone =>
        \/ kernel.safeMode
        \/ /\ presentation = runner["command"].presentation
           /\ bindings = presentation
           /\ catalog = runner["command"].catalog
           /\ kernel.proposal.id = runner["command"].id

\* The app that was shown and stored when a decision, an installation or an undo
\* began stays bound until it has ended: a page that goes away half-way shows it
\* again, or can return to it.
ShownAppStaysBound ==
    runner["command"].shown \in
        {NoApp, bindings.accepted, bindings.candidate, bindings.lastKnownGood}
==============================================================================
