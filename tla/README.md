# Flect, verified

TLA+ specifications of the core of Flect, TLC configurations that check them on
small instances, and TLAPS proofs. Flect lets a person and an agent reshape a
running interface. A protected kernel decides which interface is shown, which
one can be restored, and what a candidate may become; what it decides is kept in
Git refs of an embedded repository so that reloads, crashes and failing storage
lose neither product. Around the kernel, a workspace controller keeps apps,
documents and extensions in step, runs the turns of an agent, and lets outside
clients in under a grant that the person at the page can take away.

## Inventory

The parts of the system, the state each keeps, what makes each correct.

| Component | State | Operations | Hard part | Correct when |
| --- | --- | --- | --- | --- |
| Shaping kernel (`src/lib/shaping-kernel.ts`, `shared/revisions.ts`) | active, last-known-good and candidate revision, safe mode, disabled extensions, failure counts, event sequence | propose, preview, supersede, accept, reject, rollback, restore, safe mode, extension intents, failures, successes | storage fails inside an operation; `enterSafeMode` writes its marker outside the lock; reload validates what was stored | a candidate never replaces an interface it was not made for; safe mode is protected; what was reported survives a reload |
| Git interface repository (`src/lib/git-interface-repository.ts`) | receipt in Web Storage and in memory; refs `flect/accepted`, `flect/last-known-good`, `flect/authoring`, `flect/proposal/*`; marker `flect/shared/recovery` | load, save, repair, mark and clear recovery | a save is a chain of guarded requests; stops and failures between any two; the agent commits meanwhile | a cut save shows the old or the new product or safe mode; the source tree follows its document |
| Git worker and client (`src/git/`) | repository, one worker, its lease, a permit, a Web Lock | guarded checkpoint, move-ref, read, merge, import, delete | deadline, recycling, interruption | one operation at a time; a guard refused changes nothing |
| Workspace controller (`src/lib/workspace-controller.ts`) | snapshot, event sequence, receipts, command permit, capsule presentation | one command at a time: accept, reject, undo, safe mode, shape, import, ... | compensation after partial failure; an agent's commands pass the permit by; a command may be interrupted between two stores | the app shown is the one whose revision is; a failed decision changes nothing; a command that is remembered is not carried out again |
| Agent workspace (`src/lib/agent-workspace.ts`) | roles, their fibers, one session, the proposal of a turn | submit, cancel, select a model or a reasoning level | cancellation and resets beside a turn; two attempts | what the agent was told is what happens; a role is free when its turn is over |
| Capsule staging and stores (`src/lib/capsule-staging.ts`, `src/capsule/`) | bindings of accepted, candidate and restorable capsule | stage, bind, load, uninstall | several stores per step | an app is accepted only as its review allows |
| Extension execution (`src/sandbox/`) | none (a worker per run) | run, apply intents | runs race everything | intents need a declared and granted capability |
| Extension catalog (`src/extensions/`) | entries bound as candidate or accepted, grants, failure counts | stage, promote, reject, restore, enable, ... | storage | follows the decision on its capsule |
| Product capability broker (`src/capabilities/`) | decisions, usage, leases | decide, revoke, reserve, withReservation, streams | revoke against a running operation; rate windows; migration | no operation begins or goes on under a revoked or used-up decision |
| Sharing (`src/sharing/`) | candidate, installation records | review, activate, discard | records against Git refs | a share is active only with its installation |
| Control broker and bridge (`server/control-broker.ts`, `src/lib/workspace-control-bridge.ts`) | one grant, pending commands, event window; bridge flags, two permits | enable, disable, submit, nextCommand, complete, publish; reconcile, revoke | lost answers, revocation from both ends during a command | every submitted command is answered or its grant is gone, and none takes effect twice within the window of remembered receipts |
| Agent command bus (`src/axi/`) | bounded queue, pending responses | submit, take, shutdown | timeout against a late answer | each request answered once |
| Pi runtime (`server/pi-runtime.ts`) | sessions, one operation each | start, finish, cancel, close | cancel claims against finish and close | one active operation; a session can always be closed |
| Provider authentication (`server/`) | login attempts, credential page | start, reply, cancel | abandoned attempts, a page used once | at most one login per provider |
| Role continuity (`src/lib/role-continuity-repository.ts`) | one record with a generation | load, save, discard | two tabs | no save overwrites a generation it did not read |
| Operation journal (`src/lib/operation-journal.ts`) | bounded records | append, query | two bounds | contiguous sequence |
| Build, execution, shell (`src/build/`, `src/execution/`, `src/shell/`) | artifact store, one preview, file system | build, preview, commands | third-party runtimes | bounded |
| Product package, UI, CLI, native host | little | schemas, presentation, packaging | | |

**How they interact.** The controller runs one command at a time over the
kernel, the capsule bindings and the extension catalog; the agent reaches the controller through the command bus, a remote client
through the control broker and bridge. Extension runs reach the kernel directly,
without the controller's permit. The kernel serializes its operations with
`SubscriptionRef.modifyEffect` and saves inside that lock. The repository turns a
save into requests to the Git client, which queues them to one worker. The agent's
own commits reach the same worker through the same queue.

## Modules

| Module | Models |
| --- | --- |
| `Revisions` | `shared/revisions.ts`: revisions, events, the stored snapshot and its validator |
| `KernelTransitions` | the next state of each kernel operation, as operators on the kernel's state |
| `ShapingKernel` | the kernel over the single-record repository (`interface-repository.ts`): one action per operation, storage failures, restart |
| `GitRefs` | the worker's guarded operations on refs and commits |
| `GitInterfaceRepository` | the kernel over the Git repository: one action per request |
| `GitClient` | the client of the Git worker (`git-workspace.ts`): pages, fibers, the permit, the Web Lock, the worker's lease |
| `WorkspaceActivation` | apps: staging, decisions, undo, shape and safe mode in the controller, over `ShapingKernel`, the bindings and the catalog |
| `TurnService` | what the runtime promises its callers: abstract |
| `PiRuntime` | the runtime's sessions and operation controllers; implements `TurnService` |
| `AgentCommandBus` | the queue from the agent's shell to the page |
| `WorkspaceTurns` | a turn: the controller's permit, the agent workspace, the bridge, over `AgentCommandBus` and `TurnService` |
| `ControlBroker` | the grant and the commands submitted under it |
| `WorkspaceControlBridge` | the page's end of outside control, over `ControlBroker` |
| `ProductCapabilityBroker` | decisions, their store, and what runs under them |
| `KernelTransitionsProofs` | lemmas: each kernel operation preserves a sound state |
| `ShapingKernelProofs`, `GitInterfaceRepositoryProofs`, `GitClientProofs`, `WorkspaceControlBridgeProofs`, `OperationsProofs` (of the product: `ProductCapabilityBroker`; of the agent: `PiRuntime`), `WorkspaceTurnsProofs`, `WorkspaceActivationProofs` | inductive invariants and theorems |
| `MC...` | small instances for TLC |

`ShapingKernel` and `GitInterfaceRepository` compose the same transitions with two
implementations of one interface: a record written at once, and a chain of
requests.

### ShapingKernel

`kernel` is the value of `stateRef`; `journal` and `marker` are the two storage
keys. Every operation runs inside `modifyEffect` and is one action, with three
outcomes of `persist`: saved, failed, and saved without clearing the marker (the
caller is told it failed). `enterSafeMode` is two actions, because it writes the
marker before it takes the lock. `Restart` reads what is stored and reconciles it;
`RestartUnreadable` is a start whose storage cannot be read. A document is an opaque
value: what the intents of an extension make of a document is any document.

The variables `decided`, `inDoubt` and `safeReported` are history: who decided on
what, whether an operation that failed left memory and storage apart, whether safe
mode was reported.

### WorkspaceActivation

The variables of the kernel are those of `ShapingKernel`, whose actions its steps
take (`Kernel!accept`, ...). Beside them: `presentation` (what the page shows: the
accepted app, the candidate, the one undo returns to), `bindings` (the same in
storage), `catalog`, and `runner`: how far the command that holds the permit has
come, and an import of the agent, which passes the permit by. A capsule is one of three kinds:
static files (installed at once when the agent made it), one with source that
is checkpointed and built, one whose review blocks its activation. A step is one write to
one of the three stores; each may fail, and a control client's command may be interrupted between any two
(`interrupt`), with or without the effect of the write under way (`underWay`).

`asked` is history: apps whose activation somebody asked for with their review or their
document before them. `strays` is history too: that the agent has imported an app beside a command, or that one of the steps
after which the code leaves document and app apart has been taken. Each such step names itself with
`Strays`; they are described under "known divergences" below, and `AppFollowsDocument` speaks of all other
behaviours, those with failures that were compensated included.

Simplifications: a write of the presentation is one step, although it reads the
presentation before it stores; the Git checkpoint and the build are each one step that may fail, and the
second checkpoint after a generated package lock is left out, as is the failing checkpoint of a static app, which
leaves everything as it was; no share is under way; whatever an app is, it brings extensions.

### PiRuntime and TurnService

A session has three operation controllers that are alike; the model has one. `controller`,
`disposal`, `canceller` and `operation` follow the records and fibers of the source: a cancel claims the
active operation, aborts the agent, waits for the operation and then releases it; a close
waits two seconds, then interrupts. The agent is external: a generation ends when it
likes, and one that was told to stop ends sooner or later, unless its provider is stuck (`Stuck`). An abort
that comes before the generation stops nothing, as in the code: such a generation runs to its own
end, and `CancelFrees` does not speak of it. The specification is `RuntimeSpec`: the module's common names carry a prefix, so that
one module can extend it beside another. `IsTurnService` is the refinement: a session's
`turn` is the controller's active operation, `claimed` its claim. The stall watch of a shape and the
making of an agent are left out.

### WorkspaceTurns and AgentCommandBus

`waiting` and `holder` are the command permit; `call`, `fiber`, `session`, `proposals` follow one Shaper
turn from `dispatch` through the agent workspace to its outcome, with its second attempt. The
runtime is `TurnService`: `Runtime!Take` and so on. The bus is one request after the other, with its 30 s
timer as an action that is always possible while a submitter waits. `revoke` is the interruption of a control client's
command, `selectReasoning` the reset of the session outside the permit, `evict` another page's
session. Three calls may fail: `createFails` is a creation that fails before the runtime has made a session or whose reply is lost,
`closeFails` a closing that fails or is interrupted after the workspace has forgotten the session, `streamFails` a connection that is
refused or breaks. `interrupted` and `orphaned` are history: an interrupted turn leaves the role to whoever sets it next; `orphaned` has the sessions
that a creation interrupted or not answered, or a failing close, has left in the runtime. `NoSessionLost` says that these are the only
ways to lose one, and that a session left so is never the workspace's again nor a turn's. `Spec` lets a model work for ever; `EndingSpec` adds that it comes to an end.

Simplifications: a cancel's interruption takes effect at once; a request of the agent other than a proposal
is one kind (`Plain`); the App's turn is not modelled.

### ControlBroker and WorkspaceControlBridge

An operation of the broker holds its permit and is one action. The bridge has two fibers that matter, the
observer and `runNext`, and a fiber per command; `fiber[f].at` is the point at which each waits for a
call, a permit or the controller. Of the controller the model has whether control is enabled and the cache of
receipts: `order` has the commands that are remembered, the oldest first, `MAX_RECEIPTS` of them at most (256 in the code), `receipts` what is remembered of each. Commands of
the page itself take a place in it like those of outside clients; `Another` stands for any of them. A call to the broker may fail, with or without its
effect, an outside client may revoke at the broker, and a command may be sent again. `reload` empties the memory of the page, the receipts
included; the broker hears nothing of it and keeps its grant until the page enables control again.

A command enters the cache before it runs. `runCommand` is its effect, the whole or a part; `dispatchCommand` its outcome: it
succeeds, or fails before or after the effect, or succeeds with a result that cannot be decoded, which its client is told as a failure while its
receipt stays as it was. An interruption may come before or after the effect.

`since`, `ran`, `ended` and `forgotten` are history: how many commands were remembered after each one, how often each took effect in the window of its receipt,
the ways its runs ended, and which receipts were dropped or lost. What `RunsOnce` and `AnswersAreTrue` promise is what a client may
rely on, and no more:

- `RunsOnce`: a command takes effect at most once until `MAX_RECEIPTS` other commands were remembered since, or the page is loaded again. Sent again after that it
  runs again. `ARCHITECTURE.md:115` and the design of the control plane
  (`docs/superpowers/specs/2026-07-31-flect-observable-control-design.md:253`: "`commandId` is idempotent within a bounded recent-command window") promise no more.
- `AnswersAreTrue`: a success was one, or an earlier sending of the command was interrupted or had an unreadable result and the client was answered from its receipt, which
  does not tell these apart. A failure was one, whatever the command has changed by then. A conflict was not taken up, unless the page has forgotten that it was.

Not told apart: a command refused for its authority, which changes nothing, is one of the conflicts.

### ProductCapabilityBroker

One capability in one scope, asked for in several contexts (workspace and digest); scopes share only the
stored record, and resources and data classes are within or outside the manifest before a decision is
looked at. An operation of the broker is one action. `reserve`, `withReservation` and `finish` are the steps of
an invocation, between which anything may happen; a stream takes no lease and is inspected every 100 ms. `said` and
`uses` are history: what the user last allowed, and how often each decision had been used before each moment. `excused` is history: a read
of the store failed and nothing was written since; `AuthorityIsLatest`, `StoreFollowsMemory` and
`BeginsUnderLastWord` say nothing then, because the code goes on with what it has.

The older record stays for as long as one of its states is not represented in the new one, or when its removal fails, which the code ignores without a
warning. While it is there each load migrates what the new record does not hold. A choice for the session, or for one use, is not stored: over an older
record it takes the place of the migrated grant, and the next load brings that grant back. `unrecorded` says that the user's last word is in no record while an
older record is there; `LastWord` allows the migrated grant then and only then, so that `AuthorityIsLatest` and `BeginsUnderLastWord` have this as the one way in which an
older record undoes a choice, and `RevokingPreventsLaterInvocations`, which does not allow it, is violated.

Two tabs, which overwrite each other's record, are not modelled.

### GitInterfaceRepository

Durable: whether the repository directory exists (`existed`), commits and refs
(`repository`), the `marker` and the `receipt`. In memory: the kernel, the two `Ref`s of
the repository layer (`receiptRef`, `existedRef`), how far `enterSafeMode` has come,
and `work`, the save under way: the next state, the step it has reached, the
authoring commit it has read and the commit it has made. The kernel's lock is held
while `work` is not idle. A commit's content is a snapshot and a source tree, a
number for what the agent last authored. `products`, `inDoubt`, `halfSaved` and `mixed` are history: the documents that were decided
on with their trees, whether a call that failed left memory and storage apart, whether a save was cut after its
commit, and whether the program was started with `?safe=1` or a repair covered what was saved.

Each request is an action that is refused by its guards, fails, or has its effect.
Between any two the program may stop, the agent may commit, and `enterSafeMode` may
read or write its marker. The worker's two torn checkpoints (the first commit before
its branch, a proposal branch before its commit) are actions of their own.

Simplifications: a status request followed by requests whose guards repeat all that was
read is one action; the migration of `flect.revisions.v1` into Git is left out; the
repair of a missing `flect/last-known-good` inside load is unreachable from the
refs this repository writes and is left out; a failed open of a new repository is
the failing first request; interruption of a save is a stop. A commit always makes
a new commit (libgit2's `commit` on an unchanged tree is external).

`rest` lets the idle program stutter explicitly, so that deadlock checking stays on
and finds a save that cannot go on.

### GitClient

The pages of an origin share one repository directory. `Calls` are the fibers that use it. Each page has one client
(`client[t]`: `activeWorker`, `workerOperationCount`, and whether `activeWorkspaceId`
is set and `workerWorkspaceId` agrees with it), one `permit`, and workers numbered in
the order they were created. A fiber of a page is a call `<<t, slot>>`; `calls[c].at` is what it waits
for. An action is what the page's JavaScript runs between two suspensions: entering the
semaphore chooses the worker, being granted the lock posts the request (or the
reopening before it), an answer is processed together with the end of the lease. `jobs` holds the
requests a worker has received, with what it has read of the repository; `terminate()`
drops the worker's jobs. A worker reads (`begin`), then writes (`write`) or not
(`reply`), may crash, and may hang: nothing obliges it to go on.

Product code opens a repository before it uses it and always the same one, so there is one
workspace; a use before any open is not a state of the program. What
an operation does to the refs is `GitRefs`; here it is a read followed by a write that depends on what was read, and a write cut
in the middle is a torn checkpoint of `GitInterfaceRepository`. A page that the browser freezes is not
modelled: its timers stop, and so does its promise.

## Runs

| Run | Instance | Shows |
| --- | --- | --- |
| `kernel_safety` | see `kernel_safety.cfg` | the type invariant, `CandidateFollowsActive`, `SafeModeIsProtected`, `OnlyDecidedIsShown`, `JournalLoadsUnlessExtensionEvent`, `ReportedSafeModeSurvives`, `RestartKeepsReportedState` |
| `git_repository` | 2 documents, 3 transitions, 2 identifiers, 1 extension, 5 commits, 1 authored tree, 1 stop, 1 fault (not both where a start has handed out both identifiers), both launchers | `ShownIsDecided`, `CrashShowsOldOrNew`, `RefsMatchReceipt`, `SourceFollowsDocument`, and `RecoverySurvives`: after the third failure in a row, the next start is in safe mode with the same extension disabled and the same product to restore; after a failure stored in safe mode, it is in safe mode |
| `git_client` | 2 pages, one of 2 fibers, one of 1, 4 requests, a lease of 2 operations, 1 reload | `NoLostUpdate`, `AnswersAreHonest`, `WaitsForLiveWorker`, `EveryRequestEnds` |
| `activation` | 3 apps and a plain document, 5 transitions with 3 identifiers, 1 disturbance: a failing step, an interruption, an unreadable store or an import of the agent | `ActivationIsReviewed`, `AppFollowsDocument`, `ShownAppStaysBound`, `FailedDecisionChangesNothing` |
| `activation_unasked` | the same | violated: `ActivationIsExplicit` |
| `pi_runtime` | 2 sessions, of which one is kept, 2 prompts, one of them stuck, 2 cancels | `AbortsItsOwn`, `IsTurnService` (refinement, with its liveness), `CancelFrees` |
| `agent_turn` | 2 shape commands, one with an agent that uses `flect`, the other of a control client whose grant may be revoked, a cancel or a change of model, 2 sessions, a bus of 1, 2 events of which 1 disturbs (an interruption, a reset, an eviction, a failing call) | `PromisesKept`, `RoleFollowsTurn`, `NoSessionLost`, `BusyOnlyAfterInterruption`, `EveryCommandEnds` |
| `agent_cancel` | 1 shape command and its cancel | violated: `CancelStops` |
| `control_plane` | 1 command and 1 `disable-control`, 1 pending at most, 2 grants, 2 toggles of the user, 1 disturbance (a failing call, a reload, a revocation at the broker) | `RevocationCompletes`, `EnableTakesEffectUndisturbed` |
| `control_receipts` | the same, each sent up to twice, 2 receipts, 1 other command of the page | `NobodyIsForgotten`, `AnswersAreTrue`, `RunsOnce` |
| `capability` | 2 workspaces, 2 callers, an older record and 1 decision, 3 invocations, 3 units of time, 2 faults, 2 reloads | `AuthorityIsLatest`, `StoreFollowsMemory`, `RevocationStops`, `OnceIsOnce`, `RateBounded`, `BeginsUnderLastWord`, `StreamEnds` |
| `capability_legacy` | an older record that stays, 1 decision | violated: `RevokingPreventsLaterInvocations` |

**Bounds.** `MaxSequence` bounds the transitions of the event sequence, `MaxId` the
identifiers of one start, `MaxFaults` the failing calls, and, over Git,
`MaxCommits`, `MaxStops` and `MaxSource`. Two documents tell the accepted product from the
compiled one; the kernel's run has a third for the candidate. One extension has three
failures, and one in safe mode; what two of them do to each other through the kernel's snapshot is left to the theorems, which hold for any number. The kernel's run has room for
the third failure of an extension and a restart after it. The Git run has room for a candidate, its supersession and its decision, for two changes and an undo, or for the three failures of an
extension, each cut anywhere, followed by the load, the repair and the next save; a second stop adds only a second load of the same
refs. Five commits are the first one, one for each transition and one of the agent. Failures of an extension after a product of its own was accepted take longer, and
are left to the theorem.

For the client, four requests are an open and a use in each of two pages, or three uses
on one page after its open, past a lease of two. A lease of two makes a worker be recycled both after an open and
between two uses; 16 differs only in when. Two fibers of one page compete for its client, and a
fiber of another page for the lock.

For apps, five transitions are two activations and an undo, or an import, its discard and an
activation; the apps are one of each kind that staging distinguishes. One disturbance is one failed step
with all its compensations; a compensation that fails as well is reached because the catalog may
refuse a promotion without a fault. In the runtime, two sessions with a limit of one make an eviction, and two
prompts the refusal, the join and the cancel of the wrong operation. In a turn, two events are a proposal that times out and its retry,
or one of them with a disturbance. In the control plane, a command sent again under a second grant while the first fiber of it runs
is the longest story; it needs two grants and two toggles. Two receipts are fewer than the commands of that story, the toggles and
the other command of the page included, so that receipts are dropped while their commands run, wait to be resent, or have
been answered; a larger cache drops them later. A reload takes the place of the other disturbances. Liveness needs no resent command: what a revocation waits for is the
fibers, the permits and the broker, and those of one command occupy them all. For capabilities, the older record is an allowance and the decision what takes it back
or narrows it, or an allowance that a revocation takes back; three units of time are a window and the beginning of the next; two faults let the removal of the
older record fail twice, so that it is still there beside a stored decision and in a new page.

**Fairness.** In `GitClient` the semaphore and the Web Lock
serve their waiters in order, which strong fairness of `acquire` or `grant` of each
call abstracts: a call that can enter again and again does. Answers, timers and the release of
a lock are callbacks the page's event loop runs, hence weak fairness of `receive`,
`deadline` and `settle`. Nothing is assumed of the worker: that every request ends rests on the
deadline, which covers the reopening as well as the request.

In `WorkspaceControlBridge`, `observe` is weakly fair because the code repeats it every second, `runNext` and the
steps of each fiber are strongly fair because the two semaphores serve their waiters in order, and so is
`claim`, which waits for the controller's permit. Users, clients and failing calls owe nothing. In `PiRuntime` the runtime's own fibers run on
(weak fairness), and an agent that was told to stop does, the stuck ones excepted. In `WorkspaceTurns`
every fiber of the page runs on, the permit is a queue in the model, and the runtime ends a turn that was cut; only
`EndingSpec` asks the model behind a turn to come to an end. In `ProductCapabilityBroker` only the periodic inspection of a stream is fair.
`CHECK_DEADLOCK FALSE` stands where the bounded system stops: no command is left.

**What the violations show.** Each is described, with the lines of code and
document, under `findings` in `PROJECT.json`:

- a choice for the session that took the place of a migrated grant is revoked, and the next load migrates the old grant again from the record
  that was left behind: an operation begins although the user's last word was the revocation (`RevokingPreventsLaterInvocations`);
- an import of the agent may outlive its turn; the next turn finds its proposal, supersedes it and
  accepts, and the imported app is activated although nobody asked for it (`ActivationIsExplicit`);
- a `cancel-role` command waits for the permit of the turn it is to stop (`CancelStops`).

**Known divergences.** Other places where the code and a document differ, or where the code
leaves a state nobody would ask for. The properties above exclude them by name.

- A candidate made by an extension does not survive a restart (`docs/recovery.md:16`); undo can be refused after an accept,
  because identifiers are reused (`ARCHITECTURE.md:884`).
- Over Git: reported safe mode can be lost to a save under way (`docs/recovery.md:53`); a second reload leaves recovery
  without the explicit restore (`docs/recovery.md:59`); the third extension failure rewrites `flect/accepted`
  (`ARCHITECTURE.md:861`); a restore from `?safe=1` mixes one revision's document with another's source (`README.md:49`); so does
  a restore after a start that could read nothing, which puts the compiled document over the accepted commit's source.
- Over Git: the failure of an extension in safe mode is stored with an event the validator refuses (`shared/revisions.ts:236`). The next start
  then rebuilds from `flect/last-known-good`, where another extension that recovery had disabled is enabled again
  (`ARCHITECTURE.md:888`). `RecoverySurvives` therefore promises no more than safe mode after such a failure. It takes two extensions; the proof of
  the property for one found it.
- A `disable-control` command over a grant that was already revoked at the broker leaves the bridge waiting for
  `commandLaunchPermit`, which the same fiber holds (`workspace-control-bridge.ts:178`, 221-229): enabling control again has no
  effect until the page is reloaded (`docs/local-control.md:162`). `EnableTakesEffectUndisturbed` excludes the revocation at the broker.
- A status request of the bridge that is answered late undoes an enable by the user in between; a `disable-control` that the controller
  then refuses as stale has already interrupted other clients' commands.
- A command whose receipt was dropped, or lost with its page, runs again when it is resent; one that was interrupted is told as a success when it is
  resent, and one that failed may have changed something. The documents leave all three open; a client that resends has to look at the workspace first.
- A creation of a session that is interrupted or whose reply is lost, and a closing that fails, leave a session in the runtime that no page knows
  (`agent-workspace.ts:549-554`, 588); only the limit of sessions evicts it.
- An App turn that ends with an error event is reported ready and succeeded (`agent-workspace.ts:1393-1415`).
- `restore-safe-mode` restores the document and not the app (`docs/recovery.md`: "restore the last-known-good interface"): after the
  second app was accepted over the first, it shows the first one's document with the second one's capsule.
- A plain document applied over an app leaves the app shown, and a later undo sets them apart.
- `enter-safe-mode` with an open candidate leaves the candidate in the presentation and the catalog: shaping is refused for it,
  and accept and reject say that there is no proposal.
- A staging whose preview, supersession or presentation fails, or an interruption in the middle of one, leaves a proposal without its app:
  activating it shows only the placeholder document and drops the app.
- A failure to read the capsules at a start, followed by any decision, overwrites their bindings.
- An undo whose compensation fails leaves the presentation undone over a kernel that is not.

`CrashShowsOldOrNew` speaks of a program outside safe mode. It excludes snapshots whose candidate an extension made
and says nothing once a save was cut after its commit (`halfSaved`) or
while memory and storage are known to differ (`inDoubt`): what a cut save leads to
is what the property says at the cut, not after the repair. `SourceFollowsDocument` too says nothing after a cut
save, nor after one of the two restores above, which `mixed` records; a memory in doubt does not excuse it.

## Proofs

Every theorem is proved for any values of the constants that satisfy the assumptions declared with them, which
say what the code fixes: the compiled interface is a document, an absent value is none of the present ones, bounds are numbers, a
lease or a limit is at least one. A safety property of a passing run is nowhere proved from an assumption that the run does not evaluate.

| Property (run) | Theorem | Rests on |
| --- | --- | --- |
| `TypeOK`, `CandidateFollowsActive`, `SafeModeIsProtected`, `OnlyDecidedIsShown` (`kernel_safety`) | `ShapingKernelProofs!TypeCorrectness`, `CandidateSafety`, `SafeModeSafety`, `DecisionSafety` | `Inv` |
| `JournalLoadsUnlessExtensionEvent`, `ReportedSafeModeSurvives`, `RestartKeepsReportedState` (`kernel_safety`) | `JournalSafety`, `ReportSafety`, `RestartSafety` | `Inv`, `RecoveryInv` |
| `ShownIsDecided`, `CrashShowsOldOrNew`, `RefsMatchReceipt`, `RecoverySurvives` (`git_repository`) | `GitInterfaceRepositoryProofs!DecidedSafety`, `CrashSafety`, `RefsSafety`, `RecoverySafety`; `TypeCorrectness` besides | `Inv` |
| `SourceFollowsDocument` (`git_repository`) | `SourceSafety` | `Inv`, `Sourced` |
| `NoLostUpdate`, `WaitsForLiveWorker` (`git_client`) | `GitClientProofs!WritesAreSerial`, `WorkersAreLive` | `Inv` |
| `AnswersAreHonest` (`git_client`) | `CallersAreToldTheTruth` | `Inv`, `Answered` |
| `NobodyIsForgotten`, `RunsOnce`, `AnswersAreTrue` (`control_receipts`) | `WorkspaceControlBridgeProofs!RequestsAreAnswered`, `CommandsRunOnce`, `ClientsAreToldTheTruth` | `Inv` |
| `AuthorityIsLatest`, `StoreFollowsMemory`, `RevocationStops`, `OnceIsOnce`, `RateBounded`, the action property `BeginsUnderLastWord` (`capability`) | `OperationsProofs!AuthoritySafety`, `StorageSafety`, `RevocationSafety`, `OnceSafety`, `RateSafety`, `LastWordSafety` | `Inv` |
| `PromisesKept`, `RoleFollowsTurn`, `NoSessionLost`, the action property `BusyOnlyAfterInterruption` (`agent_turn`) | `WorkspaceTurnsProofs!PromiseSafety`, `RoleSafety`, `SessionSafety`, `BusySafety` | `Inv` |
| `AbortsItsOwn`, the safety half of `IsTurnService` (`pi_runtime`) | `OperationsProofs!AbortSafety`, `ServiceSafety` | `RuntimeInv` |
| `ActivationIsReviewed`, `ShownAppStaysBound`, `FailedDecisionChangesNothing`, `AppFollowsDocument` (`activation`) | `WorkspaceActivationProofs!ActivationSafety`, `BindingSafety`, `FailedDecisionSafety`, `DocumentSafety` | `Inv` |

**The kernel.** None of the four invariants of `ShapingKernelProofs!Inv` is inductive alone: a candidate follows the active
interface only if the state it is previewed, superseded or extended from is
well-typed and outside safe mode, and a restart is sound only if what was stored
was. `Inv` says that the kernel's state is `Sound` (typed,
its candidate open, made for the active interface and outside safe mode, safe mode
showing the compiled interface), that the other variables are typed, and that what
kernel and journal show was decided on. `KernelTransitionsProofs` has one lemma per
kernel operation: from a sound state it makes a sound state, and shows documents that
the state before it held, the document decided on, or the compiled one. The main module has one step per action and reduces
each to its lemma and to one of the lemmas about `persist`, the recovery
transitions, and a start.

What a restart finds needs more. `RecoveryInv` says that the journal, and what would be stored next, can be read back
(`Journaled`), that memory and journal both know of a reported safe mode (`ReportedSafe`), and that a journal in no doubt, without the
marker, would start what the program has (`JournalRemembers`). The argument is that every operation but an extension's success stores an event that
matches its own state (`Writes`), and that a save has one of three outcomes, of which one changes nothing and one sets `inDoubt`.

**The kernel over Git.** A save is a chain of requests, so what the properties say of its ends has to be said at each of them. `Inv` has ten parts.
`Typed` and `KernelIsSound` rest on the same lemmas as the kernel's proofs; every snapshot in a commit is one those operations make. `OneReceipt`: memory has
the receipt that storage has, or none. `Unread`: where a load could read nothing there is the compiled interface in safe mode, and a save
says no more. `Follows` says what the state that is being saved has from the kernel's. `Chain` says at each step of the save, the first one and
the repair included, where the refs are and what the commit just made holds: a request is guarded by what the requests before it did, and the
agent's commits move `flect/authoring` alone. `Matches` has the refs where the receipt says before the chain and after. `Decided` counts a revision as decided from the commit that accepts
it, which is before its receipt.

That gives `RefsMatchReceipt` and `ShownIsDecided`. What a start finds needs the last two parts, about a storage in which no save was cut after its commit. `Stored`: the accepted
commit and the last known good belong together (`Pair`: the latter is what undo of the former returns to), a candidate in the receipt was
made for the accepted one (`Backed`), and the receipt's commit would start the kernel's state as it is (`Reflects`). `StoredSafe`: in safe
mode it offers the same product with the same extensions disabled, but for the two snapshots the validator refuses. `CrashSafety` and `RecoverySafety`
then follow the three ways of a start: by the receipt (`ReloadActivated`), by the refs alone
(`ReloadRecovered`), and with nothing readable, which `Recovers` rules out. The proof asked for four facts that the runs
alone would not have suggested: a commit on `flect/accepted` has no candidate, the candidate's identifier is the receipt's, the receipt's commit holds
the saved state until the save has ended, and a failure in safe mode leaves safe mode as it is.

`SourceFollowsDocument` speaks of one ref. The save of a rollback or a restore, however, takes its tree from
`flect/last-known-good`, and every other save keeps that of `flect/accepted`. So `Sourced` says of both commits of a product, by
the refs and by the receipt, that they carry a tree their document was decided with (`Traced`; the accepted one may show safe mode instead), that the older one is what
undo of the newer returns to (`Returns`, but between the commit of a save and its last ref), and that this is the document the kernel itself has as last known
good. That last part is where `?safe=1` and a start that could read nothing break it, and why they are excluded: they alone set memory and refs apart.

**The Git client.** That no update is lost says nothing of what a
worker is about to write, so it is not inductive. `Inv` adds: the call that waits for a worker
holds both the lock and, unless abandoned, its page's permit (`Held`); the workers the calls and clients refer to
are live and were created in order (`Live`); every job of a live worker belongs to the one call that holds the lock, and a
running one has read the current version (`Single`). Each way a call gives up the lock therefore
has to leave no job behind, which is what `terminate()` and the answer do. `Answered` relates each call to the job posted for it:
what the job has written is what the call counts as applied, and a result follows only from the answer to the request itself, never
from that to a reopening.

**The control plane.** The broker's part (`BrokerInv`): what is queued was submitted, what is pending waits under the grant that is. The
bridge's (`FiberInv`): a fiber that rests or takes a command holds neither permit, and what `runNext` holds is complete. The cache (`CacheInv`): the commands with a
receipt are those in `order`, each once, as many commands were remembered after each as stand behind it, and a command without one is outside its
window. That is what makes the counter `since`, which knows nothing of the cache, agree with what the cache forgets: with a cache one entry smaller it
does not, and `RunsOnce` fails. The story of a command (`RunInv`): one fiber executes at a time, and has had no effect before it has one; each receipt
says how its command ended (`ReceiptSays`), and a command without one was not taken up or is forgotten; every answer on its way - in a fiber, in `runNext`, at the
broker - is `Settled`: it says of its command what no later step, not even the loss of all receipts, can make untrue. `AnswersAreTrue` alone is not inductive
because an answer passes through three places before a client has it.

**The capability broker.** A decision has one version, in memory and storage (`OneVersion`); storage has every durable decision of memory, and
no other unless it could not be read (`Stored`); while a version 1 grant can still be migrated it is the user's last word, because nothing
was decided since or no record holds what was (`LegacyFirst`), and a version 1 record that says "revoked" has never permitted anything (`LegacyRevoked`); what runs has its lease or is being interrupted (`Leased`), under no decision that memory or storage has as revoked
(`NoneRunsRevoked`: of storage too, as a load may bring back what memory has lost); the usage of a decision to allow once counts every
reservation (`OnceCounts`). For the rate, the history has for each decision the number of its reservations before each moment, so that the uses in a
span of time are a difference and not a sum. `RateCounts` says that the usage counts those since the window last began, that no span which ends there
has more than the limit, and that no span at all has more than twice that: a window begins when the one before has passed and not when a reservation leaves it. `LastWordSafety` is an action property: it follows from `Inv` before the step.

**The turns.** What the agent was told stands in the receipt of its request, what the turn comes to in its outcome, and the latch is between them:
`Promised` says that a proposal which was taken, whether or not its submitter still waits for the answer, is in the latch of its turn while
the turn is under way and in its outcome when it succeeded. For that no other turn may have the latch: `Latched`, `TurnHolds` and `Permit` say that what is under way holds the
permit, that one turn is, and that the queue has each command once. The sessions need the other half: a turn that asks or streams is in the workspace's
session (`SessionOf`), `Kept` and `Apart` keep what is used apart from what is being closed or was left behind, whichever call failed, and `Occupied` says what a turn that still occupies a session is: under way with its attempt unanswered, or interrupted, or in a session the workspace
has let go of. `BusySafety` follows from it. The proof found that a document must not be one of the two marks of an empty latch, which the runs could not show.

**The runtime and its refinement.** `RuntimeInv` relates the controller, the fiber of an operation, the generation of the agent,
the fiber that cancels and the disposal. An operation under way occupies its session (`UnderWay`), a claim is on what occupies it (`Claimed`), the agent generates for the
operation under way or for one a disposal gave up (`Generated`), and what a disposal found active is all that may still be
(`ClosesWhatItFound`). `ServiceSafety` states what refinement means for safety: the initial states of `PiRuntime` are ones of `TurnService`, and each step
is one of its steps or none. It has a lemma per action, which names the step of the service that the action takes, or that it takes none.

**Activation.** A command goes through stores that fail one by one, so that page, bindings, catalog and kernel
disagree in the middle of it. `Inv` says step by step how far they do. `Follows` has the difference
between presentation and kernel at each step of staging, deciding, undoing and shaping: a candidate the presentation lacks, an app that
is installed but not yet active, a copy from before that fits. It also has the journal mirror the kernel when in no
doubt, because a reload takes its presentation from bindings and its kernel from the journal. `PutsBack` says that a decision which runs alone
has the proposal it began with until its last step, and what has been put back at each step of the compensation. `StaysBound` and `ReviewedOnly` say of every copy,
that of the command included, what the properties say of two. `KernelTyped` is the kernel's own `Sound`, so that each step of the
controller rests on a lemma that says what the kernel's operation does with the revisions and identifiers the controller reads
(`AcceptIs`, `RejectIs`, `RestartIs`, ...), proved from the lemmas of `KernelTransitionsProofs`.

Two notes for those who change the proofs. Each `Inv` was checked with TLC, as an invariant of the component's run, before it was proved. Several fields of one
element of a function are changed with one nested `EXCEPT`, never with two updates at the same
argument: of the latter tlapm 1.4.5 makes an obligation from which its solver can derive anything.

**Only model-checked.**

- Liveness, which is out of the prover's reach: `EveryRequestEnds`, `RevocationCompletes`, `EnableTakesEffectUndisturbed`, `StreamEnds`,
  `CancelFrees`, `EveryCommandEnds`, and the fairness of `IsTurnService`.
- What the configurations bound and the theorems do not: that the interesting cases happen at all. A theorem holds of a model in which nothing
  happens, too; the runs reach every action, and each property fails when one definition of its model is changed.

## Plan

1. *Done.* `Revisions`, `KernelTransitions`, `ShapingKernel`, `GitRefs`,
   `GitInterfaceRepository`, the kernel's first theorems.
2. *Done.* `GitClient`, `ProductCapabilityBroker`, `ControlBroker` and `WorkspaceControlBridge`, `TurnService` and `PiRuntime`,
   `AgentCommandBus` and `WorkspaceTurns`, `WorkspaceActivation`.
3. *Done.* Proofs of the safety invariants of the kernel, the kernel over Git, the Git client, the capability broker, the control plane, the runtime (with
   its refinement), the turns and the activation of apps.
4. `InterfaceLifecycle`, an abstract specification of what the kernel promises, implemented by `ShapingKernel`.
5. `ShareLifecycle`: candidate and installation records against Git refs, and sharing inside accept and reject.
6. `RoleContinuity`: two tabs, with and without Web Locks; the credential page and `ProviderLogin`.
7. Stores: capsule artifacts, build artifacts, the operation journal.

Liveness stays with TLC.

## Not modelled

The components marked `not_modelled` in `PROJECT.json`, each with its reason. Within the
modelled ones: the contents of documents and files, what an intent does to a
document, sizes and limits of stored text, and the wording of errors.
