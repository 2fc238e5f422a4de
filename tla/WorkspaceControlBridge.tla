------------------------ MODULE WorkspaceControlBridge ------------------------
(* The page's end of outside control (src/lib/workspace-control-bridge.ts)      *)
(* composed with the broker and with what it uses of the workspace controller:  *)
(* whether control is enabled, and the receipts of commands that ran: a bounded *)
(* cache in the memory of the page, which a reload empties.                      *)
(*                                                                             *)
(* Two fibers of the bridge matter.  The "observer" reconciles the transport    *)
(* with the controller after events and every second; "runNext" takes commands. *)
(* Each command runs in a fiber of its own.  A call to the broker is one        *)
(* action: what its fiber does with the answer is the next one.                 *)
EXTENDS ControlBroker

CONSTANTS
    MAX_RECEIPTS,  \* the commands whose receipts the controller keeps (256)
    Another,       \* stands for the identifier of any command of the page itself
    MaxToggles,    \* bounds how often the user enables or disables control
    MaxOthers,     \* bounds the other commands of the page
    MaxDisturbances  \* bounds the failing calls to the broker, the
                     \* POST /v1/control/disable of outside clients, and reloads, together

ASSUME BridgeAssumption ==
    /\ MAX_RECEIPTS \in Nat \ {0} /\ Another \notin Requests
    /\ MaxToggles \in Nat /\ MaxOthers \in Nat /\ MaxDisturbances \in Nat

VARIABLES
    control,              \* controller.snapshot.control.enabled
    receipts,             \* what the controller remembers of each command (cache)
    order,                \* the commands it remembers, the oldest first
    since,                \* history: commands remembered since each was, up to MAX_RECEIPTS
    ran,                  \* history: how often each took effect since it was last unknown
    ended,                \* history: the ways its runs ended
    forgotten,            \* history: commands whose receipts were dropped, or lost in a reload
    stale,                \* commands that expect a sequence the controller has passed
    enabled,              \* the bridge has enabled the transport
    revocationInFlight,
    activeCommandFibers,  \* commands whose fibers the bridge can interrupt
    running,              \* where each command's fiber is
    fiber,                \* where the two fibers of the bridge are
    reconcilePermit, commandLaunchPermit,  \* who holds them
    toggles, others, revokes, faults, reloads  \* bounded counters

cache == <<receipts, order, since, forgotten>>
did == <<ran, ended>>
controller == <<control, cache, did, stale>>
permits == <<reconcilePermit, commandLaunchPermit>>
bounds == <<toggles, others, revokes, reloads>>
bridgeVars == <<controller, enabled, revocationInFlight, activeCommandFibers, running, fiber,
                permits, bounds, faults>>
vars == <<brokerVars, bridgeVars>>

disturbances == revokes + faults + reloads

Fibers == {"observer", "runNext"}
Nobody == "nobody"
NoEnvelope == "none"
Runs == Commands \X (1..MaxSubmits)  \* the fibers of commands: one may be sent again
Places == {"idle", "reconcile", "enabling", "publishing", "clearing", "disabling", "checking",
           "confirm", "revoking", "withdrawing", "asking", "taking", "holding", "dispatching",
           "acknowledging"}

\* Where the fiber of a command is: it may have an effect before it has an outcome.
Executing == {"executing", "effected"}
RunStates == {"none", "started"} \union Executing \union Answers
Ends == {"succeeded", "failed", "unreadable", "interrupted"}

FiberStates == [at : Places, grant : 0..MaxGrants,
                envelope : Revocations \union Commands \union {NoEnvelope},
                answer : Answers \union {"none"}]

TypeOK ==
    /\ BrokerTypeOK
    /\ control \in BOOLEAN /\ enabled \in BOOLEAN /\ revocationInFlight \in BOOLEAN
    /\ receipts \in [Requests -> {"none", "accepted", "completed", "failed"}]
    /\ order \in Seq(Requests \union {Another}) /\ since \in [Requests -> 0..MAX_RECEIPTS]
    /\ ran \in [Requests -> Nat] /\ ended \in [Requests -> SUBSET Ends]
    /\ forgotten \subseteq Requests /\ stale \subseteq Requests
    /\ activeCommandFibers \subseteq Runs
    /\ running \in [Runs -> RunStates]
    /\ fiber \in [Fibers -> FiberStates]
    /\ reconcilePermit \in Fibers \union {Nobody}
    /\ commandLaunchPermit \in Fibers \union {Nobody}
    /\ \A f \in Fibers : fiber[f].at = "idle" => f \notin {reconcilePermit, commandLaunchPermit}
    /\ toggles \in 0..MaxToggles /\ others \in 0..MaxOthers /\ disturbances \in 0..MaxDisturbances

AtRest == [at |-> "idle", grant |-> NoGrant, envelope |-> NoEnvelope, answer |-> "none"]

Init ==
    /\ BrokerInit
    /\ control = FALSE /\ enabled = FALSE /\ revocationInFlight = FALSE
    /\ receipts = [r \in Requests |-> "none"] /\ order = <<>>
    /\ since = [r \in Requests |-> MAX_RECEIPTS]
    /\ ran = [r \in Requests |-> 0] /\ ended = [r \in Requests |-> {}]
    /\ forgotten = {} /\ stale = {}
    /\ activeCommandFibers = {} /\ running = [r \in Runs |-> "none"]
    /\ fiber = [f \in Fibers |-> AtRest]
    /\ reconcilePermit = Nobody /\ commandLaunchPermit = Nobody
    /\ toggles = 0 /\ others = 0 /\ revokes = 0 /\ faults = 0 /\ reloads = 0

-----------------------------------------------------------------------------
(* Steps of the bridge's fibers.                                                *)

goes(f, place) == fiber' = [fiber EXCEPT ![f].at = place]

\* A failing call: the request or its answer is lost.
fault == disturbances < MaxDisturbances /\ faults' = faults + 1

\* Mutant: only the launch permit is given back.
Released_Launch(f) ==
    /\ commandLaunchPermit' = IF commandLaunchPermit = f THEN Nobody ELSE commandLaunchPermit
    /\ UNCHANGED reconcilePermit

\* The fiber has reconciled, or has handled a failing transport.  runNext gives back what
\* it holds of a disable-control, and handles the failure of its completion.
Released(f) ==
    /\ reconcilePermit' = IF reconcilePermit = f THEN Nobody ELSE reconcilePermit
    /\ commandLaunchPermit' = IF commandLaunchPermit = f THEN Nobody ELSE commandLaunchPermit

returns(f) ==
    /\ Released(f)
    /\ fiber' = [fiber EXCEPT ![f] = IF @.answer = "unavailable"
                                     THEN [AtRest EXCEPT !.at = "checking"] ELSE AtRest]

\* commandPermit: one command at a time is carried out.
permitFree == \A run \in Runs : running[run] \notin Executing

\* Fibers of commands are interrupted.  A command that is under way may have had its effect,
\* and keeps the receipt it has.
interrupts(runs) ==
    /\ running' = [r \in Runs |-> IF r \in runs THEN "none" ELSE running[r]]
    /\ ended' = [r \in Requests |->
                    IF \E run \in runs : run[1] = r /\ running[run] \in Executing
                    THEN ended[r] \union {"interrupted"} ELSE ended[r]]

\* interruptActiveCommands, for a fiber that holds the launch permit: none can be added.
interruptActiveCommands == interrupts(activeCommandFibers) /\ activeCommandFibers' = {}

\* The command has a receipt; the commands that Another stands for are always new ones.
known(id) == id # Another /\ id \in ToSet(order)

\* Mutant: one receipt fewer is kept.
enters_Early(id) ==
    IF known(id) THEN order
    ELSE Append(IF Len(order) < MAX_RECEIPTS - 1 THEN order ELSE Tail(order), id)

\* The order of the receipts when one is remembered: a command that is known keeps its
\* place, an unknown one takes that of the oldest when the cache is full.
enters(id) ==
    IF known(id) THEN order
    ELSE Append(IF Len(order) < MAX_RECEIPTS THEN order ELSE Tail(order), id)

remember(id, receipt) ==
    /\ order' = enters(id)
    /\ receipts' = [r \in Requests |-> IF r = id THEN receipt
                                       ELSE IF r \in ToSet(order') THEN receipts[r] ELSE "none"]
    /\ since' = IF known(id) THEN since
                ELSE [r \in Requests |->
                         IF r = id THEN 0
                         ELSE IF since[r] = MAX_RECEIPTS THEN MAX_RECEIPTS ELSE since[r] + 1]
    /\ forgotten' = forgotten \union ({r \in Requests : receipts[r] # "none"} \ ToSet(order'))

\* A command of the page itself is remembered like those of outside clients.
rememberOther == remember(Another, "accepted")

\* reconcile, once its permit is acquired: what to do depends on the snapshot and `enabled`.
observe ==
    /\ fiber["observer"].at = "idle"
    /\ goes("observer", "reconcile")
    /\ UNCHANGED <<brokerVars, controller, enabled, revocationInFlight,
                   activeCommandFibers, running, permits, bounds, faults>>

reconcile(f) ==
    /\ fiber[f].at = "reconcile" /\ reconcilePermit = Nobody
    /\ \/ /\ control
          /\ reconcilePermit' = f
          /\ goes(f, IF enabled THEN "publishing" ELSE "enabling")
          /\ UNCHANGED <<commandLaunchPermit, running, ended>>
       \/ /\ ~control /\ enabled /\ ~revocationInFlight
          /\ reconcilePermit' = f /\ goes(f, "clearing")
          /\ interrupts(activeCommandFibers)
          /\ UNCHANGED commandLaunchPermit
       \/ /\ ~control /\ (enabled => revocationInFlight)
          /\ returns(f)
          /\ UNCHANGED <<running, ended>>
    /\ UNCHANGED <<brokerVars, control, cache, ran, stale, enabled, revocationInFlight,
                   activeCommandFibers, bounds, faults>>

\* The fibers it interrupted have ended; those launched meanwhile are forgotten too.
clearing(f) ==
    /\ fiber[f].at = "clearing"
    /\ activeCommandFibers' = {}
    /\ goes(f, "disabling")
    /\ UNCHANGED <<brokerVars, controller, enabled, revocationInFlight, running,
                   permits, bounds, faults>>

enabling(f) ==
    /\ fiber[f].at = "enabling" /\ returns(f)
    /\ \/ enable /\ enabled' = TRUE /\ UNCHANGED faults
       \/ fault /\ UNCHANGED <<brokerVars, enabled>>
       \/ fault /\ enable /\ UNCHANGED enabled
    /\ UNCHANGED <<controller, revocationInFlight, activeCommandFibers, running,
                   bounds>>

\* Mutant: the permit is not given back.
disabling_KeepsPermit(f) ==
    /\ fiber[f].at = "disabling" /\ disable /\ enabled' = FALSE
    /\ fiber' = [fiber EXCEPT ![f] = AtRest]
    /\ UNCHANGED <<controller, revocationInFlight, activeCommandFibers, running,
                   permits, bounds, faults>>

disabling(f) ==
    /\ fiber[f].at = "disabling" /\ returns(f)
    /\ \/ disable /\ enabled' = FALSE /\ UNCHANGED faults
       \/ fault /\ UNCHANGED <<brokerVars, enabled>>
       \/ fault /\ disable /\ UNCHANGED enabled
    /\ UNCHANGED <<controller, revocationInFlight, activeCommandFibers, running,
                   bounds>>

\* publishSnapshot needs the grant.
publishing(f) ==
    /\ fiber[f].at = "publishing"
    /\ \/ grant # NoGrant /\ returns(f) /\ UNCHANGED faults
       \/ /\ IF grant = NoGrant THEN UNCHANGED faults ELSE fault
          /\ goes(f, "checking") /\ UNCHANGED <<reconcilePermit, commandLaunchPermit>>
    /\ UNCHANGED <<brokerVars, controller, enabled, revocationInFlight,
                   activeCommandFibers, running, bounds>>

\* reconcileTransportFailure: nothing unless the broker says that there is no grant.
checking(f) ==
    /\ fiber[f].at = "checking"
    /\ \/ /\ grant = NoGrant /\ goes(f, "confirm")
          /\ UNCHANGED <<reconcilePermit, commandLaunchPermit, faults>>
       \/ /\ IF grant # NoGrant THEN UNCHANGED faults ELSE fault
          /\ returns(f)
    /\ UNCHANGED <<brokerVars, controller, enabled, revocationInFlight,
                   activeCommandFibers, running, bounds>>

\* confirmTransportRevocation: under the launch permit, interrupt, disable control in the
\* controller if it is enabled, disable the transport.
confirm(f) ==
    /\ fiber[f].at = "confirm" /\ commandLaunchPermit = Nobody
    /\ commandLaunchPermit' = f /\ revocationInFlight' = TRUE
    /\ interruptActiveCommands
    /\ goes(f, IF control THEN "revoking" ELSE "withdrawing")
    /\ UNCHANGED <<brokerVars, control, cache, ran, stale, enabled, reconcilePermit, bounds,
                   faults>>

revoking(f) ==
    /\ fiber[f].at = "revoking" /\ permitFree
    /\ control' = FALSE /\ rememberOther /\ goes(f, "withdrawing")
    /\ UNCHANGED <<brokerVars, did, stale, enabled, revocationInFlight, activeCommandFibers,
                   running, permits, bounds, faults>>

withdrawing(f) ==
    /\ fiber[f].at = "withdrawing" /\ returns(f)
    /\ revocationInFlight' = FALSE
    /\ \/ disable /\ enabled' = FALSE /\ UNCHANGED faults
       \/ fault /\ UNCHANGED <<brokerVars, enabled>>
       \/ fault /\ disable /\ UNCHANGED enabled
    /\ UNCHANGED <<controller, activeCommandFibers, running, bounds>>

-----------------------------------------------------------------------------
(* runNext: one command at a time is taken; all but disable-control run in      *)
(* fibers of their own.                                                         *)

ask ==
    /\ fiber["runNext"].at = "idle" /\ enabled
    /\ fiber' = [fiber EXCEPT !["runNext"] =
                    IF grant = NoGrant THEN [@ EXCEPT !.at = "checking"]
                    ELSE [@ EXCEPT !.at = "taking", !.grant = grant]]
    /\ UNCHANGED <<brokerVars, controller, enabled, revocationInFlight,
                   activeCommandFibers, running, permits, bounds, faults>>

take ==
    /\ fiber["runNext"].at = "taking"
    /\ \/ \E r \in Requests :
            /\ takes(fiber["runNext"].grant, r)
            /\ fiber' = [fiber EXCEPT !["runNext"] =
                            [AtRest EXCEPT !.at = "holding", !.envelope = r]]
            /\ UNCHANGED faults
       \/ /\ \/ grant # fiber["runNext"].grant /\ UNCHANGED <<brokerVars, faults>>
             \/ fault /\ \E r \in Requests : takes(fiber["runNext"].grant, r)
          /\ fiber' = [fiber EXCEPT !["runNext"] = [AtRest EXCEPT !.at = "checking"]]
    /\ UNCHANGED <<controller, enabled, revocationInFlight, activeCommandFibers,
                   running, permits, bounds>>

\* startTrackedEnvelope: a new fiber for the command.
startTrackedEnvelope ==
    /\ fiber["runNext"].at = "holding" /\ commandLaunchPermit = Nobody
    /\ \E run \in Runs :
          /\ run[1] = fiber["runNext"].envelope /\ running[run] = "none"
          /\ running' = [running EXCEPT ![run] = "started"]
          /\ activeCommandFibers' = activeCommandFibers \union {run}
    /\ fiber' = [fiber EXCEPT !["runNext"] = AtRest]
    /\ UNCHANGED <<brokerVars, controller, enabled, revocationInFlight,
                   permits, bounds, faults>>

\* A disable-control first interrupts the commands that run.
revoke ==
    /\ fiber["runNext"].at = "holding" /\ commandLaunchPermit = Nobody
    /\ fiber["runNext"].envelope \in Revocations
    /\ commandLaunchPermit' = "runNext" /\ revocationInFlight' = TRUE
    /\ interruptActiveCommands
    /\ goes("runNext", "dispatching")
    /\ UNCHANGED <<brokerVars, control, cache, ran, stale, enabled, reconcilePermit, bounds,
                   faults>>

\* A command that is remembered is not carried out again: its receipt is its answer.
answered(r) ==
    CASE receipts[r] = "none" -> "none"
      [] receipts[r] = "failed" -> "failed"
      [] OTHER -> "succeeded"

\* claim refuses a command that expects a sequence which has passed, and does so again.
conflicts(r) ==
    answered(r) = "none" /\ stale' = stale \union {r} /\ UNCHANGED <<cache, did>>

\* The history of a command begins again when it is taken up outside the window: when
\* as many commands were remembered since as there are receipts, or in a new page.
effectsBefore(r) == IF since[r] = MAX_RECEIPTS THEN 0 ELSE ran[r]

ends(r, how) == ended' = [ended EXCEPT ![r] = @ \union {how}]

\* Nobody interrupts the revocation itself.
dispatchRevocation ==
    LET d == fiber["runNext"].envelope IN
    /\ fiber["runNext"].at = "dispatching" /\ permitFree
    /\ \E answer \in Answers :
         /\ \/ /\ answer = "succeeded" /\ answered(d) = "none" /\ d \notin stale
               /\ remember(d, "completed") /\ ends(d, "succeeded") /\ UNCHANGED stale
               /\ ran' = [ran EXCEPT ![d] = effectsBefore(d) + 1]
               /\ control' = FALSE
            \/ answer = "conflict" /\ conflicts(d) /\ UNCHANGED control
            \/ answer = answered(d) /\ UNCHANGED controller
         /\ fiber' = [fiber EXCEPT !["runNext"] =
                          [@ EXCEPT !.at = "acknowledging", !.answer = answer]]
    /\ UNCHANGED <<brokerVars, enabled, revocationInFlight, activeCommandFibers, running,
                   permits, bounds, faults>>

\* The completion, and whatever becomes of it, the flag and a reconciliation.
acknowledge ==
    /\ fiber["runNext"].at = "acknowledging"
    /\ revocationInFlight' = FALSE
    /\ LET d == fiber["runNext"].envelope
           next(answer) == fiber' = [fiber EXCEPT !["runNext"] =
                                        [AtRest EXCEPT !.at = "reconcile", !.answer = answer]]
       IN  \/ complete(d, fiber["runNext"].answer) /\ next("none") /\ UNCHANGED faults
           \/ /\ d \notin pending \/ grant = NoGrant
              /\ next("unavailable") /\ UNCHANGED <<brokerVars, faults>>
           \/ fault /\ next("unavailable")
              /\ (UNCHANGED brokerVars \/ complete(d, fiber["runNext"].answer))
    /\ UNCHANGED <<controller, enabled, activeCommandFibers, running,
                   permits, bounds>>

-----------------------------------------------------------------------------
(* The fibers of commands, the user, the outside.                               *)

\* claim: the command is remembered as accepted before it is carried out.
claim(run) ==
    LET r == run[1] IN
    /\ running[run] = "started" /\ permitFree
    /\ \/ /\ answered(r) = "none" /\ r \notin stale
          /\ remember(r, "accepted") /\ ran' = [ran EXCEPT ![r] = effectsBefore(r)]
          /\ running' = [running EXCEPT ![run] = "executing"] /\ UNCHANGED <<ended, stale>>
       \/ conflicts(r) /\ running' = [running EXCEPT ![run] = "conflict"]
       \/ /\ answered(r) # "none" /\ UNCHANGED <<cache, did, stale>>
          /\ running' = [running EXCEPT ![run] = answered(r)]
    /\ UNCHANGED <<brokerVars, control, enabled, revocationInFlight, activeCommandFibers,
                   fiber, permits, bounds, faults>>

\* runCommand changes what the command is about, all of it or a part.
runCommand(run) ==
    /\ running[run] = "executing"
    /\ running' = [running EXCEPT ![run] = "effected"]
    /\ ran' = [ran EXCEPT ![run[1]] = @ + 1]
    /\ UNCHANGED <<brokerVars, control, cache, ended, stale, enabled, revocationInFlight,
                   activeCommandFibers, fiber, permits, bounds, faults>>

\* dispatchCommand: it succeeds, or fails, with an effect or without.  One that succeeds with
\* a result that cannot be decoded is told as a failure, and its receipt stays as it is.
dispatchCommand(run) ==
    LET r == run[1] IN
    /\ \/ /\ running[run] = "effected" /\ running' = [running EXCEPT ![run] = "succeeded"]
          /\ remember(r, "completed") /\ ends(r, "succeeded")
       \/ /\ running[run] \in Executing /\ running' = [running EXCEPT ![run] = "failed"]
          /\ remember(r, "failed") /\ ends(r, "failed")
       \/ /\ running[run] = "effected" /\ running' = [running EXCEPT ![run] = "failed"]
          /\ ends(r, "unreadable") /\ UNCHANGED cache
    /\ UNCHANGED <<brokerVars, control, ran, stale, enabled, revocationInFlight,
                   activeCommandFibers, fiber, permits, bounds, faults>>

\* The completion is tried once; then the fiber ends.
finish(run) ==
    /\ running[run] \in Answers
    /\ \/ complete(run[1], running[run]) /\ UNCHANGED faults
       \/ (run[1] \notin pending \/ grant = NoGrant) /\ UNCHANGED <<brokerVars, faults>>
       \/ fault /\ UNCHANGED brokerVars
    /\ running' = [running EXCEPT ![run] = "none"]
    /\ activeCommandFibers' = activeCommandFibers \ {run}
    /\ UNCHANGED <<controller, enabled, revocationInFlight, fiber, permits, bounds>>

\* The protected user enables or disables control.
toggle ==
    /\ toggles < MaxToggles /\ toggles' = toggles + 1 /\ permitFree
    /\ control' = ~control /\ rememberOther
    /\ UNCHANGED <<brokerVars, did, stale, enabled, revocationInFlight, activeCommandFibers,
                   running, fiber, permits, others, revokes, reloads, faults>>

\* Another command of the page: of the user, or one of an agent, nested in what runs.
otherCommand ==
    /\ others < MaxOthers /\ others' = others + 1 /\ rememberOther
    /\ UNCHANGED <<brokerVars, control, did, stale, enabled, revocationInFlight,
                   activeCommandFibers, running, fiber, permits, toggles, revokes, reloads,
                   faults>>

\* The page is loaded again.  All of its memory is new; the broker hears nothing of it.
reload ==
    /\ disturbances < MaxDisturbances /\ reloads' = reloads + 1
    /\ control' = FALSE /\ enabled' = FALSE /\ revocationInFlight' = FALSE
    /\ receipts' = [r \in Requests |-> "none"] /\ order' = <<>> /\ stale' = {}
    /\ since' = [r \in Requests |-> MAX_RECEIPTS] /\ forgotten' = Requests
    /\ interrupts(Runs) /\ activeCommandFibers' = {}
    /\ fiber' = [f \in Fibers |-> AtRest]
    /\ reconcilePermit' = Nobody /\ commandLaunchPermit' = Nobody
    /\ UNCHANGED <<brokerVars, ran, toggles, others, revokes, faults>>

\* An outside client sends a command, or revokes the grant at the broker.
request(r) == submit(r) /\ UNCHANGED bridgeVars

revokeAtBroker ==
    /\ disturbances < MaxDisturbances /\ revokes' = revokes + 1
    /\ grant # NoGrant /\ disable
    /\ UNCHANGED <<controller, enabled, revocationInFlight, activeCommandFibers, running,
                   fiber, permits, toggles, others, reloads, faults>>

bridge(f) ==
    \/ reconcile(f) \/ clearing(f) \/ enabling(f) \/ disabling(f) \/ publishing(f)
    \/ checking(f) \/ confirm(f) \/ revoking(f) \/ withdrawing(f)

runNext == ask \/ take \/ startTrackedEnvelope \/ revoke \/ dispatchRevocation \/ acknowledge

Next ==
    \/ observe \/ runNext
    \/ \E f \in Fibers : bridge(f)
    \/ \E run \in Runs : claim(run) \/ runCommand(run) \/ dispatchCommand(run) \/ finish(run)
    \/ \E r \in Requests : request(r)
    \/ toggle \/ otherCommand \/ reload \/ revokeAtBroker

\* The event loop runs what is ready, and a semaphore serves its waiters in order.  Users,
\* clients and failures owe nothing.
Fairness ==
    /\ WF_vars(observe) /\ SF_vars(runNext)
    /\ \A f \in Fibers : SF_vars(bridge(f))
    /\ \A run \in Runs :
          SF_vars(claim(run)) /\ WF_vars(runCommand(run) \/ dispatchCommand(run) \/ finish(run))

Spec == Init /\ [][Next]_vars /\ Fairness

-----------------------------------------------------------------------------
(* Properties.                                                                 *)

\* A request waits exactly when the broker has its completion pending under the grant it
\* was submitted under: no grant is replaced or withdrawn over the head of a request.
NobodyIsForgotten ==
    \A r \in Requests :
        (requests[r].told = "waiting") <=> (r \in pending /\ requests[r].under = grant)

\* What a client is told of its command has happened to it: a success was one, or the
\* command was interrupted, or had a result that could not be read, and was sent again (the
\* receipt does not tell these apart); a failure was one, whatever it has changed; a command
\* told of a conflict was not taken up, unless the page has forgotten that it was.
AnswersAreTrue ==
    \A r \in Requests :
        /\ requests[r].told = "succeeded" =>
              ended[r] \intersect {"succeeded", "interrupted", "unreadable"} # {}
        /\ requests[r].told = "failed" => ended[r] \intersect {"failed", "unreadable"} # {}
        /\ requests[r].told = "conflict" => ended[r] = {} \/ r \in forgotten

\* Within its window a command takes effect at most once, although its client may send it
\* again under the next grant while the fiber of the first is still running, and fibers are
\* interrupted or fail after the effect.  The window ends when MAX_RECEIPTS other commands
\* were taken up since, or with the page: a command sent again after that runs again.
RunsOnce == \A r \in Requests : ran[r] <= 1

\* Disabled control takes away the grant the bridge has enabled: a revocation by the user, by
\* an outside command or at the broker ends with no grant unless control is enabled again,
\* or the page is loaded again, which leaves the grant to the broker.
RevocationCompletes == ~control /\ enabled ~> (grant = NoGrant \/ control \/ ~enabled)

\* Enabled control gets a grant, or is disabled, unless an outside client revokes at the
\* broker or a call to it fails.
EnableTakesEffectUndisturbed ==
    control ~> (grant # NoGrant \/ ~control \/ revokes > 0 \/ faults > 0)

==============================================================================
