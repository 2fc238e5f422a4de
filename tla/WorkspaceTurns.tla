---------------------------- MODULE WorkspaceTurns ----------------------------
(* A turn of the Shaper, from the command that asks for it to its outcome:       *)
(* dispatch and its permit (lib/workspace-controller.ts), the role, its fiber    *)
(* and its session (lib/agent-workspace.ts), the agent's own commands            *)
(* (axi/agent-command-bridge.ts, AgentCommandBus) and the runtime, of which only *)
(* the promise is used (TurnService, which PiRuntime implements).                *)
(*                                                                               *)
(* Shaper and App share the session and the permit; an App turn is a Shaper turn *)
(* without proposals and second attempt.  A step is what a fiber does between    *)
(* two points at which it waits for a reply, a fiber or the permit.              *)
EXTENDS AgentCommandBus, SequencesExt, FiniteSets

CONSTANTS
    Shapes,                     \* the shape commands
    Proposers,                  \* those whose agent uses flect
    Cancels, Selects,           \* the cancel-role and select-model commands; one may be either
    Sessions, Documents,
    Plain,                      \* what a nested request asks that is not a proposal
    Controlled,                 \* commands of a control client: its grant may be revoked
    MaxDisturbances,            \* bounds faults, revocations and changes of the reasoning level
    MaxEvents,                  \* bounds disturbances and agent requests together
    NoCommand, NoSession, NoDocument

Commands == Shapes \union Cancels \union Selects

ASSUME TurnsAssumption ==
    /\ Proposers \subseteq Shapes /\ Controlled \subseteq Commands /\ Commands \intersect Requests = {}
    /\ NoCommand \notin Commands \union Requests
    /\ NoSession \notin Sessions
    /\ Documents \intersect {NoDocument, Plain, "off", "empty"} = {}
    /\ MaxDisturbances \in Nat /\ MaxEvents \in Nat

Prompts == Shapes \X (1..2)
NoPrompt == <<NoCommand, 0>>

VARIABLES
    waiting, holder,   \* commandPermit: who waits, in order, and who holds it
    call,              \* each command's dispatch
    parents,           \* activeAgentParentOperations
    status, roleFiber, \* the role's status and the turn that fibers.shaper names
    fiber,             \* each turn's request fiber
    result, outcome,   \* how it ended, and with which document
    attempt, sid,      \* its attempt and the session it uses
    proposals,         \* shaperProposals: off, empty or the document latched
    session,           \* the workspace's session and the selection it was made for
    selection, newKey, \* the selection now, and the one a new session is made for
    resetting, \* selectReasoning under way: the session it closes; their count
    stopping,          \* what the running cancel found: a session and a fiber
    closingSessions,   \* closeSession requests on their way
    parent, what,      \* each agent request's turn and contents
    nested,            \* the command the bridge dispatched: none, waiting, running
    interrupted,       \* a turn was interrupted since the status was last set
    orphaned,          \* history: sessions whose creation was interrupted or not answered, or
                       \* that a failing call did not close
    disturbances,      \* what disturbed so far
    service, turn, claimed, answer

dispatchVars == <<waiting, holder, call, parents>>
fiberVars == <<fiber, result, outcome, attempt, sid, proposals>>
sessionVars == <<session, selection, newKey, closingSessions>>
requestVars == <<parent, what, nested>>
serviceVars == <<service, turn, claimed, answer>>
vars == <<busVars, dispatchVars, status, roleFiber, fiberVars, sessionVars, resetting,
          stopping, requestVars, interrupted, orphaned, disturbances, serviceVars>>

Runtime == INSTANCE TurnService

Released == [id |-> NoSession, key |-> 0]
Nobody == [session |-> NoSession, fiber |-> NoCommand]

TypeOK ==
    /\ BusTypeOK({"proposed", "duplicate", "rejected", "done"})
    /\ Runtime!ServiceTypeOK
    /\ waiting \in Seq(Commands \union Requests) /\ IsInjective(waiting)
    /\ holder \in Commands \union Requests \union {NoCommand}
    /\ call \in [Commands -> {"none", "waiting", "turn", "applying", "cancelling", "selecting",
                              "revoked", "over"}]
    /\ parents \subseteq Shapes
    /\ status \in {"ready", "submitting", "cancelling", "error"}
    /\ roleFiber \in Shapes \union {NoCommand}
    /\ fiber \in [Shapes -> {"none", "starting", "session", "creating", "created", "asking",
                             "streaming", "tool", "ended"}]
    /\ result \in [Shapes -> {"none", "succeeded", "failed", "busy", "interrupted"}]
    /\ outcome \in [Shapes -> Documents \union {NoDocument}]
    /\ attempt \in [Shapes -> 1..2]
    /\ sid \in [Shapes -> Sessions \union {NoSession}]
    /\ proposals \in [Shapes -> Documents \union {"off", "empty"}]
    /\ session \in [id : Sessions \union {NoSession}, key : 0..(MaxDisturbances + Cardinality(Selects))]
    /\ {selection, newKey} \subseteq 0..(MaxDisturbances + Cardinality(Selects))
    /\ resetting \in {"idle"} \union Sessions \union {NoSession}
    /\ stopping \in [session : Sessions \union {NoSession}, fiber : Shapes \union {NoCommand}]
    /\ closingSessions \subseteq Sessions
    /\ parent \in [Requests -> Shapes \union {NoCommand}]
    /\ what \in [Requests -> Documents \union {Plain, NoDocument}]
    /\ nested \in {"none", "waiting", "running"}
    /\ interrupted \in BOOLEAN /\ orphaned \subseteq Sessions /\ disturbances \in 0..MaxDisturbances

Init ==
    /\ BusInit /\ Runtime!ServiceInit
    /\ waiting = <<>> /\ holder = NoCommand /\ parents = {}
    /\ call = [c \in Commands |-> "none"]
    /\ status = "ready" /\ roleFiber = NoCommand
    /\ fiber = [c \in Shapes |-> "none"] /\ result = [c \in Shapes |-> "none"]
    /\ outcome = [c \in Shapes |-> NoDocument] /\ attempt = [c \in Shapes |-> 1]
    /\ sid = [c \in Shapes |-> NoSession] /\ proposals = [c \in Shapes |-> "off"]
    /\ session = Released /\ selection = 0 /\ newKey = 0
    /\ resetting = "idle" /\ stopping = Nobody /\ closingSessions = {}
    /\ parent = [r \in Requests |-> NoCommand] /\ what = [r \in Requests |-> NoDocument]
    /\ nested = "none" /\ interrupted = FALSE /\ orphaned = {} /\ disturbances = 0

-----------------------------------------------------------------------------
(* The session, and the ways a turn ends.                                        *)

events == disturbances + Cardinality({r \in Requests : told[r] # "none"})

disturbs ==
    /\ disturbances < MaxDisturbances /\ events < MaxEvents
    /\ disturbances' = disturbances + 1

live(c) == fiber[c] \notin {"none", "ended"}

setStatus(value) == status' = value /\ interrupted' = FALSE

\* releaseSession: whatever session is current is closed.
releaseSession ==
    /\ session' = Released
    /\ closingSessions' = closingSessions \union ({session.id} \ {NoSession})
    /\ UNCHANGED <<selection, newKey>>

\* The request fiber has a result; clearShaperProposal runs in every case.
ends(c, value) ==
    /\ fiber' = [fiber EXCEPT ![c] = "ended"] /\ result' = [result EXCEPT ![c] = value]
    /\ proposals' = [proposals EXCEPT ![c] = "off"]
    /\ attempt' = [attempt EXCEPT ![c] = 1] /\ sid' = [sid EXCEPT ![c] = NoSession]

\* Mutant: a turn that fails leaves the role as it was.
fails_Silently(c, value) == ends(c, value) /\ UNCHANGED <<status, interrupted, outcome>>

fails(c, value) == ends(c, value) /\ setStatus("error") /\ UNCHANGED outcome

asked(c) == CHOOSE r \in Requests : parent[r] = c /\ told[r] = "waiting"

\* Fiber.interrupt: no status is set, and a session that is being made is not kept.
interrupt(c) ==
    IF c # NoCommand /\ live(c)
    THEN /\ ends(c, "interrupted") /\ interrupted' = TRUE /\ UNCHANGED outcome
         /\ orphaned' = orphaned \union (IF fiber[c] = "created" THEN {sid[c]} ELSE {})
         /\ IF fiber[c] = "tool" THEN interruptSubmit(asked(c)) ELSE UNCHANGED busVars
    ELSE UNCHANGED <<fiberVars, interrupted, orphaned, busVars>>

\* resetSession: interruptFibers, then releaseSession.
resetSession == interrupt(roleFiber) /\ roleFiber' = NoCommand /\ releaseSession

\* selectReasoning, which the workspace offers outside the permit.
selectReasoning ==
    /\ resetting = "idle" /\ disturbs
    /\ resetting' = session.id /\ resetSession
    /\ UNCHANGED <<dispatchVars, status, stopping, requestVars, serviceVars>>

reasoningSelected ==
    /\ resetting # "idle" /\ resetting \notin closingSessions
    /\ resetting' = "idle" /\ selection' = selection + 1
    /\ UNCHANGED <<busVars, dispatchVars, status, roleFiber, fiberVars, session, newKey,
                   closingSessions, stopping, requestVars, interrupted, orphaned,
                   disturbances, serviceVars>>

-----------------------------------------------------------------------------
(* dispatch.                                                                     *)

others == <<busVars, sessionVars, resetting, stopping, requestVars, orphaned, disturbances,
            serviceVars>>

dispatch(c) ==
    /\ call[c] = "none"
    /\ call' = [call EXCEPT ![c] = "waiting"] /\ waiting' = Append(waiting, c)
    /\ UNCHANGED <<holder, parents, status, roleFiber, fiberVars, interrupted, others>>

\* The first in the queue gets the permit; a Shaper turn claims its role at once.
granted(c) == holder = NoCommand /\ waiting # <<>> /\ Head(waiting) = c /\ waiting' = Tail(waiting)

\* The command is over, well or badly, and the permit free.
finishes(c) == holder' = NoCommand /\ call' = [call EXCEPT ![c] = "over"]

startShape(c) ==
    /\ granted(c)
    /\ IF status \in {"ready", "error"}
       THEN /\ holder' = c /\ call' = [call EXCEPT ![c] = "turn"]
            /\ parents' = parents \union {c}
            /\ setStatus("submitting") /\ fiber' = [fiber EXCEPT ![c] = "starting"]
       ELSE finishes(c) /\ UNCHANGED <<parents, status, interrupted, fiber>>
    /\ UNCHANGED <<roleFiber, result, outcome, attempt, sid, proposals, others>>

startCancel(c) ==
    /\ granted(c) /\ holder' = c /\ call' = [call EXCEPT ![c] = "cancelling"]
    /\ setStatus("cancelling")
    /\ stopping' = [session |-> session.id, fiber |-> roleFiber]
    /\ UNCHANGED <<parents, roleFiber, fiberVars, busVars, sessionVars, resetting,
                   requestVars, orphaned, disturbances, serviceVars>>

\* client.cancel has its reply when the runtime has told the agent to stop.  A session that
\* the runtime does not know is an error.
cancelReply ==
    LET s == stopping.session IN
    IF s # NoSession /\ turn[s] # NoPrompt /\ ~claimed[s]
    THEN service[s] = "open" /\ Runtime!Cancel(s)
    ELSE (s # NoSession => service[s] = "open") /\ UNCHANGED serviceVars

cancel(c) ==
    /\ call[c] = "cancelling" /\ cancelReply
    /\ finishes(c) /\ interrupt(stopping.fiber)
    /\ roleFiber' = NoCommand /\ status' = "ready"
    /\ stopping' = Nobody
    /\ UNCHANGED <<waiting, parents, sessionVars, resetting, requestVars, disturbances>>

\* Mutant: a cancel without a session to cancel waits for its reply.
cancelFails_Never(c) == FALSE /\ UNCHANGED vars

\* The runtime does not know the session, or the call fails: the role stays in cancelling.
cancelFails(c) ==
    /\ call[c] = "cancelling" /\ stopping.session # NoSession
    /\ \/ service[stopping.session] # "open" /\ UNCHANGED disturbances
       \/ disturbs
    /\ finishes(c) /\ stopping' = Nobody
    /\ UNCHANGED <<waiting, parents, status, roleFiber, fiberVars, interrupted, busVars,
                   sessionVars, resetting, requestVars, orphaned, serviceVars>>

startSelect(c) ==
    /\ granted(c) /\ holder' = c /\ call' = [call EXCEPT ![c] = "selecting"]
    /\ stopping' = [session |-> session.id, fiber |-> NoCommand] /\ resetSession
    /\ UNCHANGED <<parents, status, resetting, requestVars, disturbances, serviceVars>>

selectModel(c) ==
    /\ call[c] = "selecting" /\ stopping.session \notin closingSessions
    /\ finishes(c) /\ setStatus("ready") /\ selection' = selection + 1
    /\ stopping' = Nobody
    /\ UNCHANGED <<waiting, parents, roleFiber, fiberVars, busVars, session, newKey,
                   closingSessions, resetting, requestVars, orphaned, disturbances,
                   serviceVars>>

\* awaitRoleFiber and withNestedAgentCommands are left; a failed turn ends the command.
finishTurn(c) ==
    /\ call[c] = "turn" /\ fiber[c] = "ended"
    /\ roleFiber' = NoCommand /\ parents' = parents \ {c}
    /\ IF result[c] = "succeeded"
       THEN call' = [call EXCEPT ![c] = "applying"] /\ UNCHANGED holder
       ELSE finishes(c)
    /\ UNCHANGED <<waiting, status, fiberVars, interrupted, others>>

\* The kernel takes the outcome, or refuses it.
applied(c) ==
    /\ call[c] = "applying" /\ finishes(c)
    /\ UNCHANGED <<waiting, parents, status, roleFiber, fiberVars, interrupted, others>>

\* The control client's grant is revoked: its command is interrupted.
revoke(c) ==
    /\ disturbs /\ c \in Controlled /\ call[c] \notin {"none", "revoked", "over"}
    /\ IF call[c] = "waiting"
       THEN /\ call' = [call EXCEPT ![c] = "over"] /\ UNCHANGED holder
            /\ \E i \in 1..Len(waiting) : waiting[i] = c /\ waiting' = RemoveAt(waiting, i)
       ELSE /\ UNCHANGED waiting
            /\ IF call[c] = "turn" THEN call' = [call EXCEPT ![c] = "revoked"] /\ UNCHANGED holder
               ELSE finishes(c)
    /\ stopping' = IF c \in Cancels \union Selects /\ holder = c THEN Nobody ELSE stopping
    /\ UNCHANGED <<parents, status, roleFiber, fiberVars, interrupted, busVars, sessionVars,
                   resetting, requestVars, orphaned, serviceVars>>

\* The finalizers of a revoked turn have run; its fibers are interrupted with it.
revoked(c) ==
    /\ call[c] = "revoked" /\ finishes(c)
    /\ parents' = parents \ {c} /\ roleFiber' = NoCommand /\ interrupt(c)
    /\ UNCHANGED <<waiting, status, sessionVars, resetting, stopping, requestVars,
                   disturbances, serviceVars>>

-----------------------------------------------------------------------------
(* The turn's request fiber.                                                     *)

turnOthers == <<dispatchVars, resetting, stopping, orphaned>>

\* The start is in the journal: the proposal's latch is set and the fiber forked.
beginTurn(c) ==
    /\ fiber[c] = "starting"
    /\ fiber' = [fiber EXCEPT ![c] = "session"] /\ roleFiber' = c
    /\ proposals' = [proposals EXCEPT ![c] = "empty"]
    /\ UNCHANGED <<turnOthers, status, interrupted, result, outcome, attempt, sid, busVars,
                   sessionVars, requestVars, disturbances, serviceVars>>

\* Mutant: a session of another selection is dropped without a word to the runtime.
ensureSession_Drops(c) ==
    /\ fiber[c] = "session"
    /\ IF session.id # NoSession /\ session.key = selection
       THEN fiber' = [fiber EXCEPT ![c] = "asking"] /\ UNCHANGED sessionVars
       ELSE /\ fiber' = [fiber EXCEPT ![c] = "creating"] /\ newKey' = selection
            /\ session' = Released /\ UNCHANGED <<selection, closingSessions>>
    /\ sid' = [sid EXCEPT ![c] = session.id]
    /\ UNCHANGED <<turnOthers, status, roleFiber, interrupted, result, outcome, attempt,
                   proposals, busVars, requestVars, disturbances, serviceVars>>

\* ensureSession: the current session is kept if it was made for this selection.
ensureSession(c) ==
    /\ fiber[c] = "session"
    /\ IF session.id # NoSession /\ session.key = selection
       THEN fiber' = [fiber EXCEPT ![c] = "asking"] /\ UNCHANGED sessionVars
       ELSE /\ fiber' = [fiber EXCEPT ![c] = "creating"] /\ newKey' = selection
            /\ session' = Released /\ UNCHANGED selection
            /\ closingSessions' = closingSessions \union ({session.id} \ {NoSession})
    /\ sid' = [sid EXCEPT ![c] = session.id]
    /\ UNCHANGED <<turnOthers, status, roleFiber, interrupted, result, outcome, attempt,
                   proposals, busVars, requestVars, disturbances, serviceVars>>

\* The old session is closed; the runtime makes a new one, and its reply is on its way.
createSession(c, s) ==
    /\ fiber[c] = "creating" /\ sid[c] \notin closingSessions
    /\ Runtime!Open(s)
    /\ fiber' = [fiber EXCEPT ![c] = "created"] /\ sid' = [sid EXCEPT ![c] = s]
    /\ UNCHANGED <<turnOthers, status, roleFiber, interrupted, result, outcome, attempt,
                   proposals, busVars, sessionVars, requestVars, disturbances>>

sessionCreated(c) ==
    /\ fiber[c] = "created"
    /\ session' = [id |-> sid[c], key |-> newKey] /\ newKey' = 0
    /\ fiber' = [fiber EXCEPT ![c] = "asking"]
    /\ UNCHANGED <<turnOthers, status, roleFiber, interrupted, result, outcome, attempt, sid,
                   proposals, busVars, selection, closingSessions, requestVars, disturbances,
                   serviceVars>>

\* The call fails before the runtime makes the session, or its answer is lost: the workspace
\* does not know the session.
createFails(c) ==
    /\ disturbs /\ fails(c, "failed")
    /\ \/ fiber[c] = "creating" /\ sid[c] \notin closingSessions /\ UNCHANGED orphaned
       \/ fiber[c] = "created" /\ orphaned' = orphaned \union {sid[c]}
    /\ UNCHANGED <<dispatchVars, resetting, stopping, roleFiber, busVars, sessionVars,
                   requestVars, serviceVars>>

\* releaseSession has forgotten the session; that the call to close it fails, or is
\* interrupted with the fiber that made it, changes nothing of that.
closeFails(s) ==
    /\ disturbs /\ s \in closingSessions
    /\ closingSessions' = closingSessions \ {s} /\ orphaned' = orphaned \union {s}
    /\ UNCHANGED <<busVars, dispatchVars, status, roleFiber, fiberVars, session, selection,
                   newKey, resetting, stopping, requestVars, interrupted, serviceVars>>

\* client.shape: the runtime takes the turn, ...
shape(c) ==
    /\ fiber[c] = "asking" /\ Runtime!Take(sid[c], <<c, attempt[c]>>)
    /\ fiber' = [fiber EXCEPT ![c] = "streaming"]
    /\ UNCHANGED <<turnOthers, status, roleFiber, interrupted, result, outcome, attempt, sid,
                   proposals, busVars, sessionVars, requestVars, disturbances>>

\* ... or refuses it.  Only a session that is busy is kept.
shapeRefused(c) ==
    /\ fiber[c] = "asking" /\ Runtime!Refuse(<<c, attempt[c]>>)
    /\ \/ /\ service[sid[c]] # "open" /\ fails(c, "failed") /\ releaseSession
       \/ /\ turn[sid[c]] # NoPrompt /\ fails(c, "busy") /\ UNCHANGED sessionVars
    /\ UNCHANGED <<turnOthers, roleFiber, busVars, requestVars, disturbances>>

\* The agent's shell runs flect: a proposal, or another command.
flect(c, r, w) ==
    /\ fiber[c] = "streaming" /\ turn[sid[c]] = <<c, attempt[c]>>
    /\ events < MaxEvents /\ told[r] = "none" /\ r = CHOOSE q \in Requests : told[q] = "none"
    /\ submit(r)
    /\ parent' = [parent EXCEPT ![r] = c] /\ what' = [what EXCEPT ![r] = w]
    /\ fiber' = [fiber EXCEPT ![c] = IF told'[r] = "waiting" THEN "tool" ELSE @]
    /\ UNCHANGED <<turnOthers, status, roleFiber, interrupted, result, outcome, attempt, sid,
                   proposals, sessionVars, nested, disturbances, serviceVars>>

flectEnds(c) ==
    /\ fiber[c] = "tool" /\ (receive(asked(c)) \/ expire(asked(c)))
    /\ fiber' = [fiber EXCEPT ![c] = "streaming"]
    /\ UNCHANGED <<turnOthers, status, roleFiber, interrupted, result, outcome, attempt, sid,
                   proposals, sessionVars, requestVars, disturbances, serviceVars>>

\* The stream is over: the latched document, a second attempt, or a failure.
streamEnds(c) ==
    /\ fiber[c] = "streaming" /\ answer[<<c, attempt[c]>>] = "ended"
    /\ \/ /\ proposals[c] \in Documents
          /\ ends(c, "succeeded") /\ outcome' = [outcome EXCEPT ![c] = proposals[c]]
          /\ setStatus("ready")
       \/ /\ proposals[c] = "empty" /\ attempt[c] = 1
          /\ attempt' = [attempt EXCEPT ![c] = 2] /\ fiber' = [fiber EXCEPT ![c] = "asking"]
          /\ UNCHANGED <<result, outcome, sid, proposals, status, interrupted>>
       \/ proposals[c] = "empty" /\ attempt[c] = 2 /\ fails(c, "failed")
    /\ UNCHANGED <<turnOthers, roleFiber, busVars, sessionVars, requestVars, disturbances,
                   serviceVars>>

\* Mutant: a turn that fails leaves its session to the next one.
streamFails_KeepsSession(c) ==
    /\ fiber[c] \in {"asking", "streaming"} /\ disturbs
    /\ fails(c, "failed") /\ UNCHANGED sessionVars
    /\ UNCHANGED <<turnOthers, roleFiber, busVars, requestVars, serviceVars>>

\* The connection breaks, or there is none.
streamFails(c) ==
    /\ fiber[c] \in {"asking", "streaming"} /\ disturbs
    /\ fails(c, "failed") /\ releaseSession
    /\ UNCHANGED <<turnOthers, roleFiber, busVars, requestVars, serviceVars>>

-----------------------------------------------------------------------------
(* The bridge, which serves one request after the other.                         *)

bridgeOthers == <<status, roleFiber, fiber, result, outcome, attempt, sid, sessionVars,
                  resetting, stopping, parent, what, interrupted, orphaned, disturbances,
                  serviceVars>>

bridgeTakes == take /\ UNCHANGED <<dispatchVars, proposals, nested, bridgeOthers>>

\* Mutant: the last proposal wins.
latched_Last(c, d) == IF proposals[c] = "off" THEN "rejected" ELSE "proposed"

\* A turn has one document; without a turn there is nothing to propose to.
latched(c, d) ==
    CASE proposals[c] = "empty" -> "proposed"
      [] proposals[c] = d -> "duplicate"
      [] OTHER -> "rejected"

proposeInterface ==
    /\ taken # NoRequest /\ what[taken] \in Documents
    /\ LET c == parent[taken]  d == what[taken] IN
         /\ respond(latched(c, d))
         /\ proposals' = IF latched(c, d) = "proposed" THEN [proposals EXCEPT ![c] = d]
                         ELSE proposals
    /\ UNCHANGED <<dispatchVars, nested, bridgeOthers>>

\* dispatch: a command whose parent's turn is under way runs beside the permit.
dispatchNested ==
    /\ taken # NoRequest /\ what[taken] = Plain /\ nested = "none"
    /\ IF parent[taken] \in parents
       THEN nested' = "running" /\ UNCHANGED waiting
       ELSE nested' = "waiting" /\ waiting' = Append(waiting, taken)
    /\ UNCHANGED <<busVars, holder, call, parents, proposals, bridgeOthers>>

startNested ==
    /\ nested = "waiting" /\ granted(taken)
    /\ holder' = taken /\ nested' = "running"
    /\ UNCHANGED <<busVars, call, parents, proposals, bridgeOthers>>

finishNested ==
    /\ nested = "running" /\ nested' = "none"
    /\ respond("done") /\ holder' = IF holder = taken THEN NoCommand ELSE holder
    /\ UNCHANGED <<waiting, call, parents, proposals, bridgeOthers>>

shutdownBus ==
    /\ disturbs /\ shutdown
    /\ UNCHANGED <<dispatchVars, proposals, nested, status, roleFiber, fiber, result, outcome,
                   attempt, sid, sessionVars, resetting, stopping, parent, what, interrupted,
                   orphaned, serviceVars>>

-----------------------------------------------------------------------------
(* The runtime.                                                                  *)

runtimeOthers == <<busVars, dispatchVars, status, roleFiber, fiberVars, session, selection,
                   newKey, resetting, stopping, requestVars, interrupted, orphaned>>

\* A turn that nobody listens to any more, or that is being cancelled, or of a closed session.
cut(s) ==
    /\ turn[s] # NoPrompt
    /\ \/ service[s] # "open" \/ claimed[s]
       \/ fiber[turn[s][1]] \notin {"streaming", "tool"} \/ attempt[turn[s][1]] # turn[s][2]

turnEnds(s) == Runtime!End(s) /\ UNCHANGED <<runtimeOthers, closingSessions, disturbances>>

\* The cancelled turn is over, and its session free.
releaseClaim(s) ==
    /\ Runtime!ended(s) /\ Runtime!Release(s)
    /\ UNCHANGED <<runtimeOthers, closingSessions, disturbances>>

closeSession(s) ==
    /\ s \in closingSessions /\ closingSessions' = closingSessions \ {s}
    /\ IF service[s] = "open" THEN Runtime!Close(s) ELSE UNCHANGED serviceVars
    /\ UNCHANGED <<runtimeOthers, disturbances>>

\* Another page's session takes its place.
evict(s) ==
    /\ disturbs /\ Runtime!Close(s)
    /\ UNCHANGED <<runtimeOthers, closingSessions>>

-----------------------------------------------------------------------------
ofTurn(c) ==
    \/ startShape(c) \/ beginTurn(c) \/ ensureSession(c) \/ sessionCreated(c)
    \/ (\E s \in Sessions : createSession(c, s)) \/ shape(c) \/ shapeRefused(c)
    \/ streamEnds(c) \/ finishTurn(c) \/ applied(c) \/ revoked(c)

ofCancel(c) == startCancel(c) \/ cancel(c) \/ cancelFails(c)
ofSelect(c) == startSelect(c) \/ selectModel(c)
ofBridge == bridgeTakes \/ proposeInterface \/ dispatchNested \/ startNested \/ finishNested

Next ==
    \/ \E c \in Shapes : ofTurn(c) \/ flectEnds(c) \/ createFails(c) \/ streamFails(c)
    \/ \E c \in Proposers, r \in Requests, w \in Documents \union {Plain} : flect(c, r, w)
    \/ \E c \in Cancels : ofCancel(c)
    \/ \E c \in Selects : ofSelect(c)
    \/ \E c \in Commands : dispatch(c) \/ revoke(c)
    \/ \E s \in Sessions :
          closeSession(s) \/ closeFails(s) \/ turnEnds(s) \/ releaseClaim(s) \/ evict(s)
    \/ ofBridge \/ shutdownBus \/ selectReasoning \/ reasoningSelected

\* Every fiber of the page runs on, the 30 s timer fires, the runtime answers, and it
\* ends a turn that was cut.  Nothing is assumed of the model behind a turn.
Fairness ==
    /\ \A c \in Shapes : WF_vars(ofTurn(c)) /\ WF_vars(flectEnds(c))
    /\ \A c \in Cancels : WF_vars(ofCancel(c))
    /\ \A c \in Selects : WF_vars(ofSelect(c))
    /\ \A s \in Sessions : WF_vars(closeSession(s)) /\ WF_vars(releaseClaim(s))
                        /\ WF_vars(cut(s) /\ turnEnds(s))
    /\ WF_vars(ofBridge) /\ WF_vars(reasoningSelected)

Spec == Init /\ [][Next]_vars /\ Fairness

\* The same, where the model always comes to an end.
EndingSpec == Spec /\ \A s \in Sessions : WF_vars(turnEnds(s))

-----------------------------------------------------------------------------
(* Properties.                                                                   *)

\* What the agent was told about its proposals is what becomes of its turn: the proposal
\* that was taken is the outcome, whatever was proposed, timed out or retried beside it,
\* by this turn or an earlier one.
PromisesKept ==
    \A r \in Requests :
        /\ told[r] \in {"proposed", "duplicate"} /\ result[parent[r]] = "succeeded"
        => outcome[parent[r]] = what[r]

\* A turn is refused as busy only because of one that was interrupted, by a reset, a cancel
\* or a revocation: a turn that ended in any other way left its session free or closed.
BusyOnlyAfterInterruption ==
    [][\A c \in Shapes :
         result'[c] = "busy" /\ result[c] # "busy" =>
             result[turn[sid[c]][1]] = "interrupted"]_vars

\* The role is occupied exactly as long as a turn is under way, unless one was interrupted.
RoleFollowsTurn ==
    ~interrupted => (status = "submitting" <=> \E c \in Shapes : live(c))

\* An open session is the workspace's, or about to be, or being closed, unless its creation
\* was interrupted or not answered, or the call to close it failed: no reset, change of the
\* model, second attempt, failing turn, cancel or revocation loses one otherwise.  A session
\* that was lost so is not the workspace's, and no turn asks or streams in it any more.
NoSessionLost ==
    \A s \in Sessions :
        /\ service[s] = "open" =>
              \/ session.id = s \/ s \in closingSessions \union orphaned
              \/ \E c \in Shapes : fiber[c] = "created" /\ sid[c] = s
        /\ s \in orphaned =>
              /\ session.id # s
              /\ \A c \in Shapes : fiber[c] \in {"asking", "streaming", "tool"} => sid[c] # s

\* Every command comes to its end when the turns do: neither the permit, nor the bus, nor
\* a cancel, a reset or a revocation leaves one waiting.
EveryCommandEnds == \A c \in Commands : call[c] = "waiting" ~> call[c] = "over"

\* A cancel stops the turn that runs (docs/local-control.md:83, "Stop the selected running
\* agent turn.").
CancelStops ==
    \A c \in Cancels, t \in Shapes :
        (call[c] = "waiting" /\ call[t] = "turn") ~> (call[t] # "turn")
==============================================================================
