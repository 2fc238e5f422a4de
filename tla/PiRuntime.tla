------------------------------ MODULE PiRuntime ------------------------------
(* The sessions of the agent runtime and the operations they run                *)
(* (server/pi-runtime.ts: FlectRuntimeLive, makeOperationController,            *)
(* executeOperation).  A session has one operation controller per role; the     *)
(* three are alike and independent, and this is the App's.                      *)
(*                                                                             *)
(* A step is what a fiber does between two points at which it can wait: an      *)
(* agent's abort, the generation, the end of an operation.  The Pi agent is     *)
(* external: it settles a generation when it likes, and one that was aborted    *)
(* sooner or later, except the prompts of Stuck, whose provider never answers.  *)
EXTENDS Naturals, Sequences, SequencesExt, FiniteSets

CONSTANTS
    Sessions, Prompts,
    Stuck,                \* prompts whose generation does not react to an abort
    MAX_ACTIVE_SESSIONS,  \* 32
    MaxCancels,           \* bounds the cancel requests
    NoPrompt, NoSession

ASSUME RuntimeAssumption ==
    /\ Stuck \subseteq Prompts /\ NoPrompt \notin Prompts /\ NoSession \notin Sessions
    /\ MAX_ACTIVE_SESSIONS \in Nat \ {0} /\ MaxCancels \in Nat

VARIABLES
    sessions,     \* the registered sessions, the oldest first
    controller,   \* each session's operation controller: closed, active, cancelling
    disposal,     \* how far the session's end has come
    closing,      \* the operation that its close found active
    generating,   \* the prompt that its agent generates for
    aborted,      \* that generation was told to stop
    canceller,    \* the cancel request that holds the controller's claim
    operation,    \* each prompt's operation: none, starting, generating, done
    cancelled,    \* prompts whose operation was interrupted
    request,      \* each prompt's HTTP request
    target,       \* the session the request names
    cancels       \* counts the cancel requests

runtimeVars == <<sessions, controller, disposal, closing, generating, aborted, canceller,
          operation, cancelled, request, target, cancels>>

Outcomes == {"completed", "error", "cancelled", "cut", "busy", "missing"}

RuntimeTypeOK ==
    /\ sessions \in Seq(Sessions) /\ IsInjective(sessions)
    /\ Len(sessions) <= MAX_ACTIVE_SESSIONS
    /\ controller \in [Sessions -> [closed : BOOLEAN, active : Prompts \union {NoPrompt},
                                    cancelling : Prompts \union {NoPrompt}]]
    /\ disposal \in [Sessions -> {"fresh", "live", "closing", "awaiting", "interrupting",
                                  "disposing", "disposed"}]
    /\ closing \in [Sessions -> Prompts \union {NoPrompt}]
    /\ generating \in [Sessions -> Prompts \union {NoPrompt}]
    /\ aborted \in [Sessions -> BOOLEAN]
    /\ canceller \in [Sessions -> {"none", "interrupting", "awaiting", "failed"}]
    /\ operation \in [Prompts -> {"none", "starting", "generating", "done"}]
    /\ cancelled \subseteq Prompts
    /\ request \in [Prompts -> {"none", "found", "joined", "gone"} \union Outcomes]
    /\ target \in [Prompts -> Sessions \union {NoSession}]
    /\ cancels \in 0..MaxCancels

IdleController == [closed |-> FALSE, active |-> NoPrompt, cancelling |-> NoPrompt]

RuntimeInit ==
    /\ sessions = <<>>
    /\ controller = [s \in Sessions |-> IdleController]
    /\ disposal = [s \in Sessions |-> "fresh"]
    /\ closing = [s \in Sessions |-> NoPrompt]
    /\ generating = [s \in Sessions |-> NoPrompt]
    /\ aborted = [s \in Sessions |-> FALSE]
    /\ canceller = [s \in Sessions |-> "none"]
    /\ operation = [p \in Prompts |-> "none"]
    /\ cancelled = {}
    /\ request = [p \in Prompts |-> "none"]
    /\ target = [p \in Prompts |-> NoSession]
    /\ cancels = 0

sessionVars == <<sessions, disposal, closing>>
promptVars == <<operation, request, target>>

-----------------------------------------------------------------------------
(* Sessions.                                                                    *)

\* The oldest set is evicted before a new one would exceed the limit.
evicted ==
    IF Len(sessions) >= MAX_ACTIVE_SESSIONS THEN {Head(sessions)} ELSE {}

createSession(s) ==
    /\ disposal[s] = "fresh"
    /\ sessions' = Append(IF evicted = {} THEN sessions ELSE Tail(sessions), s)
    /\ disposal' = [o \in Sessions |->
                      CASE o = s -> "live" [] o \in evicted -> "closing" [] OTHER -> disposal[o]]
    /\ UNCHANGED <<controller, closing, generating, aborted, canceller, cancelled,
                   promptVars, cancels>>

closeSession(s) ==
    /\ \E i \in DOMAIN sessions : sessions[i] = s /\ sessions' = RemoveAt(sessions, i)
    /\ disposal' = [disposal EXCEPT ![s] = "closing"]
    /\ UNCHANGED <<controller, closing, generating, aborted, canceller, cancelled,
                   promptVars, cancels>>

\* PiSession.abort: it stops what the agent generates now, whatever that is.
abort(s) == aborted' = [aborted EXCEPT ![s] = generating[s] # NoPrompt]

\* Mutant: the operation is stopped, but not known to be cancelled.
interrupt_Unmarked(p) == abort(target[p]) /\ UNCHANGED cancelled

\* ActiveOperation.interrupt
interrupt(p) == cancelled' = cancelled \union {p} /\ abort(target[p])

\* close: no operation starts from here on; the active one is interrupted.
close(s) ==
    /\ disposal[s] = "closing"
    /\ controller' = [controller EXCEPT ![s].closed = TRUE]
    /\ closing' = [closing EXCEPT ![s] = controller[s].active]
    /\ IF controller[s].active = NoPrompt
       THEN abort(s) /\ disposal' = [disposal EXCEPT ![s] = "disposing"] /\ UNCHANGED cancelled
       ELSE interrupt(controller[s].active) /\ disposal' = [disposal EXCEPT ![s] = "awaiting"]
    /\ UNCHANGED <<sessions, generating, canceller, promptVars, cancels>>

closed(s) == disposal[s] = "awaiting" /\ operation[closing[s]] = "done"

awaitDone(s) ==
    /\ closed(s)
    /\ disposal' = [disposal EXCEPT ![s] = "disposing"]
    /\ UNCHANGED <<sessions, controller, closing, generating, aborted, canceller, cancelled,
                   promptVars, cancels>>

\* SESSION_DISPOSAL_TIMEOUT passes: interruptActive looks at the controller again.
disposalTimeout(s) ==
    /\ disposal[s] = "awaiting" /\ operation[closing[s]] = "generating"
    /\ disposal' = [disposal EXCEPT ![s] =
                      IF controller[s].active = NoPrompt THEN "disposing" ELSE "interrupting"]
    /\ UNCHANGED <<sessions, controller, closing, generating, aborted, canceller, cancelled,
                   promptVars, cancels>>

disposeSession(s) ==
    /\ disposal[s] = "disposing"
    /\ disposal' = [disposal EXCEPT ![s] = "disposed"]
    /\ generating' = [generating EXCEPT ![s] = NoPrompt]
    /\ aborted' = [aborted EXCEPT ![s] = FALSE]
    /\ UNCHANGED <<sessions, controller, closing, canceller, cancelled, promptVars, cancels>>

-----------------------------------------------------------------------------
(* Operations.                                                                  *)

findSession(p, s) ==
    /\ request[p] = "none" /\ disposal[s] # "fresh"
    /\ target' = [target EXCEPT ![p] = s]
    /\ request' = [request EXCEPT ![p] = IF Contains(sessions, s) THEN "found" ELSE "missing"]
    /\ UNCHANGED <<sessionVars, controller, generating, aborted, canceller, operation,
                   cancelled, cancels>>

refusal(s) ==
    IF controller[s].closed THEN "missing"
    ELSE IF controller[s].active # NoPrompt THEN "busy" ELSE "none"

start(p) ==
    LET s == target[p] IN
    /\ request[p] = "found"
    /\ IF refusal(s) = "none"
       THEN /\ controller' = [controller EXCEPT ![s].active = p]
            /\ operation' = [operation EXCEPT ![p] = "starting"]
            /\ request' = [request EXCEPT ![p] = "joined"]
       ELSE /\ request' = [request EXCEPT ![p] = refusal(s)]
            /\ UNCHANGED <<controller, operation>>
    /\ UNCHANGED <<sessionVars, generating, aborted, canceller, cancelled, target, cancels>>

\* The operation's fiber asks the agent.  An abort that came before stopped nothing.
generate(p) ==
    /\ operation[p] = "starting"
    /\ operation' = [operation EXCEPT ![p] = "generating"]
    /\ generating' = [generating EXCEPT ![target[p]] = p]
    /\ aborted' = [aborted EXCEPT ![target[p]] = FALSE]
    /\ UNCHANGED <<sessionVars, controller, canceller, cancelled, request, target, cancels>>

\* Mutant: an operation that ends while it is being cancelled frees the session at once.
finishOperation_Frees(s, p) ==
    IF controller[s].active = p THEN [controller EXCEPT ![s].active = NoPrompt]
    ELSE controller

\* finish: an operation that is being cancelled keeps the session until the cancel is over.
finishOperation(s, p) ==
    IF controller[s].active = p /\ controller[s].cancelling # p
    THEN [controller EXCEPT ![s].active = NoPrompt]
    ELSE controller

\* The operation is over, and the request that joined it has its answer.
ended(p, outcomes) ==
    /\ operation' = [operation EXCEPT ![p] = "done"]
    /\ controller' = finishOperation(target[p], p)
    /\ \E outcome \in outcomes :
         request' = [request EXCEPT ![p] = IF @ = "joined" THEN outcome ELSE @]

settle(p) ==
    LET s == target[p] IN
    /\ operation[p] = "generating" /\ generating[s] = p
    /\ p \in Stuck => ~aborted[s]
    /\ generating' = [generating EXCEPT ![s] = NoPrompt]
    /\ aborted' = [aborted EXCEPT ![s] = FALSE]
    /\ ended(p, IF p \in cancelled THEN {"cancelled"} ELSE {"completed", "error"})
    /\ UNCHANGED <<sessionVars, canceller, cancelled, target, cancels>>

\* interruptActive: the fiber gives the generation up; its finalizers abort and finish.
\* An operation that ended in the meantime has nothing left to interrupt.
interruptActive(s) ==
    LET p == controller[s].active IN
    /\ disposal[s] = "interrupting"
    /\ disposal' = [disposal EXCEPT ![s] = "disposing"]
    /\ IF p # NoPrompt /\ operation[p] = "generating"
       THEN abort(s) /\ ended(p, {"cut"})
       ELSE UNCHANGED <<aborted, operation, controller, request>>
    /\ UNCHANGED <<sessions, closing, generating, canceller, cancelled, target, cancels>>

\* The caller goes away while it waits.
disconnect(p) ==
    /\ request[p] \in {"found", "joined"}
    /\ request' = [request EXCEPT ![p] = "gone"]
    /\ IF request[p] = "joined" THEN interrupt(p) ELSE UNCHANGED <<cancelled, aborted>>
    /\ UNCHANGED <<sessionVars, controller, generating, canceller, operation, target, cancels>>

-----------------------------------------------------------------------------
(* Cancellation.                                                                *)

\* cancelActive claims the active operation; a second cancel finds the claim and is done.
cancelActive(s) ==
    /\ Contains(sessions, s) /\ cancels < MaxCancels /\ cancels' = cancels + 1
    /\ controller[s].active # NoPrompt /\ controller[s].cancelling = NoPrompt
    /\ controller' = [controller EXCEPT ![s].cancelling = controller[s].active]
    /\ canceller' = [canceller EXCEPT ![s] = "interrupting"]
    /\ UNCHANGED <<sessionVars, generating, aborted, cancelled, promptVars>>

interruptCancelled(s) ==
    /\ canceller[s] = "interrupting"
    /\ canceller' = [canceller EXCEPT ![s] = "awaiting"]
    /\ interrupt(controller[s].cancelling)
    /\ UNCHANGED <<sessionVars, controller, generating, promptVars, cancels>>

\* The agent's abort throws: the operation is marked, and goes on.
abortFails(s) ==
    /\ canceller[s] = "interrupting"
    /\ canceller' = [canceller EXCEPT ![s] = "failed"]
    /\ cancelled' = cancelled \union {controller[s].cancelling}
    /\ UNCHANGED <<sessionVars, controller, generating, aborted, promptVars, cancels>>

\* Mutant: the session stays with an operation that ended under the claim.
released_Active(s) == [controller EXCEPT ![s].cancelling = NoPrompt]

released(s) ==
    [controller EXCEPT ![s] =
        [@ EXCEPT !.cancelling = NoPrompt,
                  !.active = IF operation[controller[s].cancelling] = "done"
                             THEN NoPrompt ELSE controller[s].active]]

\* releaseClaim, when the operation is over or could not be interrupted.
releaseClaim(s) ==
    /\ \/ canceller[s] = "awaiting" /\ operation[controller[s].cancelling] = "done"
       \/ canceller[s] = "failed"
    /\ controller' = released(s)
    /\ canceller' = [canceller EXCEPT ![s] = "none"]
    /\ UNCHANGED <<sessionVars, generating, aborted, cancelled, promptVars, cancels>>

-----------------------------------------------------------------------------
\* Nothing is left to do: every session was made and ended, every request was answered.
runtimeRest ==
    /\ \A s \in Sessions : disposal[s] \in {"live", "disposed"}
    /\ \A p \in Prompts : request[p] \notin {"none", "found"}
    /\ UNCHANGED runtimeVars

ofSession(s) ==
    \/ close(s) \/ awaitDone(s) \/ disposalTimeout(s) \/ interruptActive(s)
    \/ disposeSession(s)

RuntimeNext ==
    \/ \E s \in Sessions :
          \/ createSession(s) \/ closeSession(s) \/ ofSession(s)
          \/ cancelActive(s) \/ interruptCancelled(s) \/ abortFails(s) \/ releaseClaim(s)
    \/ \E p \in Prompts, s \in Sessions : findSession(p, s)
    \/ \E p \in Prompts : start(p) \/ generate(p) \/ settle(p) \/ disconnect(p)
    \/ runtimeRest

\* The runtime's own fibers run.  Callers and the agent are free, but an agent that was
\* told to stop does so, unless its provider is stuck.
Fairness ==
    /\ \A s \in Sessions :
          /\ WF_runtimeVars(ofSession(s)) /\ WF_runtimeVars(interruptCancelled(s) \/ abortFails(s))
          /\ WF_runtimeVars(releaseClaim(s))
    /\ \A p \in Prompts :
          WF_runtimeVars(generate(p)) /\ WF_runtimeVars(settle(p) /\ aborted[target[p]])

RuntimeSpec == RuntimeInit /\ [][RuntimeNext]_runtimeVars /\ Fairness

-----------------------------------------------------------------------------
(* Properties.                                                                  *)

\* An abort stops whatever the agent generates, so it must never be under way when the
\* agent works for a turn that nobody cancelled: the claim (cancelling, kept by finish)
\* is there for this.
AbortsItsOwn ==
    \A s \in Sessions :
        aborted[s] => generating[s] \in cancelled \/ controller[s].closed

\* What a caller of the turn service sees of the runtime.
service ==
    [s \in Sessions |->
       IF disposal[s] \in {"fresh", "disposed"} THEN disposal[s]
       ELSE IF controller[s].closed THEN "closed" ELSE "open"]
turn == [s \in Sessions |-> controller[s].active]
claimed == [s \in Sessions |-> controller[s].cancelling # NoPrompt]
answer ==
    [p \in Prompts |->
       IF operation[p] = "done" THEN "ended"
       ELSE IF operation[p] # "none" THEN "taken"
       ELSE IF request[p] \in {"busy", "missing"} THEN "refused" ELSE "none"]

Service ==
    INSTANCE TurnService WITH
        service <- service, turn <- turn, claimed <- claimed, answer <- answer

\* The runtime is the turn service: one turn a session, none taken after the close, each
\* taken once, and every closed or evicted session disposed of when its turn is over,
\* even if its agent never reacts.
IsTurnService == Service!ServiceSpec

\* A turn whose generation was aborted gives its session back, whichever of the cancel,
\* the caller that went away and the close aborted it.
CancelFrees ==
    \A s \in Sessions, p \in Prompts \ Stuck :
        (aborted[s] /\ generating[s] = p) ~> (controller[s].active # p)
==============================================================================
