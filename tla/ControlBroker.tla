---------------------------- MODULE ControlBroker ----------------------------
(* The control broker of the local server (server/control-broker.ts): one grant *)
(* for outside clients, the commands they submit under it, and the channel on   *)
(* which the page that owns the grant takes commands and completes them.        *)
(*                                                                             *)
(* Every operation on the grant holds statePermit, so it is one action.  The    *)
(* descriptor file, the bearer and the event stream are left out.               *)
EXTENDS Naturals, Sequences, FiniteSets, SequencesExt

CONSTANTS
    Commands,      \* identifiers of commands that outside clients submit
    Revocations,   \* identifiers of their disable-control commands
    MAX_PENDING,   \* commands waiting for an answer under one grant (128)
    MaxGrants,     \* bounds the grants of a behaviour
    MaxSubmits     \* bounds the submissions of one identifier

Requests == Commands \union Revocations

ASSUME ControlAssumption ==
    /\ Commands \intersect Revocations = {}
    /\ MAX_PENDING \in Nat \ {0}
    /\ MaxGrants \in Nat /\ MaxSubmits \in Nat

VARIABLES
    grant,     \* the active grant, by number, or NoGrant
    grants,    \* how many grants were made
    queue,     \* the grant's commands that the page has not taken
    pending,   \* its commands that have no completion
    requests   \* what each outside request was told, and under which grant it waits

brokerVars == <<grant, grants, queue, pending, requests>>

NoGrant == 0
Answers == {"succeeded", "conflict", "failed", "unavailable"}
RequestStates == [told : {"nothing", "waiting"} \union Answers, under : 0..MaxGrants,
                  submits : 0..MaxSubmits]

BrokerTypeOK ==
    /\ grant \in 0..MaxGrants /\ grants \in 0..MaxGrants
    /\ queue \in Seq(Requests) /\ pending \subseteq Requests
    /\ requests \in [Requests -> RequestStates]

BrokerInit ==
    /\ grant = NoGrant /\ grants = 0 /\ queue = <<>> /\ pending = {}
    /\ requests = [r \in Requests |-> [told |-> "nothing", under |-> NoGrant, submits |-> 0]]

\* failPending: every request of the grant is told that the workspace is unavailable.
failPending ==
    [r \in Requests |-> IF r \in pending THEN [requests[r] EXCEPT !.told = "unavailable"]
                        ELSE requests[r]]

disableUnlocked ==
    /\ grant' = NoGrant /\ queue' = <<>> /\ pending' = {}
    /\ requests' = failPending

disable == disableUnlocked /\ UNCHANGED grants

\* Mutant: the old grant's requests are not failed.
enable_Forgets ==
    /\ grants < MaxGrants /\ grants' = grants + 1
    /\ grant' = grants' /\ queue' = <<>> /\ pending' = {}
    /\ UNCHANGED requests

\* enable: a fresh grant takes the place of the one there is.
enable ==
    /\ grants < MaxGrants /\ grants' = grants + 1
    /\ grant' = grants' /\ queue' = <<>> /\ pending' = {}
    /\ requests' = failPending

\* submit: registered and queued.  Without a grant it is refused at once.
accepted(r) == grant # NoGrant /\ Cardinality(pending) < MAX_PENDING /\ r \notin pending

submit(r) ==
    /\ requests[r].told \in {"nothing", "unavailable"} /\ requests[r].submits < MaxSubmits
    /\ IF accepted(r)
       THEN /\ pending' = pending \union {r} /\ queue' = Append(queue, r)
            /\ requests' = [requests EXCEPT ![r] = [told |-> "waiting", under |-> grant,
                                                    submits |-> @.submits + 1]]
       ELSE /\ requests' = [requests EXCEPT ![r] = [@ EXCEPT !.told = "unavailable",
                                                !.submits = requests[r].submits + 1]]
            /\ UNCHANGED <<pending, queue>>
    /\ UNCHANGED <<grant, grants>>

\* nextCommand: the page takes the oldest command of the grant it asked under.
takes(g, r) ==
    /\ grant = g /\ queue # <<>> /\ r = Head(queue)
    /\ queue' = Tail(queue)
    /\ UNCHANGED <<grant, grants, pending, requests>>

\* Mutant: a completion answers whoever waits, its command or another.
complete_Any(r, answer) ==
    /\ grant # NoGrant /\ r \in Requests
    /\ pending' = {}
    /\ requests' = [q \in Requests |-> IF q \in pending THEN [requests[q] EXCEPT !.told = answer]
                                       ELSE requests[q]]
    /\ UNCHANGED <<grant, grants, queue>>

\* complete: answers the request that waits for this command under the grant.
complete(r, answer) ==
    /\ grant # NoGrant /\ r \in pending
    /\ pending' = pending \ {r}
    /\ requests' = [requests EXCEPT ![r].told = answer]
    /\ UNCHANGED <<grant, grants, queue>>
==============================================================================
