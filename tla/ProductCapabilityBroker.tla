----------------------- MODULE ProductCapabilityBroker -----------------------
(* The product capability broker of one page                                   *)
(* (src/capabilities/product-capability-broker.ts), the store of its durable    *)
(* decisions (product-capability-decision-store.ts) and the two registries that *)
(* run what it permits (product-capability-registry.ts,                         *)
(* product-event-registry.ts).                                                  *)
(*                                                                             *)
(* One scope and one capability, asked for in several contexts.  Every          *)
(* operation of the broker holds the SynchronizedRef while it reads and writes  *)
(* Web Storage, which answers at once, so it is one action.                     *)
EXTENDS Naturals, FiniteSets, FiniteSetsExt

CONSTANTS
    Workspaces, Digests,   \* what a request context is made of
    Callers,               \* fibers that invoke product operations or streams
    confirmationPolicies,  \* the policies the manifest permits
    maxRate,               \* the manifest's rate: [maxInvocations, intervalMs]
    maxGrantDurationMs,    \* the manifest's longest lifetime
    AllowChoices,          \* what the user may ask for: a policy, a lifetime, a rate
    LegacyStates,          \* what the version 1 record may say of this capability
    legacyOthers,          \* the version 1 record has another scope, never loaded
    MaxDecisions,          \* bounds the decisions of a behaviour
    MaxInvocations,        \* bounds the reservations of a behaviour
    MaxTime,               \* bounds the clock
    MaxFaults,             \* bounds the failing storage calls
    MaxReloads             \* bounds the reloads of the page

Contexts == [workspaceId : Workspaces, requestDigest : Digests]
Rates == [maxInvocations : Nat \ {0}, intervalMs : Nat \ {0}]
Never == 2 * MaxTime + 1
Allowances == [confirmationPolicy : {"once", "session", "workspace", "persistent"},
               durationMs : (1..MaxTime) \union {Never}, rateLimit : Rates]

ASSUME BrokerAssumption ==
    /\ MaxDecisions \in Nat /\ MaxInvocations \in Nat /\ MaxTime \in Nat
    /\ MaxFaults \in Nat /\ MaxReloads \in Nat
    /\ confirmationPolicies \subseteq {"once", "session", "workspace", "persistent"}
    /\ maxRate \in Rates /\ maxGrantDurationMs \in Nat
    /\ AllowChoices \subseteq Allowances
    /\ LegacyStates \subseteq {"none", "granted", "revoked"}
    /\ legacyOthers \in BOOLEAN

VARIABLES
    decisions,       \* the broker's decisions, in memory
    loadedContexts,  \* digests whose stored decisions were looked for
    activeLeases,    \* decision identifier -> fibers that run under it
    store,           \* the version 2 record: durable decisions
    legacy,          \* the version 1 record's state of this capability
    calls,           \* what each caller is doing
    now,             \* the wall clock
    asked, faults, reloads,  \* bounded counters
    said,            \* history: the identifier of the user's last allow, or NoDecision
    uses,            \* history: reservations of each decision before each moment
    excused,         \* history: storage was unreadable since it was last written
    unrecorded       \* history: the last choice is in no record, but an older one is

vars == <<decisions, loadedContexts, activeLeases, store, legacy, calls, now,
          asked, faults, reloads, said, uses, excused, unrecorded>>

NoDecision == MaxDecisions + 1
Migrated == 0
Ids == 0..MaxDecisions
Times == 0..MaxTime
End == MaxTime + 1
Moments == 0..End
NoLimit == [maxInvocations |-> 0, intervalMs |-> 0]

Usage == [totalInvocations : Nat, windowInvocations : Nat, windowStartedAtMillis : Times]
Decisions == [decisionId : Ids, workspaceId : Workspaces, requestDigest : Digests,
              status : {"granted", "denied", "revoked"},
              confirmationPolicy : {"once", "session", "workspace", "persistent"},
              expiresAtMillis : Nat, rateLimit : Rates \union {NoLimit},
              usage : Usage, updatedAtMillis : Times]

Idle == [at |-> "idle", decisionId |-> NoDecision, interrupted |-> FALSE]
CallStates == [at : {"idle", "reserved", "running", "streaming"},
               decisionId : Ids \union {NoDecision}, interrupted : BOOLEAN]

\* The broker's state has the shapes the code gives it.
TypeOK ==
    /\ decisions \subseteq Decisions /\ store \subseteq Decisions
    /\ loadedContexts \subseteq Digests
    /\ activeLeases \in [Ids -> SUBSET Callers]
    /\ legacy \in {"none", "granted", "revoked"}
    /\ calls \in [Callers -> CallStates]
    /\ now \in Times /\ asked \in 0..MaxDecisions
    /\ faults \in 0..MaxFaults /\ reloads \in 0..MaxReloads
    /\ said \in Ids \union {NoDecision}
    /\ uses \in [Ids -> [Moments -> Nat]]
    /\ excused \in BOOLEAN /\ unrecorded \in BOOLEAN

-----------------------------------------------------------------------------
(* Decisions.                                                                  *)

isDurable(d) == d.confirmationPolicy \in {"workspace", "persistent"}
durableDecisions(ds) == {d \in ds : isDurable(d)}

\* A decision was made for the exact request, and in its workspace when it says so.
Applies(d, c) ==
    /\ d.requestDigest = c.requestDigest
    /\ d.confirmationPolicy = "workspace" => d.workspaceId = c.workspaceId

latestDecision(c) ==
    LET applicable == {d \in decisions : Applies(d, c)}
    IN {d \in applicable : \A e \in applicable : e.updatedAtMillis <= d.updatedAtMillis}

\* The lifecycle "granted".
Live(d) ==
    /\ d.status = "granted"
    /\ d.expiresAtMillis > now
    /\ ~(d.confirmationPolicy = "once" /\ d.usage.totalInvocations >= 1)

NewDecision(c, status, policy, duration, rate) ==
    [decisionId |-> asked + 1, workspaceId |-> c.workspaceId, requestDigest |-> c.requestDigest,
     status |-> status, confirmationPolicy |-> policy,
     expiresAtMillis |-> IF duration = Never THEN Never ELSE now + duration,
     rateLimit |-> rate,
     usage |-> [totalInvocations |-> 0, windowInvocations |-> 0, windowStartedAtMillis |-> now],
     updatedAtMillis |-> now]

\* What the version 1 record becomes: no rate, no lifetime.
MigratedDecision(c) ==
    [NewDecision(c, legacy, "persistent", Never, NoLimit) EXCEPT !.decisionId = Migrated]

\* The manifest bounds the lifetime of a choice that has one, and its average rate.
WithinManifest(choice) ==
    /\ choice.confirmationPolicy \in confirmationPolicies
    /\ choice.durationMs # Never => choice.durationMs <= maxGrantDurationMs
    /\ choice.rateLimit.maxInvocations * maxRate.intervalMs
         <= maxRate.maxInvocations * choice.rateLimit.intervalMs

\* `choice`: a denial, or an allowance within what the manifest permits.
Offered(c) ==
    {NewDecision(c, "denied", "persistent", Never, NoLimit)}
    \union {NewDecision(c, "granted", a.confirmationPolicy, a.durationMs, a.rateLimit) :
              a \in {choice \in AllowChoices : WithinManifest(choice)}}

Spent(id, from, until) == uses[id][until] - uses[id][from]
invocations == FoldSet(LAMBDA id, n : uses[id][End] + n, 0, Ids)

fault == faults < MaxFaults /\ faults' = faults + 1

-----------------------------------------------------------------------------
(* Loading.                                                                    *)

\* Decisions in memory take precedence over those just read.
Merged(loaded) ==
    decisions \union {d \in loaded : \A e \in decisions : e.decisionId # d.decisionId}

\* The version 1 record goes when all it says is represented; a failing removal is ignored.
legacyAfter(durable) ==
    LET complete == durable # {} /\ ~legacyOthers
    IN  \/ legacy' = (IF complete THEN "none" ELSE legacy) /\ UNCHANGED faults
        \/ complete /\ legacy # "none" /\ fault /\ UNCHANGED legacy

\* Mutant: the version 1 state is migrated whether version 2 decides or not.
migrates_Again == legacy # "none" /\ "persistent" \in confirmationPolicies

\* The version 1 state is migrated while version 2 has no decision on the capability:
\* also when it had one, which a choice for the session or for once has replaced.
migrates == legacy # "none" /\ store = {} /\ "persistent" \in confirmationPolicies

\* store.load for context c.
Load(c) ==
    LET durable == store \union (IF migrates THEN {MigratedDecision(c)} ELSE {})
    IN  /\ decisions' = Merged(durable) /\ store' = durable /\ legacyAfter(durable)
        /\ UNCHANGED excused

\* The version 2 record cannot be read; or version 1 cannot, or what was migrated cannot be
\* saved, and version 2 is what was read.
LoadFails ==
    /\ fault
    /\ \/ excused' = TRUE /\ UNCHANGED decisions
       \/ decisions' = Merged(store) /\ UNCHANGED excused
    /\ UNCHANGED <<store, legacy>>

\* ensureLoaded: each operation looks once for the stored decisions of its context.
ensureLoaded(c) ==
    /\ c.requestDigest \notin loadedContexts
    /\ Load(c) \/ LoadFails
    /\ loadedContexts' = loadedContexts \union {c.requestDigest}
    /\ UNCHANGED <<activeLeases, calls, now, asked, reloads, said, uses, unrecorded>>

\* The page is closed and opened: fibers and memory end; the layer loads what is
\* stored, for no context.
reload ==
    /\ reloads < MaxReloads /\ reloads' = reloads + 1
    /\ \/ decisions' = store /\ legacyAfter(store) /\ UNCHANGED excused
       \/ decisions' = store /\ fault /\ UNCHANGED <<legacy, excused>>
       \/ decisions' = {} /\ fault /\ excused' = TRUE /\ UNCHANGED legacy
    /\ loadedContexts' = {}
    /\ activeLeases' = [i \in Ids |-> {}]
    /\ calls' = [f \in Callers |-> Idle]
    /\ UNCHANGED <<store, now, asked, said, uses, unrecorded>>

-----------------------------------------------------------------------------
(* The protected user.                                                         *)

\* decide: the new decision takes the place of every decision on the capability, and
\* is saved when it or one it replaces is durable.  A failed save changes nothing.
mustSave(d) == isDurable(d) \/ durableDecisions(decisions) # {}

decide(c) ==
    /\ c.requestDigest \in loadedContexts
    /\ asked < MaxDecisions /\ asked' = asked + 1
    /\ \E d \in Offered(c) :
         \/ /\ decisions' = {d}
            /\ store' = IF mustSave(d) THEN durableDecisions({d}) ELSE store
            /\ said' = IF d.status = "granted" THEN d.decisionId ELSE NoDecision
            /\ excused' = (excused /\ ~mustSave(d))
            /\ unrecorded' = (legacy # "none" /\ store' = {})
            /\ UNCHANGED faults
         \/ mustSave(d) /\ fault /\ UNCHANGED <<decisions, store, said, excused, unrecorded>>
    /\ UNCHANGED <<loadedContexts, activeLeases, legacy, calls, now, reloads, uses>>

\* revoke: the decision stays, revoked; the fibers that run under it are interrupted.
Replaced(d, e) == (decisions \ {d}) \union {e}

saved_Session(d, ds) == UNCHANGED store  \* mutant: revoke and reserve do not save
saved(d, ds) == store' = IF isDurable(d) THEN durableDecisions(ds) ELSE store

interruptAll(fibers) ==
    calls' = [f \in Callers |-> IF f \in fibers THEN [calls[f] EXCEPT !.interrupted = TRUE]
                                ELSE calls[f]]

revoke(d) ==
    /\ \/ /\ decisions' = Replaced(d, [d EXCEPT !.status = "revoked", !.updatedAtMillis = now])
          /\ saved(d, decisions')
          /\ activeLeases' = [activeLeases EXCEPT ![d.decisionId] = {}]
          /\ interruptAll(activeLeases[d.decisionId])
          /\ said' = IF said = d.decisionId THEN NoDecision ELSE said
          /\ UNCHANGED faults
       \/ isDurable(d) /\ fault /\ UNCHANGED <<decisions, store, activeLeases, calls, said>>
    /\ UNCHANGED <<loadedContexts, legacy, now, asked, reloads, uses, excused, unrecorded>>

-----------------------------------------------------------------------------
(* Product operations: reserve, authorize, run under a lease.                  *)

windowReset(d) ==
    d.rateLimit # NoLimit /\ now - d.usage.windowStartedAtMillis >= d.rateLimit.intervalMs

windowInvocations(d) == IF windowReset(d) THEN 0 ELSE d.usage.windowInvocations

withinRate(d) == d.rateLimit # NoLimit => windowInvocations(d) < d.rateLimit.maxInvocations

\* Mutants: the window keeps its start for ever; the total is not counted.
used_KeepsStart(d) ==
    [d EXCEPT !.usage = [totalInvocations |-> d.usage.totalInvocations + 1,
                         windowInvocations |-> windowInvocations(d) + 1,
                         windowStartedAtMillis |-> d.usage.windowStartedAtMillis]]
used_NoTotal(d) == [d EXCEPT !.usage.windowInvocations = windowInvocations(d) + 1]

used(d) ==
    [d EXCEPT !.usage =
        [totalInvocations |-> d.usage.totalInvocations + 1,
         windowInvocations |-> windowInvocations(d) + 1,
         windowStartedAtMillis |-> IF windowReset(d) THEN now
                                   ELSE d.usage.windowStartedAtMillis]]

counted(u) == [t \in Moments |-> IF t > now THEN u[t] + 1 ELSE u[t]]

\* reserve: the latest decision is spent before the operation runs, and the usage of a
\* durable one is saved.  Then the operation runs, or its events are subscribed to.
reserve(f, c) ==
    /\ calls[f].at = "idle" /\ c.requestDigest \in loadedContexts
    /\ invocations < MaxInvocations
    /\ \E d \in latestDecision(c) :
         /\ Live(d) /\ withinRate(d)
         /\ \/ /\ decisions' = Replaced(d, used(d))
               /\ saved(d, decisions')
               /\ calls' = [calls EXCEPT ![f] = [at |-> "reserved", decisionId |-> d.decisionId,
                                                 interrupted |-> FALSE]]
               /\ uses' = [uses EXCEPT ![d.decisionId] = counted(@)]
               /\ UNCHANGED faults
            \/ isDurable(d) /\ fault /\ UNCHANGED <<decisions, store, calls, uses>>
    /\ UNCHANGED <<loadedContexts, activeLeases, legacy, now, asked, reloads, said, excused,
                   unrecorded>>

\* Mutants: a decision that is gone does not refuse; the status is not looked at again.
permits_Unknown(id) ==
    \A d \in decisions : d.decisionId = id => d.status = "granted" /\ d.expiresAtMillis > now
permits_AnyStatus(id) == \E d \in decisions : d.decisionId = id /\ d.expiresAtMillis > now

\* The decision a reservation was made under still permits it (once is not asked again).
permits(id) ==
    \E d \in decisions : d.decisionId = id /\ d.status = "granted" /\ d.expiresAtMillis > now

ends(f) ==
    /\ calls' = [calls EXCEPT ![f] = Idle]
    /\ UNCHANGED <<decisions, loadedContexts, store, legacy, now, asked, faults, reloads,
                   said, uses, excused, unrecorded>>

\* withReservation: the reservation is looked at again, and the fiber takes its lease.
withReservation(f) ==
    /\ calls[f].at = "reserved" /\ permits(calls[f].decisionId)
    /\ calls' = [calls EXCEPT ![f].at = "running"]
    /\ activeLeases' = [activeLeases EXCEPT ![calls[f].decisionId] = @ \union {f}]
    /\ UNCHANGED <<decisions, loadedContexts, store, legacy, now, asked, faults, reloads,
                   said, uses, excused, unrecorded>>

\* It is refused, or the product's own authorization of the input fails.
refused(f) ==
    /\ calls[f].at = "reserved" /\ ends(f)
    /\ UNCHANGED activeLeases

\* The operation ends, fails or is interrupted: its lease is given back.
finish(f) ==
    /\ calls[f].at = "running" /\ ends(f)
    /\ activeLeases' = [activeLeases EXCEPT ![calls[f].decisionId] = @ \ {f}]

\* Events: the stream takes no lease and does not look at the reservation at once.
subscribe(f) ==
    /\ calls[f].at = "reserved"
    /\ calls' = [calls EXCEPT ![f].at = "streaming"]
    /\ UNCHANGED <<decisions, loadedContexts, activeLeases, store, legacy, now, asked, faults,
                   reloads, said, uses, excused, unrecorded>>

\* A subscriber leaves, or the source ends.
unsubscribe(f) ==
    calls[f].at = "streaming" /\ ends(f) /\ UNCHANGED activeLeases

\* Mutant: a stream that was let in is not asked again.
inspectReservation_Once(f) ==
    calls[f].at = "reserved" /\ ~permits(calls[f].decisionId) /\ ends(f) /\ UNCHANGED activeLeases

\* inspectReservation, every 100 ms: the stream is interrupted when it fails.
inspectReservation(f) ==
    /\ calls[f].at = "streaming" /\ ~permits(calls[f].decisionId)
    /\ ends(f)
    /\ UNCHANGED activeLeases

tick ==
    /\ now < MaxTime /\ now' = now + 1
    /\ UNCHANGED <<decisions, loadedContexts, activeLeases, store, legacy, calls, asked, faults,
                   reloads, said, uses, excused, unrecorded>>

\* Nothing is asked of the broker.
rest == (\A f \in Callers : calls[f].at = "idle") /\ UNCHANGED vars

Init ==
    /\ decisions = {} /\ store = {} /\ loadedContexts = {}
    /\ activeLeases = [i \in Ids |-> {}]
    /\ legacy \in LegacyStates
    /\ calls = [f \in Callers |-> Idle]
    /\ now = 0 /\ asked = 0 /\ faults = 0 /\ reloads = 0
    /\ said = IF legacy = "granted" THEN Migrated ELSE NoDecision
    /\ uses = [i \in Ids |-> [t \in Moments |-> 0]]
    /\ excused = FALSE /\ unrecorded = FALSE

Next ==
    \/ \E c \in Contexts : ensureLoaded(c) \/ decide(c)
    \/ \E c \in Contexts, f \in Callers : reserve(f, c)
    \/ \E d \in decisions : revoke(d)
    \/ \E f \in Callers : \/ withReservation(f) \/ refused(f) \/ finish(f)
                          \/ subscribe(f) \/ unsubscribe(f) \/ inspectReservation(f)
    \/ reload \/ tick \/ rest

\* Effect.forever(sleep, inspect): the inspection of a stream keeps coming back.
Spec == Init /\ [][Next]_vars /\ \A f \in Callers : WF_vars(inspectReservation(f))

-----------------------------------------------------------------------------
(* Properties.                                                                 *)

\* What may permit: what the user allowed last; and what the version 1 record says, when
\* the user's last choice is in no record and that one was left behind.
LastWord(id) == id = said \/ (id = Migrated /\ unrecorded)

\* What memory and storage permit is what the user allowed last: a denial, a revocation or
\* a narrower choice is not undone by a load, a migration, a reload or a failed save, with
\* or without a version 1 record left behind, but for a choice that no record holds (Load).
AuthorityIsLatest ==
    ~excused => \A d \in decisions \union store : d.status = "granted" => LastWord(d.decisionId)

\* The stored record is the durable part of memory: a save that failed changed neither,
\* and one that was skipped had nothing durable to say (decide, revoke, reserve).
StoreFollowsMemory ==
    ~excused /\ loadedContexts # {} => store = durableDecisions(decisions)

\* Whatever runs under a revoked decision is being interrupted, wherever the revocation
\* came between reserve, the product's authorization, withReservation and the end.
RevocationStops ==
    \A f \in Callers : calls[f].at = "running" /\ ~calls[f].interrupted =>
        \A d \in decisions : d.decisionId = calls[f].decisionId => d.status # "revoked"

\* An operation begins only under what the user allowed last: a denial, a revocation or a
\* narrower choice made after its reservation stops it, and so does the end of its lifetime
\* (withReservation).
BeginsUnderLastWord ==
    [][\A f \in Callers : calls'[f].at = "running" /\ calls[f].at # "running" /\ ~excused =>
           /\ LastWord(calls'[f].decisionId)
           /\ \E d \in decisions : d.decisionId = calls'[f].decisionId /\ now < d.expiresAtMillis
      ]_vars

\* A choice of the user is followed by no operation that it does not allow: none begins
\* after a denial or a revocation, for as long as the user allows nothing (decide, revoke).
RevokingPreventsLaterInvocations ==
    [][\A f \in Callers : calls'[f].at = "running" /\ calls[f].at # "running" =>
           said # NoDecision]_vars

\* A decision to allow once is spent by the first attempt, concurrent ones included.
OnceIsOnce ==
    \A d \in decisions : d.confirmationPolicy = "once" => uses[d.decisionId][End] <= 1

\* Any period as long as the limit's has at most twice its invocations, over reloads and
\* workspaces too: a window may end with its last and the next begin with its first.
RateBounded ==
    \A d \in {e \in decisions : e.rateLimit # NoLimit}, from, until \in Moments :
        from <= until /\ until <= from + d.rateLimit.intervalMs =>
            Spent(d.decisionId, from, until) <= 2 * d.rateLimit.maxInvocations

\* A stream whose decision was revoked, replaced or has expired ends.
StreamEnds ==
    \A f \in Callers :
        calls[f].at = "streaming" /\ ~permits(calls[f].decisionId) ~> calls[f].at # "streaming"

==============================================================================
