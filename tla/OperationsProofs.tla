--------------------------- MODULE OperationsProofs ---------------------------
(* Theorems about the two guards of operations, one after the other.             *)
(*                                                                               *)
(* Operations of the product (ProductCapabilityBroker), for any manifest,        *)
(* contexts, callers and bounds: what memory and storage permit is what the user *)
(* allowed last, or what an older record says when no record holds that; nothing *)
(* runs on under a revoked decision, once is once, and a rate is at most doubled *)
(* in any period of its length.                                                  *)
(*                                                                               *)
(* Operations of the agent (PiRuntime), for any sessions, prompts and bounds,    *)
(* whichever providers are stuck: an abort stops the turn it was meant for, and  *)
(* every step of the runtime is a step of the turn service or none.              *)
EXTENDS ProductCapabilityBroker, PiRuntime, SequenceTheorems, TLAPS

-----------------------------------------------------------------------------
(* The product: what the inductive invariant says.                               *)

Known == decisions \union store

\* Identifiers are given out in order, one decision each, and memory and storage never
\* have two versions of a decision.
OneVersion ==
    /\ \A d \in Known : d.decisionId <= asked
    /\ \A d, e \in Known : d.decisionId = e.decisionId => d = e

\* Storage has everything durable that memory has; it may have more when it could not be
\* read, and only then.
Stored ==
    /\ \A d \in store : isDurable(d)
    /\ \A d \in decisions : d.decisionId = Migrated => isDurable(d)
    /\ \A d \in decisions : isDurable(d) => d \in store
    /\ ~excused => store \subseteq decisions

\* While a version 1 grant can be migrated, it is the user's last word: because nothing was
\* decided since, or because no record holds what was.
LegacyFirst ==
    ~excused /\ legacy = "granted" /\ migrates => LastWord(Migrated)

\* A version 1 record that says "revoked" has never permitted anything.
LegacyRevoked ==
    legacy = "revoked" =>
        /\ \A d \in Known : d.decisionId = Migrated => d.status # "granted"
        /\ \A f \in Callers : calls[f].decisionId # Migrated

\* An operation that runs has its lease, or is being interrupted.
Leased ==
    \A f \in Callers : calls[f].at = "running" =>
        /\ calls[f].decisionId \in Ids
        /\ ~calls[f].interrupted => f \in activeLeases[calls[f].decisionId]

\* RevocationStops, of storage too: a load may bring back what memory has lost.
NoneRunsRevoked ==
    \A f \in Callers : calls[f].at = "running" /\ ~calls[f].interrupted =>
        \A d \in Known : d.decisionId = calls[f].decisionId => d.status # "revoked"

\* The usage of a decision to allow once counts its reservations.
OnceCounts ==
    /\ \A i \in Ids, t \in Moments : i > asked => uses[i][t] = 0
    /\ \A d \in decisions : d.confirmationPolicy = "once" =>
          \/ uses[d.decisionId][End] = 0
          \/ d.usage.totalInvocations >= 1 /\ uses[d.decisionId][End] <= 1

\* u, the reservations of a decision before each moment, is bounded by its rate, and its
\* usage counts those of the window that began last: no earlier window overlaps it by more
\* than the limit.
Counted(u, rate, usage) ==
    LET began == usage.windowStartedAtMillis
    IN  /\ \A s, t \in Moments : s <= t => u[s] <= u[t]
        /\ began <= now /\ usage.windowInvocations <= rate.maxInvocations
        /\ u[End] = u[began] + usage.windowInvocations
        /\ \A t \in Moments : began + rate.intervalMs <= t => u[t] = u[End]
        /\ \A t \in Moments : t <= began /\ began < t + rate.intervalMs =>
               u[began] <= u[t] + rate.maxInvocations
        /\ \A s, t \in Moments : s <= t /\ t <= s + rate.intervalMs =>
               u[t] <= u[s] + 2 * rate.maxInvocations

\* RateBounded, of storage too: a load brings back what memory has lost.
RateCounts ==
    \A d \in Known : d.rateLimit # NoLimit => Counted(uses[d.decisionId], d.rateLimit, d.usage)

Inv ==
    /\ TypeOK /\ OneVersion /\ Stored /\ LegacyFirst /\ LegacyRevoked
    /\ AuthorityIsLatest /\ Leased /\ NoneRunsRevoked /\ OnceCounts /\ RateCounts

-----------------------------------------------------------------------------
(* Decisions.                                                                   *)

LEMMA Bounds ==
    /\ MaxDecisions \in Nat /\ MaxTime \in Nat /\ MaxFaults \in Nat /\ MaxReloads \in Nat
    /\ Migrated \in Ids /\ NoDecision \notin Ids /\ Migrated # NoDecision
    /\ 0 \in Times /\ Never \in Nat
  BY BrokerAssumption DEF Migrated, Ids, NoDecision, Times, Never

LEMMA NewDecisionType ==
    ASSUME TypeOK, asked < MaxDecisions, NEW c \in Contexts,
           NEW status \in {"granted", "denied", "revoked"},
           NEW policy \in {"once", "session", "workspace", "persistent"},
           NEW duration \in Nat, NEW rate \in Rates \union {NoLimit}
    PROVE  /\ NewDecision(c, status, policy, duration, rate) \in Decisions
           /\ NewDecision(c, status, policy, duration, rate).decisionId = asked + 1
           /\ NewDecision(c, status, policy, duration, rate).status = status
           /\ NewDecision(c, status, policy, duration, rate).confirmationPolicy = policy
           /\ NewDecision(c, status, policy, duration, rate).usage =
                [totalInvocations |-> 0, windowInvocations |-> 0, windowStartedAtMillis |-> now]
<1>1. now \in Times /\ now \in Nat /\ asked + 1 \in Ids
  BY Bounds DEF TypeOK, Times, Ids
<1>2. (IF duration = Never THEN Never ELSE now + duration) \in Nat
  BY <1>1, Bounds
<1>3. [totalInvocations |-> 0, windowInvocations |-> 0, windowStartedAtMillis |-> now] \in Usage
  BY <1>1 DEF Usage
<1>4. c.workspaceId \in Workspaces /\ c.requestDigest \in Digests
  BY DEF Contexts
<1>5. QED
  BY <1>1, <1>2, <1>3, <1>4 DEF NewDecision, Decisions

\* A decision of the user is a new one, and never a revocation.
LEMMA OfferedType ==
    ASSUME TypeOK, asked < MaxDecisions, NEW c \in Contexts, NEW d \in Offered(c)
    PROVE  /\ d \in Decisions /\ d.decisionId = asked + 1 /\ d.status \in {"granted", "denied"}
           /\ d.usage = [totalInvocations |-> 0, windowInvocations |-> 0,
                         windowStartedAtMillis |-> now]
<1>1. CASE d = NewDecision(c, "denied", "persistent", Never, NoLimit)
  BY <1>1, NewDecisionType, Bounds
<1>2. ASSUME NEW a \in AllowChoices,
             d = NewDecision(c, "granted", a.confirmationPolicy, a.durationMs, a.rateLimit)
      PROVE  /\ d \in Decisions /\ d.decisionId = asked + 1 /\ d.status \in {"granted", "denied"}
             /\ d.usage = [totalInvocations |-> 0, windowInvocations |-> 0,
                           windowStartedAtMillis |-> now]
  <2>1. /\ a.confirmationPolicy \in {"once", "session", "workspace", "persistent"}
        /\ a.durationMs \in Nat /\ a.rateLimit \in Rates
    BY BrokerAssumption, Bounds DEF Allowances
  <2>2. QED
    BY <1>2, <2>1, NewDecisionType
<1>3. QED
  BY <1>1, <1>2 DEF Offered

LEMMA MigratedType ==
    ASSUME TypeOK, NEW c \in Contexts, legacy # "none"
    PROVE  /\ MigratedDecision(c) \in Decisions
           /\ MigratedDecision(c).decisionId = Migrated
           /\ MigratedDecision(c).status = legacy
           /\ MigratedDecision(c).confirmationPolicy = "persistent"
           /\ MigratedDecision(c).rateLimit = NoLimit
<1>1. now \in Times /\ asked + 1 \in Nat /\ legacy \in {"granted", "revoked"}
  BY Bounds DEF TypeOK, Ids
<1>2. [totalInvocations |-> 0, windowInvocations |-> 0, windowStartedAtMillis |-> now] \in Usage
  BY <1>1 DEF Usage
<1>3. c.workspaceId \in Workspaces /\ c.requestDigest \in Digests
  BY DEF Contexts
<1>4. QED
  BY <1>1, <1>2, <1>3, Bounds DEF MigratedDecision, NewDecision, Decisions

\* What a revocation and a reservation make of a decision.
LEMMA RevokedType ==
    ASSUME NEW d \in Decisions, NEW t \in Times
    PROVE  LET e == [d EXCEPT !.status = "revoked", !.updatedAtMillis = t]
           IN  /\ e \in Decisions /\ e.decisionId = d.decisionId /\ e.status = "revoked"
               /\ e.confirmationPolicy = d.confirmationPolicy /\ e.usage = d.usage
               /\ e.rateLimit = d.rateLimit
  BY DEF Decisions

LEMMA UsedType ==
    ASSUME TypeOK, NEW d \in Decisions
    PROVE  /\ used(d) \in Decisions /\ used(d).decisionId = d.decisionId
           /\ used(d).status = d.status /\ used(d).confirmationPolicy = d.confirmationPolicy
           /\ used(d).rateLimit = d.rateLimit
           /\ used(d).usage.totalInvocations = d.usage.totalInvocations + 1
           /\ used(d).usage.windowInvocations = windowInvocations(d) + 1
           /\ used(d).usage.windowStartedAtMillis =
                IF windowReset(d) THEN now ELSE d.usage.windowStartedAtMillis
<1> DEFINE usage == [totalInvocations |-> d.usage.totalInvocations + 1,
                     windowInvocations |-> windowInvocations(d) + 1,
                     windowStartedAtMillis |-> IF windowReset(d) THEN now
                                               ELSE d.usage.windowStartedAtMillis]
<1>1. usage \in Usage
  BY DEF Decisions, Usage, windowInvocations, TypeOK
<1>2. used(d) = [d EXCEPT !.usage = usage]
  BY DEF used
<1>3. /\ usage.totalInvocations = d.usage.totalInvocations + 1
      /\ usage.windowInvocations = windowInvocations(d) + 1
      /\ usage.windowStartedAtMillis = IF windowReset(d) THEN now
                                       ELSE d.usage.windowStartedAtMillis
  OBVIOUS
<1> HIDE DEF usage
<1>4. QED
  BY <1>1, <1>2, <1>3 DEF Decisions

-----------------------------------------------------------------------------
(* The rate.                                                                    *)

LEMMA MomentsAre ==
    /\ \A t \in Moments : t \in Nat /\ t <= End
    /\ End \in Moments /\ Times \subseteq Moments /\ \A t \in Times : t < End
  BY Bounds DEF Moments, End, Times

LEMMA LimitType ==
    ASSUME NEW d \in Decisions, d.rateLimit # NoLimit
    PROVE  /\ d.rateLimit.maxInvocations \in Nat \ {0} /\ d.rateLimit.intervalMs \in Nat \ {0}
           /\ d.usage.windowInvocations \in Nat /\ d.usage.windowStartedAtMillis \in Times
  BY DEF Decisions, Rates, Usage

\* A decision that was just made has spent nothing.
LEMMA NoneCounted ==
    ASSUME TypeOK, NEW d \in Decisions, d.rateLimit # NoLimit,
           NEW u, \A t \in Moments : u[t] = 0,
           d.usage = [totalInvocations |-> 0, windowInvocations |-> 0,
           windowStartedAtMillis |-> now]
    PROVE  Counted(u, d.rateLimit, d.usage)
<1>1. now \in Moments /\ now \in Nat /\ End \in Moments
  BY MomentsAre DEF TypeOK
<1>2. d.rateLimit.maxInvocations \in Nat
  BY LimitType
<1>3. QED
  BY <1>1, <1>2 DEF Counted

\* A reservation in the window that began last, which its limit does not fill.
LEMMA InWindow ==
    ASSUME now \in Times, NEW u \in [Moments -> Nat], NEW began \in Times, NEW w \in Nat,
           NEW n \in Nat \ {0}, NEW i \in Nat \ {0}, now < began + i, w < n,
           Counted(u, [maxInvocations |-> n, intervalMs |-> i],
                   [windowInvocations |-> w, windowStartedAtMillis |-> began])
    PROVE  Counted(counted(u), [maxInvocations |-> n, intervalMs |-> i],
                   [windowInvocations |-> w + 1, windowStartedAtMillis |-> began])
<1>1. /\ \A t \in Moments : t \in Nat /\ t <= End /\ u[t] \in Nat
      /\ End \in Moments /\ began \in Moments /\ now < End /\ now \in Nat
  BY MomentsAre DEF Times
<1>2. /\ \A s, t \in Moments : s <= t => u[s] <= u[t]
      /\ began <= now
      /\ u[End] = u[began] + w
      /\ \A t \in Moments : began + i <= t => u[t] = u[End]
      /\ \A t \in Moments : t <= began /\ began < t + i => u[began] <= u[t] + n
      /\ \A s, t \in Moments : s <= t /\ t <= s + i => u[t] <= u[s] + 2 * n
  BY DEF Counted
<1> DEFINE v == counted(u)
<1>3. \A t \in Moments : v[t] = IF t > now THEN u[t] + 1 ELSE u[t]
  BY DEF counted
<1> HIDE DEF v
<1>4. ASSUME NEW s \in Moments, NEW t \in Moments, s <= t PROVE v[s] <= v[t]
  <2>1. u[s] <= u[t] /\ u[s] \in Nat /\ u[t] \in Nat /\ s \in Nat /\ t \in Nat
    BY <1>1, <1>2, <1>4
  <2>2. QED
    BY <1>1, <1>3, <1>4, <2>1
<1>5. v[End] = v[began] + (w + 1)
  BY <1>1, <1>2, <1>3
<1>6. \A t \in Moments : began + i <= t => v[t] = v[End]
  BY <1>1, <1>2, <1>3
<1>7. \A t \in Moments : t <= began /\ began < t + i => v[began] <= v[t] + n
  BY <1>1, <1>2, <1>3
<1>8. ASSUME NEW s \in Moments, NEW t \in Moments, s <= t, t <= s + i
      PROVE  v[t] <= v[s] + 2 * n
  <2>1. s \in Nat /\ t \in Nat /\ u[s] \in Nat /\ u[t] \in Nat /\ u[t] <= u[s] + 2 * n
    BY <1>1, <1>2, <1>8
  <2>2. CASE ~(s <= now /\ now < t)
    BY <1>1, <1>3, <2>1, <2>2
  <2>3. CASE s <= now /\ now < t
    <3>1. u[t] <= u[began] + w /\ u[began] \in Nat
      BY <1>1, <1>2, <2>1
    <3>2. u[began] <= u[s] + n
      BY <1>1, <1>2, <1>8, <2>1, <2>3, <3>1
    <3>3. v[t] = u[t] + 1 /\ v[s] = u[s]
      BY <1>1, <1>3, <2>1, <2>3
    <3>4. QED
      BY <2>1, <3>1, <3>2, <3>3
  <2>4. QED
    BY <2>2, <2>3
<1>9. w + 1 <= n
  OBVIOUS
<1>10. QED
  BY <1>2, <1>4, <1>5, <1>6, <1>7, <1>8, <1>9 DEF Counted, v

\* A reservation that begins a window: the one before it is over.
LEMMA NewWindow ==
    ASSUME now \in Times, NEW u \in [Moments -> Nat], NEW began \in Times, NEW w \in Nat,
           NEW n \in Nat \ {0}, NEW i \in Nat \ {0}, began + i <= now,
           Counted(u, [maxInvocations |-> n, intervalMs |-> i],
                   [windowInvocations |-> w, windowStartedAtMillis |-> began])
    PROVE  Counted(counted(u), [maxInvocations |-> n, intervalMs |-> i],
                   [windowInvocations |-> 1, windowStartedAtMillis |-> now])
<1>1. /\ \A t \in Moments : t \in Nat /\ t <= End /\ u[t] \in Nat
      /\ End \in Moments /\ began \in Moments /\ now \in Moments /\ now < End /\ now \in Nat
  BY MomentsAre DEF Times
<1>2. /\ \A s, t \in Moments : s <= t => u[s] <= u[t]
      /\ w <= n /\ u[End] = u[began] + w
      /\ \A t \in Moments : began + i <= t => u[t] = u[End]
      /\ \A s, t \in Moments : s <= t /\ t <= s + i => u[t] <= u[s] + 2 * n
  BY DEF Counted
<1> DEFINE v == counted(u)
<1>3. \A t \in Moments : v[t] = IF t > now THEN u[t] + 1 ELSE u[t]
  BY DEF counted
<1> HIDE DEF v
<1>4. ASSUME NEW s \in Moments, NEW t \in Moments, s <= t PROVE v[s] <= v[t]
  <2>1. u[s] <= u[t] /\ u[s] \in Nat /\ u[t] \in Nat /\ s \in Nat /\ t \in Nat
    BY <1>1, <1>2, <1>4
  <2>2. QED
    BY <1>1, <1>3, <1>4, <2>1
<1>5. u[now] = u[End] /\ v[now] = u[End] /\ v[End] = u[End] + 1
  BY <1>1, <1>2, <1>3
<1>6. \A t \in Moments : now + i <= t => v[t] = v[End]
  BY <1>1, <1>2, <1>3
\* What came before this window and within its length is in the window that is over.
<1>7. ASSUME NEW s \in Moments, now < s + i PROVE u[End] <= u[s] + n
  <2>1. s \in Nat /\ began <= s
    BY <1>1, <1>7
  <2>2. u[began] <= u[s] /\ u[began] \in Nat /\ u[s] \in Nat
    BY <1>1, <1>2, <2>1
  <2>3. QED
    BY <1>2, <2>2
<1>8. \A t \in Moments : t <= now /\ now < t + i => v[now] <= v[t] + n
  BY <1>1, <1>3, <1>5, <1>7
<1>9. ASSUME NEW s \in Moments, NEW t \in Moments, s <= t, t <= s + i
      PROVE  v[t] <= v[s] + 2 * n
  <2>1. s \in Nat /\ t \in Nat /\ u[s] \in Nat /\ u[t] \in Nat /\ u[t] <= u[s] + 2 * n
    BY <1>1, <1>2, <1>9
  <2>2. CASE ~(s <= now /\ now < t)
    BY <1>1, <1>3, <2>1, <2>2
  <2>3. CASE s <= now /\ now < t
    <3>1. u[t] <= u[End] /\ u[End] \in Nat
      BY <1>1, <1>2, <2>1
    <3>2. u[End] <= u[s] + n
      BY <1>1, <1>7, <1>9, <2>1, <2>3
    <3>3. v[t] = u[t] + 1 /\ v[s] = u[s]
      BY <1>1, <1>3, <2>1, <2>3
    <3>4. QED
      BY <2>1, <3>1, <3>2, <3>3
  <2>4. QED
    BY <2>2, <2>3
<1>10. QED
  BY <1>1, <1>4, <1>5, <1>6, <1>8, <1>9 DEF Counted, v

\* A reservation within the rate is counted.
LEMMA UsedCounted ==
    ASSUME TypeOK, NEW d \in Decisions, d.rateLimit # NoLimit, withinRate(d),
           NEW u \in [Moments -> Nat], Counted(u, d.rateLimit, d.usage)
    PROVE  Counted(counted(u), d.rateLimit, used(d).usage)
<1> DEFINE n == d.rateLimit.maxInvocations
<1> DEFINE i == d.rateLimit.intervalMs
<1> DEFINE w == d.usage.windowInvocations
<1> DEFINE began == d.usage.windowStartedAtMillis
<1> DEFINE rate == [maxInvocations |-> n, intervalMs |-> i]
<1>1. /\ n \in Nat \ {0} /\ i \in Nat \ {0} /\ w \in Nat /\ began \in Times /\ now \in Times
      /\ began \in Nat /\ now \in Nat
  BY LimitType DEF TypeOK, Times
<1>2. Counted(u, rate, [windowInvocations |-> w, windowStartedAtMillis |-> began])
  BY DEF Counted
<1>3. /\ used(d).usage.windowInvocations = windowInvocations(d) + 1
      /\ used(d).usage.windowStartedAtMillis = IF windowReset(d) THEN now ELSE began
  BY UsedType
<1>4. Counted(counted(u), rate, [windowInvocations |-> windowInvocations(d) + 1,
                                 windowStartedAtMillis |-> IF windowReset(d) THEN now ELSE began])
  <2>1. CASE windowReset(d)
    <3>1. windowInvocations(d) + 1 = 1 /\ began + i <= now
      BY <1>1, <2>1 DEF windowReset, windowInvocations
    <3> HIDE DEF n, i, w, began
    <3>2. QED
      BY <1>1, <1>2, <2>1, <3>1, NewWindow
  <2>2. CASE ~windowReset(d)
    <3>1. windowInvocations(d) = w /\ now < began + i /\ w < n
      BY <1>1, <2>2 DEF windowReset, windowInvocations, withinRate
    <3> HIDE DEF n, i, w, began
    <3>2. QED
      BY <1>1, <1>2, <2>2, <3>1, InWindow
  <2>3. QED
    BY <2>1, <2>2
<1>5. QED
  BY <1>3, <1>4 DEF Counted

\* A step that reserves nothing leaves the counts right when each decision after it is one
\* of before with the same rate and usage, has no rate, or is counted.
LEMMA RateStep ==
    ASSUME RateCounts, UNCHANGED <<now, uses>>,
           \A x \in Known' : \/ x \in Known
                             \/ x.rateLimit # NoLimit =>
                                   Counted(uses[x.decisionId], x.rateLimit, x.usage)
    PROVE  RateCounts'
  BY DEF RateCounts, Counted

-----------------------------------------------------------------------------
(* Loading.                                                                     *)

LEMMA InitInv == Init => Inv
<1> SUFFICES ASSUME Init PROVE Inv
  OBVIOUS
<1> USE DEF Init
<1>1. TypeOK
  <2>1. Idle \in CallStates
    BY DEF Idle, CallStates
  <2>2. said \in Ids \union {NoDecision} /\ legacy \in {"none", "granted", "revoked"}
    BY Bounds, BrokerAssumption
  <2>3. now \in Times /\ asked \in 0..MaxDecisions /\ faults \in 0..MaxFaults
        /\ reloads \in 0..MaxReloads
    BY Bounds
  <2>4. uses \in [Ids -> [Moments -> Nat]] /\ excused \in BOOLEAN /\ unrecorded \in BOOLEAN
    OBVIOUS
  <2>5. QED
    BY <2>1, <2>2, <2>3, <2>4 DEF TypeOK
<1>2. Known = {}
  BY DEF Known
<1>3. OneVersion /\ Stored /\ LegacyFirst /\ AuthorityIsLatest /\ NoneRunsRevoked
  BY <1>2, Bounds
  DEF OneVersion, Stored, LegacyFirst, LastWord, AuthorityIsLatest, NoneRunsRevoked, Known
<1>4. LegacyRevoked /\ Leased
  BY <1>2, Bounds DEF LegacyRevoked, Leased, Idle
<1>5. OnceCounts /\ RateCounts
  BY <1>2 DEF OnceCounts, RateCounts
<1>6. QED
  BY <1>1, <1>3, <1>4, <1>5 DEF Inv

\* The version 1 record goes or stays.
LEMMA LegacyStep ==
    ASSUME TypeOK, NEW durable, legacyAfter(durable)
    PROVE  legacy' \in {"none", legacy} /\ faults' \in 0..MaxFaults
  BY Bounds DEF legacyAfter, fault, TypeOK

\* Memory and storage agree on what both have: merging adds what memory has not.
LEMMA MergedIs == ASSUME OneVersion PROVE Merged(store) = Known
  BY DEF Merged, OneVersion, Known

\* What a load makes of memory and storage.
LEMMA LoadStep ==
    ASSUME Inv, NEW c \in Contexts, Load(c) \/ LoadFails
    PROVE  /\ legacy' \in {"none", legacy} /\ excused' \in BOOLEAN /\ (excused => excused')
           /\ faults' \in 0..MaxFaults
           /\ \/ decisions' \in {decisions, Known} /\ store' = store
              \/ /\ migrates /\ store' = {MigratedDecision(c)}
                 /\ decisions' = decisions \union {MigratedDecision(c)}
<1>1. CASE LoadFails
  <2>1. excused' \in BOOLEAN /\ (excused => excused')
    <3>1. excused' = TRUE \/ excused' = excused
      BY <1>1 DEF LoadFails
    <3>2. QED
      BY <3>1 DEF Inv, TypeOK
  <2>2. UNCHANGED <<store, legacy>> /\ decisions' \in {decisions, Known}
    BY <1>1, MergedIs DEF LoadFails, Inv
  <2>3. faults' \in 0..MaxFaults
    BY <1>1, Bounds DEF LoadFails, fault, Inv, TypeOK
  <2>4. QED
    BY <2>1, <2>2, <2>3
<1>2. CASE Load(c)
  <2>1. excused' \in BOOLEAN /\ (excused => excused')
    BY <1>2 DEF Load, Inv, TypeOK
  <2>2. CASE ~migrates
    <3>1. store' = store /\ decisions' = Known /\ legacyAfter(store)
      BY <1>2, <2>2, MergedIs DEF Load, Inv
    <3>2. QED
      BY <2>1, <2>2, <3>1, LegacyStep DEF Inv
  <2>3. CASE migrates
    <3> DEFINE m == MigratedDecision(c)
    <3>1. decisions' = Merged({m}) /\ store' = {m} /\ legacyAfter({m})
      BY <1>2, <2>3 DEF Load, migrates
    <3>2. m.decisionId = Migrated
      BY <2>3, MigratedType DEF Inv, migrates
    <3>3. \A e \in decisions : e.decisionId # Migrated
      BY <2>3 DEF Inv, Stored, migrates
    <3>4. Merged({m}) = decisions \union {m}
      BY <3>2, <3>3 DEF Merged
    <3> HIDE DEF m
    <3>5. legacy' \in {"none", legacy} /\ faults' \in 0..MaxFaults
      BY <3>1, LegacyStep DEF Inv
    <3>6. QED
      BY <2>1, <2>3, <3>1, <3>4, <3>5 DEF m
  <2>4. QED
    BY <2>2, <2>3
<1>3. QED
  BY <1>1, <1>2

LEMMA LoadInv == ASSUME Inv, NEW c \in Contexts, ensureLoaded(c) PROVE Inv'
<1>1. /\ Load(c) \/ LoadFails
      /\ loadedContexts' = loadedContexts \union {c.requestDigest} /\ c.requestDigest \in Digests
      /\ UNCHANGED <<activeLeases, calls, now, asked, reloads, said, uses, unrecorded>>
  BY DEF ensureLoaded, Contexts
<1>2. /\ legacy' \in {"none", legacy} /\ excused' \in BOOLEAN /\ (excused => excused')
      /\ faults' \in 0..MaxFaults
  BY <1>1, LoadStep
<1>3. CASE decisions' \in {decisions, Known} /\ store' = store
  <2>1. Known' = Known /\ decisions \subseteq decisions'
    BY <1>3 DEF Known
  <2>2. TypeOK'
    BY <1>1, <1>2, <1>3 DEF Inv, TypeOK, Known
  <2>3. OneVersion'
    BY <1>1, <2>1 DEF Inv, OneVersion
  <2>4. Stored'
    BY <1>2, <1>3, <2>1 DEF Inv, Stored, Known, isDurable
  <2>5. LegacyFirst'
    BY <1>1, <1>2, <1>3 DEF Inv, LegacyFirst, LastWord, migrates
  <2>6. LegacyRevoked'
    BY <1>1, <1>2, <2>1 DEF Inv, LegacyRevoked
  <2>7. AuthorityIsLatest'
    BY <1>1, <1>2, <1>3 DEF Inv, AuthorityIsLatest, LastWord, Known
  <2>8. Leased' /\ NoneRunsRevoked'
    BY <1>1, <2>1 DEF Inv, Leased, NoneRunsRevoked
  <2>9. OnceCounts'
    <3>1. \A d \in store : d.confirmationPolicy # "once"
      BY DEF Inv, Stored, isDurable
    <3>2. QED
      BY <1>1, <1>3, <3>1 DEF Inv, OnceCounts, Known
  <2>10. RateCounts'
    BY <1>1, <2>1, RateStep DEF Inv
  <2>11. QED
    BY <2>2, <2>3, <2>4, <2>5, <2>6, <2>7, <2>8, <2>9, <2>10 DEF Inv
<1>4. CASE /\ migrates /\ store' = {MigratedDecision(c)}
           /\ decisions' = decisions \union {MigratedDecision(c)}
  <2> DEFINE m == MigratedDecision(c)
  <2>1. /\ m \in Decisions /\ m.decisionId = Migrated /\ m.status = legacy
        /\ m.confirmationPolicy = "persistent" /\ m.rateLimit = NoLimit
    BY <1>4, MigratedType DEF Inv, migrates
  <2> HIDE DEF m
  <2>2. store' = {m} /\ decisions' = decisions \union {m} /\ Known' = decisions \union {m}
        /\ Known = decisions
    BY <1>4 DEF m, Known, migrates
  <2>3. \A e \in decisions : e.decisionId # Migrated /\ ~isDurable(e)
    BY <1>4 DEF Inv, Stored, migrates
  <2>4. TypeOK'
    BY <1>1, <1>2, <2>1, <2>2 DEF Inv, TypeOK
  <2>5. OneVersion'
    <3>1. Migrated <= asked
      BY DEF Inv, TypeOK, Migrated
    <3>2. QED
      BY <1>1, <2>1, <2>2, <2>3, <3>1 DEF Inv, OneVersion
  <2>6. Stored'
    BY <2>1, <2>2, <2>3 DEF Stored, isDurable
  <2>7. LegacyFirst'
    BY <2>2 DEF LegacyFirst, migrates
  <2>8. LegacyRevoked'
    BY <1>1, <1>2, <1>4, <2>1, <2>2 DEF Inv, LegacyRevoked, migrates
  <2>9. AuthorityIsLatest'
    <3> SUFFICES ASSUME ~excused', NEW d \in Known', d.status = "granted"
                 PROVE  LastWord(d.decisionId)
      BY <1>1 DEF AuthorityIsLatest, LastWord, Known
    <3>1. CASE d \in decisions
      BY <1>2, <3>1 DEF Inv, AuthorityIsLatest
    <3>2. CASE d = m
      BY <1>2, <1>4, <2>1, <3>2 DEF Inv, LegacyFirst
    <3>3. QED
      BY <2>2, <3>1, <3>2
  <2>10. Leased' /\ NoneRunsRevoked'
    <3>1. ASSUME NEW f \in Callers, m.status = "revoked" PROVE calls[f].decisionId # m.decisionId
      BY <2>1, <3>1 DEF Inv, LegacyRevoked
    <3>2. QED
      BY <1>1, <2>2, <3>1 DEF Inv, Leased, NoneRunsRevoked
  <2>11. OnceCounts'
    BY <1>1, <2>1, <2>2 DEF Inv, OnceCounts
  <2>12. RateCounts'
    BY <1>1, <2>1, <2>2, RateStep DEF Inv
  <2>13. QED
    BY <2>4, <2>5, <2>6, <2>7, <2>8, <2>9, <2>10, <2>11, <2>12 DEF Inv
<1>5. QED
  BY <1>1, <1>3, <1>4, LoadStep

LEMMA ReloadInv == ASSUME Inv, reload PROVE Inv'
<1>1. /\ reloads' \in 0..MaxReloads /\ loadedContexts' = {}
      /\ activeLeases' = [i \in Ids |-> {}] /\ calls' = [f \in Callers |-> Idle]
      /\ UNCHANGED <<store, now, asked, said, uses, unrecorded>>
  BY Bounds DEF reload, Inv, TypeOK
<1>2. /\ legacy' \in {"none", legacy} /\ excused' \in BOOLEAN /\ (excused => excused')
      /\ faults' \in 0..MaxFaults
      /\ decisions' = store \/ (decisions' = {} /\ excused')
  <2>1. CASE decisions' = store /\ legacyAfter(store) /\ UNCHANGED excused
    BY <2>1, LegacyStep DEF Inv, TypeOK
  <2>2. CASE decisions' = {} /\ fault /\ excused' = TRUE /\ UNCHANGED legacy
    <3>1. faults' \in 0..MaxFaults
      BY <2>2, Bounds DEF fault, Inv, TypeOK
    <3>2. QED
      BY <2>2, <3>1
  <2>3. CASE decisions' = store /\ fault /\ UNCHANGED <<legacy, excused>>
    <3>1. faults' \in 0..MaxFaults
      BY <2>3, Bounds DEF fault, Inv, TypeOK
    <3>2. QED
      BY <2>3, <3>1 DEF Inv, TypeOK
  <2>4. QED
    BY <2>1, <2>2, <2>3 DEF reload
<1>3. Known' = store /\ Known' \subseteq Known
  BY <1>1, <1>2 DEF Known
<1>4. Idle \in CallStates /\ Idle.at = "idle" /\ Idle.decisionId = NoDecision
  BY DEF Idle, CallStates
<1>5. TypeOK'
  BY <1>1, <1>2, <1>4 DEF Inv, TypeOK
<1>6. OneVersion' /\ Stored'
  BY <1>1, <1>2, <1>3 DEF Inv, OneVersion, Stored, isDurable
<1>7. LegacyFirst' /\ LegacyRevoked' /\ AuthorityIsLatest'
  <2>1. LegacyFirst'
    BY <1>1, <1>2 DEF Inv, LegacyFirst, LastWord, migrates
  <2>2. LegacyRevoked'
    BY <1>1, <1>2, <1>3, <1>4, Bounds DEF Inv, LegacyRevoked
  <2>3. AuthorityIsLatest'
    BY <1>1, <1>2 DEF Inv, AuthorityIsLatest, LastWord
  <2>4. QED
    BY <2>1, <2>2, <2>3
<1>8. Leased' /\ NoneRunsRevoked'
  BY <1>1, <1>4 DEF Leased, NoneRunsRevoked
<1>9. OnceCounts'
  <2>1. \A d \in decisions' : d.confirmationPolicy # "once"
    BY <1>2 DEF Inv, Stored, isDurable
  <2>2. QED
    BY <1>1, <2>1 DEF Inv, OnceCounts
<1>10. RateCounts'
  BY <1>1, <1>3, RateStep DEF Inv
<1>11. QED
  BY <1>5, <1>6, <1>7, <1>8, <1>9, <1>10 DEF Inv

-----------------------------------------------------------------------------
(* The protected user.                                                          *)

LEMMA DecideInv == ASSUME Inv, NEW c \in Contexts, decide(c) PROVE Inv'
<1>1. /\ c.requestDigest \in loadedContexts
      /\ asked < MaxDecisions /\ asked' = asked + 1 /\ asked' \in 0..MaxDecisions
      /\ UNCHANGED <<loadedContexts, activeLeases, legacy, calls, now, reloads, uses>>
  BY Bounds DEF decide, Inv, TypeOK
<1>2. ASSUME NEW d \in Offered(c), decisions' = {d}, UNCHANGED faults,
             store' = IF mustSave(d) THEN durableDecisions({d}) ELSE store,
             said' = IF d.status = "granted" THEN d.decisionId ELSE NoDecision,
             excused' = (excused /\ ~mustSave(d)),
             unrecorded' = (legacy # "none" /\ store' = {})
      PROVE  Inv'
  <2>1. /\ d \in Decisions /\ d.decisionId = asked + 1 /\ d.status \in {"granted", "denied"}
        /\ d.usage = [totalInvocations |-> 0, windowInvocations |-> 0,
                      windowStartedAtMillis |-> now]
    BY <1>1, OfferedType DEF Inv
  <2>2. d.decisionId \in Ids /\ d.decisionId # Migrated
    BY <1>1, <2>1, Bounds DEF Ids, Migrated, Inv, TypeOK
  <2>3. /\ \/ isDurable(d) /\ store' = {d}
           \/ ~isDurable(d) /\ store' = {}
           \/ /\ ~isDurable(d) /\ store' = store /\ \A e \in decisions : ~isDurable(e)
              /\ ~excused' => ~excused
        /\ excused' \in BOOLEAN /\ unrecorded' \in BOOLEAN
    BY <1>2 DEF mustSave, durableDecisions, Inv, TypeOK
  <2>4. \A e \in store : e.decisionId <= asked /\ e.decisionId # d.decisionId
    <3>1. asked \in Nat /\ \A e \in store : e.decisionId \in Nat /\ e.decisionId <= asked
      BY DEF Inv, TypeOK, OneVersion, Known, Decisions, Ids
    <3>2. QED
      BY <2>1, <3>1
  <2>5. TypeOK'
    <3>1. decisions' \subseteq Decisions /\ store' \subseteq Decisions
      BY <1>2, <2>1, <2>3 DEF Inv, TypeOK
    <3>2. said' \in Ids \union {NoDecision}
      BY <1>2, <2>2
    <3>3. QED
      BY <1>1, <1>2, <2>3, <3>1, <3>2 DEF Inv, TypeOK
  <2>6. OneVersion'
    <3>1. \A e \in Known' : e = d \/ e \in store
      BY <1>2, <2>3 DEF Known
    <3>2. asked \in Nat /\ \A e \in store : e.decisionId \in Nat
      BY DEF Inv, TypeOK, Decisions, Ids
    <3>3. \A e \in Known' : e.decisionId <= asked'
      BY <1>1, <2>1, <2>4, <3>1, <3>2
    <3>4. \A e1, e2 \in store : e1.decisionId = e2.decisionId => e1 = e2
      BY DEF Inv, OneVersion, Known
    <3>5. \A e1, e2 \in Known' : e1.decisionId = e2.decisionId => e1 = e2
      BY <2>4, <3>1, <3>4
    <3>6. QED
      BY <3>3, <3>5 DEF OneVersion
  <2>7. Stored'
    BY <1>1, <1>2, <2>2, <2>3 DEF Inv, Stored, isDurable
  <2>8. LegacyFirst'
    BY <1>1, <1>2 DEF LegacyFirst, LastWord, migrates
  <2>9. LegacyRevoked'
    BY <1>1, <1>2, <2>2, <2>3 DEF Inv, LegacyRevoked, Known
  <2>10. AuthorityIsLatest'
    <3>1. ~excused' => store' \subseteq {d}
      BY <2>3 DEF Inv, Stored
    <3>2. QED
      BY <1>1, <1>2, <3>1 DEF AuthorityIsLatest, LastWord
  <2>11. Leased' /\ NoneRunsRevoked'
    BY <1>1, <1>2, <2>1, <2>3 DEF Inv, Leased, NoneRunsRevoked, Known
  <2>12. OnceCounts'
    <3>1. asked \in Nat /\ Ids \subseteq Nat /\ End \in Moments
      BY MomentsAre DEF Inv, TypeOK, Ids
    <3>2. \A i \in Ids, t \in Moments : i > asked => uses[i][t] = 0
      BY DEF Inv, OnceCounts
    <3>3. d.decisionId > asked
      BY <2>1, <3>1
    <3>4. \A i \in Ids : i > asked' => i > asked
      BY <1>1, <3>1
    <3>5. QED
      BY <1>1, <1>2, <2>2, <3>1, <3>2, <3>3, <3>4 DEF OnceCounts
  <2>13. RateCounts'
    <3>1. \A t \in Moments : uses[d.decisionId][t] = 0
      <4>1. asked \in Nat
        BY DEF Inv, TypeOK
      <4>2. QED
        BY <2>1, <2>2, <4>1 DEF Inv, OnceCounts
    <3>2. d.rateLimit # NoLimit => Counted(uses[d.decisionId], d.rateLimit, d.usage)
      BY <2>1, <3>1, NoneCounted DEF Inv
    <3>3. \A e \in Known' : e = d \/ e \in Known
      BY <1>2, <2>3 DEF Known
    <3>4. QED
      BY <1>1, <3>2, <3>3, RateStep DEF Inv
  <2>14. QED
    BY <2>5, <2>6, <2>7, <2>8, <2>9, <2>10, <2>11, <2>12, <2>13 DEF Inv
<1>3. CASE fault /\ UNCHANGED <<decisions, store, said, excused, unrecorded>>
  <2>1. UNCHANGED Known /\ faults' \in 0..MaxFaults /\ asked \in Nat /\ Ids \subseteq Nat
    BY <1>3, Bounds DEF fault, Known, Inv, TypeOK, Ids
  <2>2. TypeOK'
    BY <1>1, <1>3, <2>1 DEF Inv, TypeOK
  <2>3. OneVersion'
    <3>1. \A d \in Known : d.decisionId \in Nat
      BY <2>1 DEF Known, Inv, TypeOK, Decisions
    <3>2. QED
      BY <1>1, <2>1, <3>1 DEF Inv, OneVersion
  <2>4. Stored' /\ AuthorityIsLatest' /\ LegacyRevoked'
    BY <1>1, <1>3, <2>1 DEF Inv, Stored, AuthorityIsLatest, LastWord, LegacyRevoked, isDurable
  <2>5. LegacyFirst'
    BY <1>1, <1>3 DEF Inv, LegacyFirst, LastWord, migrates
  <2>6. Leased' /\ NoneRunsRevoked'
    BY <1>1, <2>1 DEF Inv, Leased, NoneRunsRevoked
  <2>7. OnceCounts'
    <3>1. \A i \in Ids : i > asked' => i > asked
      BY <1>1, <2>1
    <3>2. QED
      BY <1>1, <1>3, <3>1 DEF Inv, OnceCounts
  <2>8. RateCounts'
    BY <1>1, <2>1, RateStep DEF Inv
  <2>9. QED
    BY <2>2, <2>3, <2>4, <2>5, <2>6, <2>7, <2>8 DEF Inv
<1>4. QED
  BY <1>2, <1>3 DEF decide

\* A decision is replaced by one of the same identifier and policy, in memory and, when it
\* is durable, in storage.
LEMMA ReplaceStep ==
    ASSUME Inv, NEW d \in decisions, NEW e \in Decisions,
           e.decisionId = d.decisionId, e.confirmationPolicy = d.confirmationPolicy,
           decisions' = Replaced(d, e), saved(d, decisions'),
           UNCHANGED <<asked, excused>>
    PROVE  /\ decisions' \subseteq Decisions /\ store' \subseteq Decisions
           /\ OneVersion' /\ Stored'
           /\ \A x \in Known' : x = e \/ (x \in Known /\ x.decisionId # d.decisionId)
<1>1. isDurable(e) = isDurable(d) /\ d \in Known
  BY DEF isDurable, Known
<1>2. decisions' = (decisions \ {d}) \union {e}
  BY DEF Replaced
<1>3. \A x \in Known : x # d => x.decisionId # d.decisionId
  BY <1>1 DEF Inv, OneVersion
<1>4. CASE isDurable(d)
  <2>1. store' = {x \in decisions' : isDurable(x)}
    BY <1>4 DEF saved, durableDecisions
  <2>2. \A x \in Known' : x = e \/ (x \in Known /\ x.decisionId # d.decisionId)
    BY <1>2, <1>3, <2>1 DEF Known
  <2>3. OneVersion'
    BY <1>1, <2>2 DEF Inv, OneVersion
  <2>4. Stored'
    BY <1>1, <1>2, <1>4, <2>1 DEF Inv, Stored, isDurable
  <2>5. QED
    BY <1>2, <2>1, <2>2, <2>3, <2>4 DEF Inv, TypeOK
<1>5. CASE ~isDurable(d)
  <2>1. store' = store /\ d \notin store
    BY <1>5 DEF saved, Inv, Stored
  <2>2. \A x \in Known' : x = e \/ (x \in Known /\ x.decisionId # d.decisionId)
    BY <1>2, <1>3, <2>1 DEF Known
  <2>3. OneVersion'
    BY <1>1, <2>2 DEF Inv, OneVersion
  <2>4. Stored'
    BY <1>1, <1>2, <1>5, <2>1 DEF Inv, Stored, isDurable
  <2>5. QED
    BY <1>2, <2>1, <2>2, <2>3, <2>4 DEF Inv, TypeOK
<1>6. QED
  BY <1>4, <1>5

LEMMA RevokeInv == ASSUME Inv, NEW d \in decisions, revoke(d) PROVE Inv'
<1>1. UNCHANGED <<loadedContexts, legacy, now, asked, reloads, uses, excused, unrecorded>>
  BY DEF revoke
<1> DEFINE e == [d EXCEPT !.status = "revoked", !.updatedAtMillis = now]
<1>2. /\ e \in Decisions /\ e.decisionId = d.decisionId /\ e.status = "revoked"
      /\ e.confirmationPolicy = d.confirmationPolicy /\ e.usage = d.usage
      /\ e.rateLimit = d.rateLimit
      /\ d \in Decisions /\ d.decisionId \in Ids /\ d \in Known
  BY RevokedType DEF Inv, TypeOK, Decisions, Known
<1>3. CASE /\ decisions' = Replaced(d, e) /\ saved(d, decisions')
           /\ activeLeases' = [activeLeases EXCEPT ![d.decisionId] = {}]
           /\ interruptAll(activeLeases[d.decisionId])
           /\ said' = IF said = d.decisionId THEN NoDecision ELSE said
           /\ UNCHANGED faults
  <2> HIDE DEF e
  <2>1. /\ decisions' \subseteq Decisions /\ store' \subseteq Decisions
        /\ OneVersion' /\ Stored'
        /\ \A x \in Known' : x = e \/ (x \in Known /\ x.decisionId # d.decisionId)
    BY <1>1, <1>2, <1>3, ReplaceStep
  <2>2. \A f \in Callers : \/ calls'[f] = calls[f] /\ f \notin activeLeases[d.decisionId]
                           \/ /\ calls'[f] = [calls[f] EXCEPT !.interrupted = TRUE]
                              /\ f \in activeLeases[d.decisionId]
    BY <1>3 DEF interruptAll
  <2>3. \A f \in Callers : /\ calls'[f] \in CallStates /\ calls'[f].at = calls[f].at
                           /\ calls'[f].decisionId = calls[f].decisionId
                           /\ calls'[f].interrupted
                              \/ (f \notin activeLeases[d.decisionId] /\ ~calls[f].interrupted)
    <3> SUFFICES ASSUME NEW f \in Callers
                 PROVE  /\ calls'[f] \in CallStates /\ calls'[f].at = calls[f].at
                        /\ calls'[f].decisionId = calls[f].decisionId
                        /\ calls'[f].interrupted
                           \/ (f \notin activeLeases[d.decisionId] /\ ~calls[f].interrupted)
      OBVIOUS
    <3>1. calls[f] \in CallStates
      BY DEF Inv, TypeOK
    <3>2. CASE calls'[f] = calls[f] /\ f \notin activeLeases[d.decisionId]
      BY <3>1, <3>2 DEF CallStates
    <3>3. CASE calls'[f] = [calls[f] EXCEPT !.interrupted = TRUE]
      BY <3>1, <3>3 DEF CallStates
    <3>4. QED
      BY <2>2, <3>2, <3>3
  <2>4. /\ activeLeases'[d.decisionId] = {}
        /\ \A i \in Ids \ {d.decisionId} : activeLeases'[i] = activeLeases[i]
    BY <1>2, <1>3 DEF Inv, TypeOK
  <2>5. TypeOK'
    <3>1. calls' \in [Callers -> CallStates]
      BY <1>3, <2>3 DEF interruptAll
    <3>2. activeLeases' \in [Ids -> SUBSET Callers]
      BY <1>3 DEF Inv, TypeOK
    <3>3. said' \in Ids \union {NoDecision}
      BY <1>3 DEF Inv, TypeOK
    <3>4. QED
      BY <1>1, <1>3, <2>1, <3>1, <3>2, <3>3 DEF Inv, TypeOK
  <2>6. LegacyFirst'
    <3> SUFFICES ASSUME ~excused, legacy = "granted", migrates' PROVE LastWord(Migrated)'
      BY <1>1 DEF LegacyFirst
    <3>1. ~isDurable(e) /\ UNCHANGED store
      BY <1>2, <1>3 DEF saved, durableDecisions, isDurable, Replaced, migrates
    <3>2. migrates /\ d.decisionId # Migrated
      BY <1>1, <1>2, <3>1 DEF migrates, Inv, Stored, isDurable
    <3>3. QED
      BY <1>1, <1>3, <3>2 DEF Inv, LegacyFirst, LastWord
  <2>7. LegacyRevoked'
    BY <1>1, <1>2, <2>1, <2>3 DEF Inv, LegacyRevoked
  <2>8. AuthorityIsLatest'
    <3> SUFFICES ASSUME ~excused, NEW x \in Known', x.status = "granted"
                 PROVE  LastWord(x.decisionId)'
      BY <1>1 DEF AuthorityIsLatest, LastWord, Known
    <3>1. x \in Known /\ x.decisionId # d.decisionId
      BY <1>2, <2>1
    <3>2. LastWord(x.decisionId)
      BY <3>1 DEF Inv, AuthorityIsLatest, Known
    <3>3. QED
      BY <1>1, <1>3, <3>1, <3>2 DEF LastWord
  <2>9. ASSUME NEW f \in Callers, calls'[f].at = "running", ~calls'[f].interrupted
        PROVE  /\ calls[f].decisionId \in Ids /\ calls[f].decisionId # d.decisionId
               /\ f \in activeLeases[calls[f].decisionId]
    BY <2>3, <2>9 DEF Inv, Leased
  <2>10. Leased'
    BY <2>3, <2>4, <2>9 DEF Inv, Leased
  <2>11. NoneRunsRevoked'
    BY <1>2, <2>1, <2>3, <2>9 DEF Inv, NoneRunsRevoked
  <2>12. OnceCounts'
    <3>1. \A x \in decisions' : x = e \/ x \in decisions
      BY <1>3 DEF Replaced
    <3>2. QED
      BY <1>1, <1>2, <3>1 DEF Inv, OnceCounts
  <2>13. RateCounts'
    <3>1. d.rateLimit # NoLimit => Counted(uses[d.decisionId], d.rateLimit, d.usage)
      BY <1>2 DEF Inv, RateCounts
    <3>2. QED
      BY <1>1, <1>2, <2>1, <3>1, RateStep DEF Inv
  <2>14. QED
    BY <2>1, <2>5, <2>6, <2>7, <2>8, <2>10, <2>11, <2>12, <2>13 DEF Inv
<1>4. CASE fault /\ UNCHANGED <<decisions, store, activeLeases, calls, said>>
  <2>1. UNCHANGED Known /\ faults' \in 0..MaxFaults
    BY <1>4, Bounds DEF fault, Known, Inv, TypeOK
  <2>2. TypeOK'
    BY <1>1, <1>4, <2>1 DEF Inv, TypeOK
  <2>3. OneVersion' /\ Stored' /\ AuthorityIsLatest' /\ LegacyFirst' /\ LegacyRevoked'
    BY <1>1, <1>4, <2>1
    DEF Inv, OneVersion, Stored, AuthorityIsLatest, LastWord, LegacyFirst, migrates,
        LegacyRevoked, isDurable
  <2>4. Leased' /\ NoneRunsRevoked' /\ OnceCounts'
    BY <1>1, <1>4, <2>1 DEF Inv, Leased, NoneRunsRevoked, OnceCounts
  <2>5. RateCounts'
    BY <1>1, <2>1, RateStep DEF Inv
  <2>6. QED
    BY <2>2, <2>3, <2>4, <2>5 DEF Inv
<1>5. QED
  BY <1>3, <1>4 DEF revoke

-----------------------------------------------------------------------------
(* Product operations.                                                          *)

\* Only the latest decision that is live is spent; one to allow once only when it is not.
LEMMA ReserveInv ==
    ASSUME Inv, NEW f \in Callers, NEW c \in Contexts, reserve(f, c)
    PROVE  Inv'
<1>1. UNCHANGED <<loadedContexts, activeLeases, legacy, now, asked, reloads, said, excused,
                  unrecorded>>
  BY DEF reserve
<1>2. PICK d \in latestDecision(c) :
        /\ Live(d) /\ withinRate(d) /\ calls[f].at = "idle"
        /\ \/ /\ decisions' = Replaced(d, used(d))
              /\ saved(d, decisions')
              /\ calls' = [calls EXCEPT ![f] = [at |-> "reserved", decisionId |-> d.decisionId,
                                                interrupted |-> FALSE]]
              /\ uses' = [uses EXCEPT ![d.decisionId] = counted(@)]
              /\ UNCHANGED faults
           \/ fault /\ UNCHANGED <<decisions, store, calls, uses>>
  BY DEF reserve
<1>3. d \in decisions /\ d \in Known /\ d \in Decisions /\ d.decisionId \in Ids
  BY DEF latestDecision, Known, Inv, TypeOK, Decisions
<1>4. CASE /\ decisions' = Replaced(d, used(d))
           /\ saved(d, decisions')
           /\ calls' = [calls EXCEPT ![f] = [at |-> "reserved", decisionId |-> d.decisionId,
                                             interrupted |-> FALSE]]
           /\ uses' = [uses EXCEPT ![d.decisionId] = counted(@)]
           /\ UNCHANGED faults
  <2>1. /\ used(d) \in Decisions /\ used(d).decisionId = d.decisionId
        /\ used(d).status = d.status /\ used(d).confirmationPolicy = d.confirmationPolicy
        /\ used(d).usage.totalInvocations = d.usage.totalInvocations + 1
    BY <1>3, UsedType DEF Inv
  <2>2. /\ decisions' \subseteq Decisions /\ store' \subseteq Decisions
        /\ OneVersion' /\ Stored'
        /\ \A x \in Known' : x = used(d) \/ (x \in Known /\ x.decisionId # d.decisionId)
    BY <1>1, <1>3, <1>4, <2>1, ReplaceStep
  <2>3. /\ calls' \in [Callers -> CallStates]
        /\ calls'[f].at = "reserved" /\ calls'[f].decisionId = d.decisionId
        /\ \A g \in Callers \ {f} : calls'[g] = calls[g]
    BY <1>3, <1>4 DEF Inv, TypeOK, CallStates
  <2>4. /\ uses' \in [Ids -> [Moments -> Nat]] /\ now \in Nat /\ now < End /\ End \in Moments
        /\ uses'[d.decisionId] = counted(uses[d.decisionId])
        /\ uses[d.decisionId] \in [Moments -> Nat]
        /\ \A i \in Ids \ {d.decisionId} : uses'[i] = uses[i]
    <3>1. uses \in [Ids -> [Moments -> Nat]] /\ now \in Nat /\ now < End /\ End \in Moments
      BY Bounds, MomentsAre DEF Inv, TypeOK, Times, End
    <3>2. counted(uses[d.decisionId]) \in [Moments -> Nat]
      BY <1>3, <3>1 DEF counted
    <3>3. uses' = [uses EXCEPT ![d.decisionId] = counted(uses[d.decisionId])]
      BY <1>4
    <3> HIDE DEF counted
    <3>4. QED
      BY <1>3, <3>1, <3>2, <3>3
  <2>5. TypeOK'
    BY <1>1, <1>4, <2>2, <2>3, <2>4 DEF Inv, TypeOK
  <2>6. LegacyFirst'
    <3>1. migrates' => migrates
      BY <1>1, <1>4, <2>1 DEF saved, durableDecisions, isDurable, Replaced, migrates
    <3>2. QED
      BY <1>1, <3>1 DEF Inv, LegacyFirst, LastWord
  <2>7. LegacyRevoked'
    <3>1. legacy = "revoked" => d.decisionId # Migrated
      BY <1>2, <1>3 DEF Inv, LegacyRevoked, Live
    <3>2. QED
      BY <1>1, <2>1, <2>2, <2>3, <3>1 DEF Inv, LegacyRevoked
  <2>8. AuthorityIsLatest'
    <3>1. Known' = decisions' \union store' /\ Known = decisions \union store
      BY DEF Known
    <3>2. QED
      BY <1>1, <1>3, <2>1, <2>2, <3>1 DEF Inv, AuthorityIsLatest, LastWord
  <2>9. Leased'
    BY <1>1, <2>3 DEF Inv, Leased
  <2>10. NoneRunsRevoked'
    <3>1. d.status = "granted"
      BY <1>2 DEF Live
    <3>2. QED
      BY <2>1, <2>2, <2>3, <3>1 DEF Inv, NoneRunsRevoked
  <2>11. OnceCounts'
    <3>1. ASSUME NEW i \in Ids, NEW t \in Moments, i > asked PROVE uses'[i][t] = 0
      <4>1. i # d.decisionId
        <5>1. d.decisionId <= asked /\ asked \in Nat /\ d.decisionId \in Nat /\ i \in Nat
          BY <1>3 DEF Inv, OneVersion, TypeOK, Ids
        <5>2. QED
          BY <3>1, <5>1
      <4>2. QED
        BY <2>4, <3>1, <4>1 DEF Inv, OnceCounts
    <3>2. ASSUME NEW x \in decisions', x.confirmationPolicy = "once"
          PROVE  \/ uses'[x.decisionId][End] = 0
                 \/ x.usage.totalInvocations >= 1 /\ uses'[x.decisionId][End] <= 1
      <4>1. CASE x = used(d)
        <5>1. d.usage.totalInvocations \in Nat /\ ~(d.usage.totalInvocations >= 1)
          BY <1>2, <1>3, <2>1, <3>2, <4>1 DEF Live, Decisions, Usage
        <5>2. uses[d.decisionId][End] = 0
          BY <1>3, <2>1, <3>2, <4>1, <5>1 DEF Inv, OnceCounts
        <5>3. uses'[d.decisionId][End] = 1
          BY <2>4, <5>2 DEF counted
        <5>4. QED
          BY <2>1, <4>1, <5>1, <5>3
      <4>2. CASE x # used(d)
        <5>1. x \in decisions /\ x.decisionId # d.decisionId /\ x.decisionId \in Ids
          <6>1. x \in Known' /\ x \in decisions
            BY <1>4, <3>2, <4>2 DEF Known, Replaced
          <6>2. QED
            BY <2>2, <4>2, <6>1 DEF Inv, TypeOK, Decisions
        <5>2. uses'[x.decisionId] = uses[x.decisionId]
          BY <2>4, <5>1
        <5>3. QED
          BY <3>2, <5>1, <5>2 DEF Inv, OnceCounts
      <4>3. QED
        BY <4>1, <4>2
    <3>3. QED
      BY <1>1, <3>1, <3>2 DEF OnceCounts
  <2>12. RateCounts'
    <3>1. ASSUME d.rateLimit # NoLimit
          PROVE  Counted(uses'[d.decisionId], d.rateLimit, used(d).usage)
      BY <1>2, <1>3, <2>4, <3>1, UsedCounted DEF Inv, RateCounts
    <3>2. used(d).rateLimit = d.rateLimit
      BY <1>3, UsedType DEF Inv
    <3>3. ASSUME NEW x \in Known', x.rateLimit # NoLimit
          PROVE  Counted(uses'[x.decisionId], x.rateLimit, x.usage)
      <4>1. CASE x = used(d)
        BY <2>1, <3>1, <3>2, <3>3, <4>1
      <4>2. CASE x \in Known /\ x.decisionId # d.decisionId
        <5>1. x.decisionId \in Ids
          BY <4>2 DEF Inv, TypeOK, Known, Decisions
        <5>2. uses'[x.decisionId] = uses[x.decisionId]
          BY <2>4, <4>2, <5>1
        <5>3. QED
          BY <3>3, <4>2, <5>2 DEF Inv, RateCounts
      <4>3. QED
        BY <2>2, <4>1, <4>2
    <3>4. UNCHANGED now
      BY <1>1
    <3>5. QED
      BY <3>3, <3>4 DEF RateCounts, Counted
  <2>13. QED
    BY <2>2, <2>5, <2>6, <2>7, <2>8, <2>9, <2>10, <2>11, <2>12 DEF Inv
<1>5. CASE fault /\ UNCHANGED <<decisions, store, calls, uses>>
  <2>1. UNCHANGED Known /\ faults' \in 0..MaxFaults
    BY <1>5, Bounds DEF fault, Known, Inv, TypeOK
  <2>2. TypeOK'
    BY <1>1, <1>5, <2>1 DEF Inv, TypeOK
  <2>3. OneVersion' /\ Stored' /\ AuthorityIsLatest' /\ LegacyFirst' /\ LegacyRevoked'
    BY <1>1, <1>5, <2>1
    DEF Inv, OneVersion, Stored, AuthorityIsLatest, LastWord, LegacyFirst, migrates,
        LegacyRevoked, isDurable
  <2>4. Leased' /\ NoneRunsRevoked' /\ OnceCounts'
    BY <1>1, <1>5, <2>1 DEF Inv, Leased, NoneRunsRevoked, OnceCounts
  <2>5. RateCounts'
    BY <1>1, <1>5, <2>1, RateStep DEF Inv
  <2>6. QED
    BY <2>2, <2>3, <2>4, <2>5 DEF Inv
<1>6. QED
  BY <1>2, <1>4, <1>5

\* A step of one caller that leaves the decisions alone.
LEMMA CallerStep ==
    ASSUME Inv, NEW f \in Callers, NEW state \in CallStates,
           calls' = [calls EXCEPT ![f] = state],
           state.decisionId \in {calls[f].decisionId, NoDecision},
           activeLeases' \in [Ids -> SUBSET Callers],
           \A g \in Callers \ {f}, i \in Ids : g \in activeLeases[i] => g \in activeLeases'[i],
           state.at = "running" =>
               /\ state.decisionId \in Ids /\ f \in activeLeases'[state.decisionId]
               /\ \A d \in Known : d.decisionId = state.decisionId => d.status # "revoked",
           UNCHANGED <<decisions, loadedContexts, store, legacy, now, asked, faults, reloads,
                       said, uses, excused, unrecorded>>
    PROVE  Inv'
<1>1. calls'[f] = state /\ \A g \in Callers \ {f} : calls'[g] = calls[g]
  BY DEF Inv, TypeOK
<1>2. UNCHANGED Known
  BY DEF Known
<1>3. TypeOK'
  <2>1. calls' \in [Callers -> CallStates]
    BY DEF Inv, TypeOK
  <2>2. QED
    BY <2>1 DEF Inv, TypeOK
<1>4. OneVersion' /\ Stored' /\ AuthorityIsLatest' /\ LegacyFirst' /\ OnceCounts'
  BY <1>2
  DEF Inv, OneVersion, Stored, AuthorityIsLatest, LastWord, LegacyFirst, migrates, OnceCounts,
      isDurable
<1>5. LegacyRevoked'
  BY <1>1, <1>2, Bounds DEF Inv, LegacyRevoked
<1>6. Leased' /\ NoneRunsRevoked'
  BY <1>1, <1>2 DEF Inv, Leased, NoneRunsRevoked
<1>7. RateCounts'
  BY <1>2, RateStep DEF Inv
<1>8. QED
  BY <1>3, <1>4, <1>5, <1>6, <1>7 DEF Inv

LEMMA CallsInv ==
    ASSUME Inv, NEW f \in Callers,
           \/ withReservation(f) \/ refused(f) \/ finish(f)
           \/ subscribe(f) \/ unsubscribe(f) \/ inspectReservation(f)
    PROVE  Inv'
<1>1. calls[f] \in CallStates /\ activeLeases \in [Ids -> SUBSET Callers]
  BY DEF Inv, TypeOK
<1>2. Idle \in CallStates /\ Idle.at = "idle" /\ Idle.decisionId = NoDecision
  BY DEF Idle, CallStates
<1>3. CASE withReservation(f)
  <2> DEFINE state == [calls[f] EXCEPT !.at = "running"]
  <2> DEFINE id == calls[f].decisionId
  <2>1. state \in CallStates /\ state.at = "running" /\ state.decisionId = id
    BY <1>1 DEF CallStates
  <2>2. PICK d \in decisions : d.decisionId = id /\ d.status = "granted"
    BY <1>3 DEF withReservation, permits
  <2>3. id \in Ids /\ \A e \in Known : e.decisionId = id => e.status # "revoked"
    BY <2>2 DEF Inv, TypeOK, Decisions, OneVersion, Known
  <2>4. /\ calls' = [calls EXCEPT ![f] = state]
        /\ activeLeases' = [activeLeases EXCEPT ![id] = @ \union {f}]
        /\ UNCHANGED <<decisions, loadedContexts, store, legacy, now, asked, faults, reloads,
                       said, uses, excused, unrecorded>>
    BY <1>1, <1>3 DEF withReservation, Inv, TypeOK
  <2> HIDE DEF state, id
  <2>5. /\ activeLeases' \in [Ids -> SUBSET Callers] /\ f \in activeLeases'[id]
        /\ \A i \in Ids : activeLeases[i] \subseteq activeLeases'[i]
    BY <1>1, <2>3, <2>4
  <2>6. QED
    BY <2>1, <2>3, <2>4, <2>5, CallerStep DEF id
<1>4. CASE refused(f) \/ unsubscribe(f) \/ inspectReservation(f)
  BY <1>1, <1>2, <1>4, CallerStep DEF refused, unsubscribe, inspectReservation, ends
<1>5. CASE finish(f)
  <2> DEFINE id == calls[f].decisionId
  <2>1. id \in Ids
    BY <1>5 DEF finish, Inv, Leased
  <2>2. /\ activeLeases' = [activeLeases EXCEPT ![id] = @ \ {f}]
        /\ calls' = [calls EXCEPT ![f] = Idle]
        /\ UNCHANGED <<decisions, loadedContexts, store, legacy, now, asked, faults, reloads,
                       said, uses, excused, unrecorded>>
    BY <1>5 DEF finish, ends
  <2> HIDE DEF id
  <2>3. /\ activeLeases' \in [Ids -> SUBSET Callers]
        /\ \A g \in Callers \ {f}, i \in Ids : g \in activeLeases[i] => g \in activeLeases'[i]
    BY <1>1, <2>1, <2>2
  <2>4. QED
    BY <1>2, <2>2, <2>3, CallerStep
<1>6. CASE subscribe(f)
  <2> DEFINE state == [calls[f] EXCEPT !.at = "streaming"]
  <2>1. state \in CallStates /\ state.at = "streaming" /\ state.decisionId = calls[f].decisionId
    BY <1>1 DEF CallStates
  <2>2. /\ calls' = [calls EXCEPT ![f] = state]
        /\ UNCHANGED <<decisions, loadedContexts, activeLeases, store, legacy, now, asked, faults,
                       reloads, said, uses, excused, unrecorded>>
    BY <1>1, <1>6 DEF subscribe, Inv, TypeOK
  <2> HIDE DEF state
  <2>3. QED
    BY <1>1, <2>1, <2>2, CallerStep
<1>7. QED
  BY <1>3, <1>4, <1>5, <1>6

LEMMA ClockInv == ASSUME Inv, tick \/ UNCHANGED vars PROVE Inv'
<1>1. /\ now' \in Times
      /\ UNCHANGED <<decisions, loadedContexts, activeLeases, store, legacy, calls, asked, faults,
                     reloads, said, uses, excused, unrecorded>>
  BY Bounds DEF tick, vars, Inv, TypeOK, Times
<1>2. UNCHANGED Known
  BY <1>1 DEF Known
<1>3. TypeOK'
  BY <1>1 DEF Inv, TypeOK
<1>4. OneVersion' /\ Stored' /\ AuthorityIsLatest' /\ LegacyFirst' /\ LegacyRevoked'
  BY <1>1, <1>2
  DEF Inv, OneVersion, Stored, AuthorityIsLatest, LastWord, LegacyFirst, migrates,
      LegacyRevoked, isDurable
<1>5. Leased' /\ NoneRunsRevoked' /\ OnceCounts'
  BY <1>1, <1>2 DEF Inv, Leased, NoneRunsRevoked, OnceCounts
<1>6. RateCounts'
  <2>1. now <= now' /\ now \in Nat /\ now' \in Nat
    BY DEF tick, vars, Inv, TypeOK, Times
  <2>2. \A d \in Known : d.usage.windowStartedAtMillis \in Nat
    BY DEF Known, Inv, TypeOK, Decisions, Usage, Times
  <2>3. QED
    BY <1>1, <1>2, <2>1, <2>2 DEF Inv, RateCounts, Counted
<1>7. QED
  BY <1>3, <1>4, <1>5, <1>6 DEF Inv

-----------------------------------------------------------------------------
(* The theorems.                                                                *)

LEMMA NextInv == Inv /\ [Next]_vars => Inv'
<1> SUFFICES ASSUME Inv, [Next]_vars PROVE Inv'
  OBVIOUS
<1>1. ASSUME NEW c \in Contexts, ensureLoaded(c) \/ decide(c) PROVE Inv'
  BY <1>1, LoadInv, DecideInv
<1>2. ASSUME NEW c \in Contexts, NEW f \in Callers, reserve(f, c) PROVE Inv'
  BY <1>2, ReserveInv
<1>3. ASSUME NEW d \in decisions, revoke(d) PROVE Inv'
  BY <1>3, RevokeInv
<1>4. ASSUME NEW f \in Callers,
             \/ withReservation(f) \/ refused(f) \/ finish(f)
             \/ subscribe(f) \/ unsubscribe(f) \/ inspectReservation(f)
      PROVE  Inv'
  BY <1>4, CallsInv
<1>5. CASE reload
  BY <1>5, ReloadInv
<1>6. CASE tick \/ rest \/ UNCHANGED vars
  BY <1>6, ClockInv DEF rest
<1>7. QED
  BY <1>1, <1>2, <1>3, <1>4, <1>5, <1>6 DEF Next

\* The inductive invariant holds in every behaviour.
THEOREM Invariance == Spec => []Inv
  BY InitInv, NextInv, PTL DEF Spec

\* A denial, a revocation or a narrower choice is not undone by a load, a migration, a reload
\* or a failed save, whether the version 1 record goes or is left behind; a choice that no
\* record holds is undone only by that record.
THEOREM AuthoritySafety == Spec => []AuthorityIsLatest
<1>1. Inv => AuthorityIsLatest
  BY DEF Inv
<1>2. QED
  BY <1>1, Invariance, PTL

\* Memory and storage never part, whichever save failed or was skipped.
THEOREM StorageSafety == Spec => []StoreFollowsMemory
<1>1. Inv => StoreFollowsMemory
  <2> SUFFICES ASSUME Inv, ~excused PROVE store = durableDecisions(decisions)
    BY DEF StoreFollowsMemory
  <2>1. QED
    BY DEF Inv, Stored, durableDecisions
<1>2. QED
  BY <1>1, Invariance, PTL

\* Nothing runs on under a revoked decision, wherever the revocation came.
THEOREM RevocationSafety == Spec => []RevocationStops
<1>1. Inv => RevocationStops
  BY DEF Inv, NoneRunsRevoked, RevocationStops, Known
<1>2. QED
  BY <1>1, Invariance, PTL

\* A decision to allow once is spent once, whoever attempts at the same time.
THEOREM OnceSafety == Spec => []OnceIsOnce
<1>1. Inv => OnceIsOnce
  <2> SUFFICES ASSUME Inv, NEW d \in decisions, d.confirmationPolicy = "once"
               PROVE  uses[d.decisionId][End] <= 1
    BY DEF OnceIsOnce
  <2>1. uses[d.decisionId][End] = 0 \/ uses[d.decisionId][End] <= 1
    BY DEF Inv, OnceCounts
  <2>2. QED
    BY <2>1
<1>2. QED
  BY <1>1, Invariance, PTL

\* Any period as long as the limit's has at most twice its invocations: over reloads, saves
\* that fail and a window that begins anew.
THEOREM RateSafety == Spec => []RateBounded
<1>1. Inv => RateBounded
  <2> SUFFICES ASSUME Inv, NEW d \in decisions, d.rateLimit # NoLimit,
                      NEW from \in Moments, NEW until \in Moments,
                      from <= until, until <= from + d.rateLimit.intervalMs
               PROVE  Spent(d.decisionId, from, until) <= 2 * d.rateLimit.maxInvocations
    BY DEF RateBounded
  <2>1. uses[d.decisionId][until] <= uses[d.decisionId][from] + 2 * d.rateLimit.maxInvocations
    BY DEF Inv, RateCounts, Counted, Known
  <2>2. /\ uses[d.decisionId][from] \in Nat /\ uses[d.decisionId][until] \in Nat
        /\ d.rateLimit.maxInvocations \in Nat
    BY LimitType DEF Inv, TypeOK, Decisions
  <2>3. QED
    BY <2>1, <2>2 DEF Spent
<1>2. QED
  BY <1>1, Invariance, PTL

\* An operation begins only under what the user allowed last, and within its lifetime.
THEOREM LastWordSafety == Spec => BeginsUnderLastWord
<1>1. Inv /\ [Next]_vars =>
        [\A f \in Callers : calls'[f].at = "running" /\ calls[f].at # "running" /\ ~excused =>
            /\ LastWord(calls'[f].decisionId)
            /\ \E d \in decisions : d.decisionId = calls'[f].decisionId /\ now < d.expiresAtMillis
        ]_vars
  <2> SUFFICES ASSUME Inv, Next, NEW f \in Callers,
                      calls'[f].at = "running", calls[f].at # "running", ~excused
               PROVE  /\ LastWord(calls'[f].decisionId)
                      /\ \E d \in decisions : /\ d.decisionId = calls'[f].decisionId
                                             /\ now < d.expiresAtMillis
    OBVIOUS
  <2>1. withReservation(f)
    <3>1. \A g \in Callers : withReservation(g) => g = f
      BY DEF withReservation, Inv, TypeOK
    <3>2. ASSUME NEW g \in Callers, NEW state \in CallStates, state.at # "running",
                 calls' = [calls EXCEPT ![g] = state]
          PROVE  FALSE
      BY <3>2 DEF Inv, TypeOK
    <3>3. Idle \in CallStates /\ Idle.at # "running"
      BY DEF Idle, CallStates
    <3>4. ASSUME NEW g \in Callers,
                 refused(g) \/ finish(g) \/ unsubscribe(g) \/ inspectReservation(g)
          PROVE  FALSE
      BY <3>2, <3>3, <3>4 DEF refused, finish, unsubscribe, inspectReservation, ends
    <3>5. ASSUME NEW g \in Callers, subscribe(g) PROVE FALSE
      BY <3>5 DEF subscribe, Inv, TypeOK, CallStates
    <3>6. ASSUME NEW g \in Callers, NEW c \in Contexts, reserve(g, c) PROVE FALSE
      BY <3>6 DEF reserve, Inv, TypeOK, CallStates
    <3>7. ASSUME NEW d \in decisions, revoke(d) PROVE FALSE
      BY <3>7 DEF revoke, interruptAll, Inv, TypeOK, CallStates
    <3>8. ASSUME NEW c \in Contexts, ensureLoaded(c) \/ decide(c) PROVE FALSE
      BY <3>8 DEF ensureLoaded, decide
    <3>9. ~(reload \/ tick \/ rest)
      BY <3>3 DEF reload, tick, rest, vars
    <3>10. QED
      BY <3>1, <3>4, <3>5, <3>6, <3>7, <3>8, <3>9 DEF Next
  <2>2. calls'[f].decisionId = calls[f].decisionId /\ permits(calls[f].decisionId)
    BY <2>1 DEF withReservation, Inv, TypeOK, CallStates
  <2>3. PICK d \in decisions :
          d.decisionId = calls[f].decisionId /\ d.status = "granted" /\ d.expiresAtMillis > now
    BY <2>2 DEF permits
  <2>4. LastWord(d.decisionId)
    BY <2>3 DEF Inv, AuthorityIsLatest
  <2>5. d.expiresAtMillis \in Nat /\ now \in Nat
    BY DEF Inv, TypeOK, Decisions, Times
  <2>6. QED
    BY <2>2, <2>3, <2>4, <2>5
<1>2. QED
  BY <1>1, Invariance, PTL DEF Spec, BeginsUnderLastWord

-----------------------------------------------------------------------------
(* The runtime: what its inductive invariant says.                               *)

\* The registered sessions are the live ones, and one that was never made has no state.
Registered ==
    /\ \A i \in DOMAIN sessions : disposal[sessions[i]] = "live"
    /\ \A s \in Sessions : disposal[s] = "fresh" =>
          /\ controller[s] = IdleController /\ generating[s] = NoPrompt /\ ~aborted[s]

\* A controller is closed by the disposal, and by nothing else.
ClosedByClose ==
    \A s \in Sessions : controller[s].closed <=> disposal[s] \notin {"fresh", "live", "closing"}

\* A prompt has a session from its lookup on, and an operation from its start on.
Asked ==
    \A p \in Prompts :
        /\ operation[p] # "none" => target[p] \in Sessions /\ disposal[target[p]] # "fresh"
        /\ request[p] \in {"none", "found", "busy", "missing"} => operation[p] = "none"
        /\ request[p] = "found" => target[p] \in Sessions /\ disposal[target[p]] # "fresh"
        /\ request[p] = "joined" => operation[p] \in {"starting", "generating"}

\* A session is occupied by an operation of its own; one that is over occupies it only
\* while it is being cancelled.
Occupied ==
    \A s \in Sessions : LET p == controller[s].active IN
        p # NoPrompt =>
            /\ target[p] = s /\ operation[p] # "none"
            /\ operation[p] = "done" => controller[s].cancelling = p

\* An operation under way occupies its session, and the agent generates for it.
UnderWay ==
    \A p \in Prompts :
        /\ operation[p] \in {"starting", "generating"} => controller[target[p]].active = p
        /\ operation[p] = "generating" => generating[target[p]] = p

\* The agent generates for the operation under way, or for one that a disposal gave up.
Generated ==
    \A s \in Sessions : generating[s] # NoPrompt =>
        /\ target[generating[s]] = s
        /\ \/ operation[generating[s]] = "generating"
           \/ operation[generating[s]] = "done" /\ controller[s].closed

\* A claim is on the operation that occupies the session.
Claimed ==
    \A s \in Sessions :
        /\ controller[s].cancelling # NoPrompt <=> canceller[s] # "none"
        /\ controller[s].cancelling # NoPrompt =>
              controller[s].cancelling = controller[s].active

\* What a disposal has found active is all that can still be active, and is over when it
\* goes on to dispose.
ClosesWhatItFound ==
    \A s \in Sessions :
        /\ controller[s].closed => controller[s].active \in {NoPrompt, closing[s]}
        /\ disposal[s] \in {"awaiting", "interrupting"} => closing[s] # NoPrompt
        /\ disposal[s] = "interrupting" => operation[closing[s]] \in {"generating", "done"}
        /\ disposal[s] \in {"disposing", "disposed"} /\ controller[s].active # NoPrompt =>
              operation[controller[s].active] = "done"

RuntimeInv ==
    /\ RuntimeTypeOK /\ Registered /\ ClosedByClose /\ Asked /\ Occupied /\ UnderWay /\ Generated
    /\ Claimed /\ ClosesWhatItFound /\ AbortsItsOwn

-----------------------------------------------------------------------------
(* Types.                                                                       *)

ControllerStates ==
    [closed : BOOLEAN, active : Prompts \union {NoPrompt},
     cancelling : Prompts \union {NoPrompt}]

\* The updates of a controller that the actions make.
LEMMA ControllerTypes ==
    ASSUME NEW c \in [Sessions -> ControllerStates], NEW s \in Sessions,
           NEW p \in Prompts \union {NoPrompt}
    PROVE  /\ [c EXCEPT ![s].closed = TRUE] \in [Sessions -> ControllerStates]
           /\ [c EXCEPT ![s].active = p] \in [Sessions -> ControllerStates]
           /\ [c EXCEPT ![s].cancelling = p] \in [Sessions -> ControllerStates]
  BY DEF ControllerStates


\* An abort says whether the agent generates.
LEMMA AbortTypes ==
    ASSUME RuntimeTypeOK, NEW s \in Sessions, abort(s)
    PROVE  aborted' \in [Sessions -> BOOLEAN]
  BY DEF RuntimeTypeOK, abort

\* An operation that ends frees its session, unless it is being cancelled, and answers.
LEMMA EndedTypes ==
    ASSUME RuntimeTypeOK, NEW s \in Sessions, NEW p \in Prompts, target[p] = s,
           NEW outcomes \in SUBSET Outcomes, ended(p, outcomes)
    PROVE  /\ controller' \in [Sessions -> ControllerStates]
           /\ operation' \in [Prompts -> {"none", "starting", "generating", "done"}]
           /\ request' \in [Prompts -> {"none", "found", "joined", "gone"} \union Outcomes]
<1> USE RuntimeAssumption DEF RuntimeTypeOK
<1>1. controller' \in [Sessions -> ControllerStates]
  BY ControllerTypes DEF ended, finishOperation, ControllerStates
<1>2. operation' \in [Prompts -> {"none", "starting", "generating", "done"}]
  BY DEF ended
<1>3. request' \in [Prompts -> {"none", "found", "joined", "gone"} \union Outcomes]
  BY DEF ended
<1> QED
  BY <1>1, <1>2, <1>3

\* A closed session leaves the others registered, in their order.
LEMMA Unregistered ==
    ASSUME RuntimeTypeOK, NEW i \in DOMAIN sessions
    PROVE  /\ RemoveAt(sessions, i) \in Seq(Sessions)
           /\ Len(RemoveAt(sessions, i)) = Len(sessions) - 1
           /\ \A j \in DOMAIN RemoveAt(sessions, i) :
                 RemoveAt(sessions, i)[j] = sessions[IF j < i THEN j ELSE j + 1]
<1> DEFINE before == SubSeq(sessions, 1, i - 1)
           after == SubSeq(sessions, i + 1, Len(sessions))
<1>1. sessions \in Seq(Sessions) /\ Len(sessions) \in Nat /\ i \in 1..Len(sessions)
  BY DEF RuntimeTypeOK
<1>2. /\ before \in Seq(Sessions) /\ Len(before) = i - 1
      /\ \A j \in 1..i - 1 : before[j] = sessions[j]
  BY <1>1, SubSeqProperties
<1>3. /\ after \in Seq(Sessions) /\ Len(after) = Len(sessions) - i
      /\ \A j \in 1..Len(sessions) - i : after[j] = sessions[i + j]
  BY <1>1, SubSeqProperties
<1> HIDE DEF before, after
<1>4. /\ before \o after \in Seq(Sessions) /\ Len(before \o after) = Len(sessions) - 1
      /\ \A j \in 1..Len(sessions) - 1 :
            (before \o after)[j] = IF j <= i - 1 THEN before[j] ELSE after[j - (i - 1)]
  <2>1. Len(before) + Len(after) = Len(sessions) - 1
    BY <1>1, <1>2, <1>3
  <2>2. /\ before \o after \in Seq(Sessions) /\ Len(before \o after) = Len(before) + Len(after)
        /\ \A j \in 1..Len(before) + Len(after) :
              (before \o after)[j] =
                  IF j <= Len(before) THEN before[j] ELSE after[j - Len(before)]
    BY <1>2, <1>3, ConcatProperties
  <2> QED
    BY <1>2, <2>1, <2>2
<1>5. \A j \in 1..Len(sessions) - 1 :
        (before \o after)[j] = sessions[IF j < i THEN j ELSE j + 1]
  <2> SUFFICES ASSUME NEW j \in 1..Len(sessions) - 1
               PROVE  (before \o after)[j] = sessions[IF j < i THEN j ELSE j + 1]
    OBVIOUS
  <2>1. CASE j < i
    BY <1>1, <1>2, <1>4, <2>1
  <2>2. CASE j >= i
    <3>1. j - (i - 1) \in 1..Len(sessions) - i /\ i + (j - (i - 1)) = j + 1
      BY <1>1, <2>2
    <3>2. after[j - (i - 1)] = sessions[j + 1]
      BY <1>3, <3>1
    <3> QED
      BY <1>1, <1>4, <2>2, <3>2
  <2>3. j < i \/ j >= i
    BY <1>1
  <2> QED
    BY <2>1, <2>2, <2>3
<1>6. RemoveAt(sessions, i) = before \o after
  BY DEF RemoveAt, before, after
<1>7. DOMAIN (before \o after) = 1..Len(sessions) - 1
  BY <1>1, <1>4
<1> QED
  BY <1>4, <1>5, <1>6, <1>7

\* The oldest session gives way to a new one when there are too many.
LEMMA Evicting ==
    ASSUME RuntimeTypeOK, NEW s \in Sessions, createSession(s)
    PROVE  /\ sessions' \in Seq(Sessions) /\ Len(sessions') \in 1..MAX_ACTIVE_SESSIONS
           /\ sessions'[Len(sessions')] = s
           /\ evicted = {} => /\ Len(sessions') = Len(sessions) + 1
                              /\ \A i \in 1..Len(sessions) : sessions'[i] = sessions[i]
           /\ evicted # {} => /\ evicted = {sessions[1]} /\ sessions[1] \in Sessions
                              /\ Len(sessions') = Len(sessions)
                              /\ \A i \in 1..Len(sessions) - 1 : sessions'[i] = sessions[i + 1]
<1> USE RuntimeAssumption
<1>1. sessions \in Seq(Sessions) /\ Len(sessions) \in Nat /\ Len(sessions) <= MAX_ACTIVE_SESSIONS
  BY DEF RuntimeTypeOK
<1>2. CASE evicted = {}
  <2>1. sessions' = Append(sessions, s) /\ Len(sessions) < MAX_ACTIVE_SESSIONS
    BY <1>1, <1>2 DEF createSession, evicted
  <2> QED
    BY <1>1, <1>2, <2>1, AppendProperties
<1>3. CASE evicted # {}
  <2>1. /\ sessions' = Append(Tail(sessions), s) /\ Len(sessions) = MAX_ACTIVE_SESSIONS
        /\ evicted = {Head(sessions)} /\ sessions # <<>>
    BY <1>1, <1>3 DEF createSession, evicted
  <2>2. /\ Tail(sessions) \in Seq(Sessions) /\ Len(Tail(sessions)) = Len(sessions) - 1
        /\ \A i \in 1..Len(Tail(sessions)) : Tail(sessions)[i] = sessions[i + 1]
    BY <1>1, <2>1, HeadTailProperties
  <2>3. Head(sessions) = sessions[1] /\ sessions[1] \in Sessions
    BY <1>1, <2>1
  <2> QED
    BY <1>1, <1>3, <2>1, <2>2, <2>3, AppendProperties
<1> QED
  BY <1>2, <1>3

-----------------------------------------------------------------------------
(* The outcomes of start and of interruptActive, each with its own update.      *)

taken(p, s) ==
    /\ request[p] = "found" /\ target[p] = s
    /\ ~controller[s].closed /\ controller[s].active = NoPrompt
    /\ controller' = [controller EXCEPT ![s].active = p]
    /\ operation' = [operation EXCEPT ![p] = "starting"]
    /\ request' = [request EXCEPT ![p] = "joined"]
    /\ UNCHANGED <<sessionVars, generating, aborted, canceller, cancelled, target, cancels>>

refusedBy(p, why) ==
    /\ request[p] = "found"
    /\ request' = [request EXCEPT ![p] = why]
    /\ UNCHANGED <<sessionVars, controller, generating, aborted, canceller, operation,
                   cancelled, target, cancels>>

LEMMA StartOutcomes ==
    ASSUME RuntimeInv, NEW p \in Prompts, start(p)
    PROVE  \/ \E s \in Sessions : taken(p, s)
           \/ \E why \in {"missing", "busy"} : refusedBy(p, why)
<1>1. PICK s \in Sessions : s = target[p]
  BY DEF RuntimeInv, Asked, start
<1>2. CASE refusal(s) = "none"
  <2>1. ~controller[s].closed /\ controller[s].active = NoPrompt
    BY <1>2 DEF refusal
  <2> QED
    BY <1>1, <1>2, <2>1 DEF start, taken
<1>3. CASE refusal(s) # "none"
  <2>1. refusal(s) \in {"missing", "busy"}
    BY <1>3 DEF refusal
  <2> QED
    BY <1>1, <1>3, <2>1 DEF start, refusedBy
<1> QED
  BY <1>2, <1>3

cut(s, p) ==
    /\ disposal[s] = "interrupting" /\ controller[s].active = p /\ operation[p] = "generating"
    /\ disposal' = [disposal EXCEPT ![s] = "disposing"]
    /\ abort(s) /\ ended(p, {"cut"})
    /\ UNCHANGED <<sessions, closing, generating, canceller, cancelled, target, cancels>>

skip(s) ==
    /\ disposal[s] = "interrupting"
    /\ controller[s].active # NoPrompt => operation[controller[s].active] # "generating"
    /\ disposal' = [disposal EXCEPT ![s] = "disposing"]
    /\ UNCHANGED <<aborted, operation, controller, request>>
    /\ UNCHANGED <<sessions, closing, generating, canceller, cancelled, target, cancels>>

LEMMA InterruptOutcomes ==
    ASSUME RuntimeInv, NEW s \in Sessions, interruptActive(s)
    PROVE  (\E p \in Prompts : cut(s, p)) \/ skip(s)
<1>1. controller[s].active \in Prompts \union {NoPrompt}
  BY DEF RuntimeInv, RuntimeTypeOK
<1> QED
  BY <1>1 DEF interruptActive, cut, skip

\* Only a live session is evicted, and never the one that is made.
LEMMA EvictedAreLive ==
    ASSUME RuntimeInv, NEW s \in Sessions, createSession(s)
    PROVE  s \notin evicted /\ \A o \in evicted : disposal[o] = "live"
<1>1. disposal[s] = "fresh"
  BY DEF createSession
<1>2. CASE evicted = {}
  BY <1>2
<1>3. CASE evicted # {}
  <2>1. Len(sessions) \in Nat \ {0} /\ DOMAIN sessions = 1..Len(sessions)
    BY <1>3, RuntimeAssumption DEF RuntimeInv, RuntimeTypeOK, evicted
  <2>2. evicted = {sessions[1]} /\ disposal[sessions[1]] = "live"
    BY <1>3, <2>1, Evicting DEF RuntimeInv, Registered
  <2> QED
    BY <1>1, <2>2
<1> QED
  BY <1>2, <1>3

-----------------------------------------------------------------------------
(* Every action preserves the invariant.                                       *)

LEMMA CloseInv == ASSUME RuntimeInv, NEW s \in Sessions, close(s) PROVE RuntimeInv'
<1> USE RuntimeAssumption DEF RuntimeInv
<1>1. RuntimeTypeOK'
  <2>1. controller' \in [Sessions -> ControllerStates]
        /\ closing' \in [Sessions -> Prompts \union {NoPrompt}]
    BY ControllerTypes DEF close, RuntimeTypeOK, ControllerStates
  <2>2. controller[s].active # NoPrompt => target[controller[s].active] = s
    BY DEF Occupied
  <2>3. abort(s)
    BY <2>2 DEF close, interrupt
  <2>4. cancelled' \subseteq Prompts
    BY DEF close, interrupt, RuntimeTypeOK
  <2>5. disposal' \in [Sessions -> {"fresh", "live", "closing", "awaiting", "interrupting",
                                    "disposing", "disposed"}]
    BY DEF close, RuntimeTypeOK
  <2> QED
    BY <2>1, <2>3, <2>4, <2>5, AbortTypes DEF RuntimeTypeOK, close, ControllerStates, promptVars
<1>2. Registered'
  BY DEF close, abort, interrupt, promptVars, RuntimeTypeOK, Registered
<1>3. ClosedByClose'
  BY DEF close, abort, interrupt, promptVars, RuntimeTypeOK, ClosedByClose
<1>4. Asked'
  BY DEF close, abort, interrupt, promptVars, RuntimeTypeOK, Asked
<1>5. Occupied'
  BY DEF close, abort, interrupt, promptVars, RuntimeTypeOK, Occupied
<1>6. UnderWay'
  BY DEF close, abort, interrupt, promptVars, RuntimeTypeOK, UnderWay
<1>7. Generated'
  BY DEF close, abort, interrupt, promptVars, RuntimeTypeOK, Generated
<1>8. Claimed'
  BY DEF close, abort, interrupt, promptVars, RuntimeTypeOK, Claimed
<1>9. ClosesWhatItFound'
  BY DEF close, abort, interrupt, promptVars, RuntimeTypeOK, ClosesWhatItFound
<1>10. AbortsItsOwn'
  BY DEF close, abort, interrupt, promptVars, RuntimeTypeOK, AbortsItsOwn, Occupied
<1> QED
  BY <1>1, <1>2, <1>3, <1>4, <1>5, <1>6, <1>7, <1>8, <1>9, <1>10

LEMMA AwaitDoneInv ==
    ASSUME RuntimeInv, NEW s \in Sessions, awaitDone(s)
    PROVE  RuntimeInv'
<1> USE RuntimeAssumption DEF RuntimeInv
<1>1. RuntimeTypeOK'
  BY DEF awaitDone, closed, promptVars, RuntimeTypeOK
<1>2. Registered'
  BY DEF awaitDone, closed, promptVars, RuntimeTypeOK, Registered
<1>3. ClosedByClose'
  BY DEF awaitDone, closed, promptVars, RuntimeTypeOK, ClosedByClose
<1>4. Asked'
  BY DEF awaitDone, closed, promptVars, RuntimeTypeOK, Asked
<1>5. Occupied'
  BY DEF awaitDone, closed, promptVars, RuntimeTypeOK, Occupied
<1>6. UnderWay'
  BY DEF awaitDone, closed, promptVars, RuntimeTypeOK, UnderWay
<1>7. Generated'
  BY DEF awaitDone, closed, promptVars, RuntimeTypeOK, Generated
<1>8. Claimed'
  BY DEF awaitDone, closed, promptVars, RuntimeTypeOK, Claimed
<1>9. ClosesWhatItFound'
  BY DEF awaitDone, closed, promptVars, RuntimeTypeOK, ClosesWhatItFound, ClosedByClose
<1>10. AbortsItsOwn'
  BY DEF awaitDone, closed, promptVars, RuntimeTypeOK, AbortsItsOwn
<1> QED
  BY <1>1, <1>2, <1>3, <1>4, <1>5, <1>6, <1>7, <1>8, <1>9, <1>10

LEMMA DisposalTimeoutInv ==
    ASSUME RuntimeInv, NEW s \in Sessions, disposalTimeout(s)
    PROVE  RuntimeInv'
<1> USE RuntimeAssumption DEF RuntimeInv
<1>1. RuntimeTypeOK'
  BY DEF disposalTimeout, promptVars, RuntimeTypeOK
<1>2. Registered'
  BY DEF disposalTimeout, promptVars, RuntimeTypeOK, Registered
<1>3. ClosedByClose'
  BY DEF disposalTimeout, promptVars, RuntimeTypeOK, ClosedByClose
<1>4. Asked'
  BY DEF disposalTimeout, promptVars, RuntimeTypeOK, Asked
<1>5. Occupied'
  BY DEF disposalTimeout, promptVars, RuntimeTypeOK, Occupied
<1>6. UnderWay'
  BY DEF disposalTimeout, promptVars, RuntimeTypeOK, UnderWay
<1>7. Generated'
  BY DEF disposalTimeout, promptVars, RuntimeTypeOK, Generated
<1>8. Claimed'
  BY DEF disposalTimeout, promptVars, RuntimeTypeOK, Claimed
<1>9. ClosesWhatItFound'
  BY DEF disposalTimeout, promptVars, RuntimeTypeOK, ClosesWhatItFound
<1>10. AbortsItsOwn'
  BY DEF disposalTimeout, promptVars, RuntimeTypeOK, AbortsItsOwn
<1> QED
  BY <1>1, <1>2, <1>3, <1>4, <1>5, <1>6, <1>7, <1>8, <1>9, <1>10

LEMMA DisposeSessionInv ==
    ASSUME RuntimeInv, NEW s \in Sessions, disposeSession(s)
    PROVE  RuntimeInv'
<1> USE RuntimeAssumption DEF RuntimeInv
<1>1. RuntimeTypeOK'
  BY DEF disposeSession, promptVars, RuntimeTypeOK
<1>2. Registered'
  BY DEF disposeSession, promptVars, RuntimeTypeOK, Registered
<1>3. ClosedByClose'
  BY DEF disposeSession, promptVars, RuntimeTypeOK, ClosedByClose
<1>4. Asked'
  BY DEF disposeSession, promptVars, RuntimeTypeOK, Asked
<1>5. Occupied'
  BY DEF disposeSession, promptVars, RuntimeTypeOK, Occupied
<1>6. UnderWay'
  BY DEF disposeSession, promptVars, RuntimeTypeOK, UnderWay, Asked, ClosesWhatItFound
<1>7. Generated'
  BY DEF disposeSession, promptVars, RuntimeTypeOK, Generated
<1>8. Claimed'
  BY DEF disposeSession, promptVars, RuntimeTypeOK, Claimed
<1>9. ClosesWhatItFound'
  BY DEF disposeSession, promptVars, RuntimeTypeOK, ClosesWhatItFound
<1>10. AbortsItsOwn'
  BY DEF disposeSession, promptVars, RuntimeTypeOK, AbortsItsOwn
<1> QED
  BY <1>1, <1>2, <1>3, <1>4, <1>5, <1>6, <1>7, <1>8, <1>9, <1>10

LEMMA FindSessionInv ==
    ASSUME RuntimeInv, NEW p \in Prompts, NEW s \in Sessions, findSession(p, s)
    PROVE  RuntimeInv'
<1> USE RuntimeAssumption DEF RuntimeInv
<1>1. RuntimeTypeOK'
  <2>1. request' \in [Prompts -> {"none", "found", "joined", "gone"} \union Outcomes]
    BY DEF findSession, RuntimeTypeOK, Outcomes
  <2>2. target' \in [Prompts -> Sessions \union {NoSession}]
    BY DEF findSession, RuntimeTypeOK
  <2> QED
    BY <2>1, <2>2 DEF RuntimeTypeOK, ControllerStates, findSession, sessionVars, promptVars
<1>2. Registered'
  BY DEF findSession, sessionVars, RuntimeTypeOK, Registered
<1>3. ClosedByClose'
  BY DEF findSession, sessionVars, RuntimeTypeOK, ClosedByClose
<1>4. Asked'
  BY DEF findSession, sessionVars, RuntimeTypeOK, Asked
<1>5. Occupied'
  BY DEF findSession, sessionVars, RuntimeTypeOK, Occupied, Asked
<1>6. UnderWay'
  BY DEF findSession, sessionVars, RuntimeTypeOK, UnderWay, Asked
<1>7. Generated'
  BY DEF findSession, sessionVars, RuntimeTypeOK, Generated, Asked
<1>8. Claimed'
  BY DEF findSession, sessionVars, RuntimeTypeOK, Claimed
<1>9. ClosesWhatItFound'
  BY DEF findSession, sessionVars, RuntimeTypeOK, ClosesWhatItFound
<1>10. AbortsItsOwn'
  BY DEF findSession, sessionVars, RuntimeTypeOK, AbortsItsOwn
<1> QED
  BY <1>1, <1>2, <1>3, <1>4, <1>5, <1>6, <1>7, <1>8, <1>9, <1>10

LEMMA TakeInv ==
    ASSUME RuntimeInv, NEW p \in Prompts, NEW s \in Sessions, taken(p, s)
    PROVE  RuntimeInv'
<1> USE RuntimeAssumption DEF RuntimeInv
<1>1. RuntimeTypeOK'
  <2>1. controller' \in [Sessions -> ControllerStates]
    <3>1. controller \in [Sessions -> ControllerStates]
      BY DEF RuntimeTypeOK, ControllerStates
    <3> QED
      BY <3>1, ControllerTypes DEF taken
  <2>2. operation' \in [Prompts -> {"none", "starting", "generating", "done"}]
    BY DEF taken, RuntimeTypeOK
  <2>3. request' \in [Prompts -> {"none", "found", "joined", "gone"} \union Outcomes]
    BY DEF taken, RuntimeTypeOK
  <2> QED
    BY <2>1, <2>2, <2>3 DEF RuntimeTypeOK, taken, ControllerStates, sessionVars
<1>2. Registered'
  BY DEF taken, sessionVars, RuntimeTypeOK, Registered, Asked
<1>3. ClosedByClose'
  BY DEF taken, sessionVars, RuntimeTypeOK, ClosedByClose
<1>4. Asked'
  BY DEF taken, sessionVars, RuntimeTypeOK, Asked
<1>5. Occupied'
  BY DEF taken, sessionVars, RuntimeTypeOK, Occupied, Asked, Claimed
<1>6. UnderWay'
  BY DEF taken, sessionVars, RuntimeTypeOK, UnderWay, Asked
<1>7. Generated'
  BY DEF taken, sessionVars, RuntimeTypeOK, Generated, Asked
<1>8. Claimed'
  BY DEF taken, sessionVars, RuntimeTypeOK, Claimed
<1>9. ClosesWhatItFound'
  <2>1. operation[p] = "none" /\ disposal[s] \in {"live", "closing", "fresh"}
    BY DEF taken, Asked, ClosedByClose, RuntimeTypeOK
  <2>2. \A o \in Sessions \ {s} : controller'[o] = controller[o]
    BY DEF taken, RuntimeTypeOK
  <2>3. ~controller'[s].closed /\ \A q \in Prompts \ {p} : operation'[q] = operation[q]
    BY DEF taken, RuntimeTypeOK
  <2>4. \A o \in Sessions : closing[o] = p => disposal[o] # "interrupting"
    BY <2>1 DEF ClosesWhatItFound
  <2> QED
    BY <2>1, <2>2, <2>3, <2>4 DEF taken, ClosesWhatItFound, sessionVars, RuntimeTypeOK
<1>10. AbortsItsOwn'
  BY DEF taken, sessionVars, RuntimeTypeOK, AbortsItsOwn
<1> QED
  BY <1>1, <1>2, <1>3, <1>4, <1>5, <1>6, <1>7, <1>8, <1>9, <1>10

LEMMA RefuseInv ==
    ASSUME RuntimeInv, NEW p \in Prompts, NEW why \in {"missing", "busy"}, refusedBy(p, why)
    PROVE  RuntimeInv'
<1> USE RuntimeAssumption DEF RuntimeInv
<1>1. RuntimeTypeOK'
  <2>1. request' \in [Prompts -> {"none", "found", "joined", "gone"} \union Outcomes]
    BY DEF refusedBy, RuntimeTypeOK, Outcomes
  <2> QED
    BY <2>1 DEF RuntimeTypeOK, refusedBy, sessionVars
<1>2. Registered'
  BY DEF refusedBy, sessionVars, RuntimeTypeOK, Registered
<1>3. ClosedByClose'
  BY DEF refusedBy, sessionVars, RuntimeTypeOK, ClosedByClose
<1>4. Asked'
  BY DEF refusedBy, sessionVars, RuntimeTypeOK, Asked
<1>5. Occupied'
  BY DEF refusedBy, sessionVars, RuntimeTypeOK, Occupied
<1>6. UnderWay'
  BY DEF refusedBy, sessionVars, RuntimeTypeOK, UnderWay
<1>7. Generated'
  BY DEF refusedBy, sessionVars, RuntimeTypeOK, Generated
<1>8. Claimed'
  BY DEF refusedBy, sessionVars, RuntimeTypeOK, Claimed
<1>9. ClosesWhatItFound'
  BY DEF refusedBy, sessionVars, RuntimeTypeOK, ClosesWhatItFound
<1>10. AbortsItsOwn'
  BY DEF refusedBy, sessionVars, RuntimeTypeOK, AbortsItsOwn
<1> QED
  BY <1>1, <1>2, <1>3, <1>4, <1>5, <1>6, <1>7, <1>8, <1>9, <1>10

LEMMA GenerateInv ==
    ASSUME RuntimeInv, NEW p \in Prompts, generate(p)
    PROVE  RuntimeInv'
<1> USE RuntimeAssumption DEF RuntimeInv
<1>1. RuntimeTypeOK'
  BY DEF generate, sessionVars, RuntimeTypeOK
<1>2. Registered'
  BY DEF generate, sessionVars, RuntimeTypeOK, Registered, Asked
<1>3. ClosedByClose'
  BY DEF generate, sessionVars, RuntimeTypeOK, ClosedByClose
<1>4. Asked'
  BY DEF generate, sessionVars, RuntimeTypeOK, Asked
<1>5. Occupied'
  BY DEF generate, sessionVars, RuntimeTypeOK, Occupied
<1>6. UnderWay'
  BY DEF generate, sessionVars, RuntimeTypeOK, UnderWay, Asked
<1>7. Generated'
  BY DEF generate, sessionVars, RuntimeTypeOK, Generated, Asked
<1>8. Claimed'
  BY DEF generate, sessionVars, RuntimeTypeOK, Claimed
<1>9. ClosesWhatItFound'
  BY DEF generate, sessionVars, RuntimeTypeOK, ClosesWhatItFound
<1>10. AbortsItsOwn'
  BY DEF generate, sessionVars, RuntimeTypeOK, AbortsItsOwn
<1> QED
  BY <1>1, <1>2, <1>3, <1>4, <1>5, <1>6, <1>7, <1>8, <1>9, <1>10

LEMMA SettleInv == ASSUME RuntimeInv, NEW p \in Prompts, settle(p) PROVE RuntimeInv'
<1> USE RuntimeAssumption DEF RuntimeInv
<1>1. RuntimeTypeOK'
  <2>1. PICK s \in Sessions : s = target[p]
    BY DEF settle, Asked
  <2>2. PICK outcomes \in SUBSET Outcomes : ended(p, outcomes)
    BY DEF settle, Outcomes
  <2>3. /\ generating' \in [Sessions -> Prompts \union {NoPrompt}]
        /\ aborted' \in [Sessions -> BOOLEAN]
    BY <2>1 DEF settle, RuntimeTypeOK
  <2> QED
    BY <2>1, <2>2, <2>3, EndedTypes DEF RuntimeTypeOK, settle, ControllerStates, sessionVars
<1>2. Registered'
  BY DEF settle, ended, finishOperation, sessionVars, RuntimeTypeOK, Registered
<1>3. ClosedByClose'
  BY DEF settle, ended, finishOperation, sessionVars, RuntimeTypeOK, ClosedByClose
<1>4. Asked'
  BY DEF settle, ended, finishOperation, sessionVars, RuntimeTypeOK, Asked
<1>5. Occupied'
  BY DEF settle, ended, finishOperation, sessionVars, RuntimeTypeOK, Occupied
<1>6. UnderWay'
  BY DEF settle, ended, finishOperation, sessionVars, RuntimeTypeOK, UnderWay
<1>7. Generated'
  BY DEF settle, ended, finishOperation, sessionVars, RuntimeTypeOK, Generated
<1>8. Claimed'
  BY DEF settle, ended, finishOperation, sessionVars, RuntimeTypeOK, Claimed
<1>9. ClosesWhatItFound'
  BY DEF settle, ended, finishOperation, sessionVars, RuntimeTypeOK, ClosesWhatItFound
<1>10. AbortsItsOwn'
  BY DEF settle, ended, finishOperation, sessionVars, RuntimeTypeOK, AbortsItsOwn
<1> QED
  BY <1>1, <1>2, <1>3, <1>4, <1>5, <1>6, <1>7, <1>8, <1>9, <1>10

LEMMA CutInv ==
    ASSUME RuntimeInv, NEW s \in Sessions, NEW p \in Prompts, cut(s, p)
    PROVE  RuntimeInv'
<1> USE RuntimeAssumption DEF RuntimeInv
<1>1. RuntimeTypeOK'
  <2>1. target[p] = s
    BY DEF cut, Occupied, RuntimeTypeOK
  <2>2. abort(s) /\ ended(p, {"cut"}) /\ {"cut"} \in SUBSET Outcomes
    BY DEF cut, Outcomes
  <2>3. disposal' \in [Sessions -> {"fresh", "live", "closing", "awaiting", "interrupting",
                                    "disposing", "disposed"}]
    BY DEF cut, RuntimeTypeOK
  <2> QED
    BY <2>1, <2>2, <2>3, AbortTypes, EndedTypes DEF RuntimeTypeOK, cut, ControllerStates
<1>2. Registered'
  BY DEF cut, abort, ended, finishOperation, RuntimeTypeOK, Registered, Occupied
<1>3. ClosedByClose'
  BY DEF cut, abort, ended, finishOperation, RuntimeTypeOK, ClosedByClose
<1>4. Asked'
  BY DEF cut, abort, ended, finishOperation, RuntimeTypeOK, Asked
<1>5. Occupied'
  BY DEF cut, abort, ended, finishOperation, RuntimeTypeOK, Occupied, ClosesWhatItFound
<1>6. UnderWay'
  BY DEF cut, abort, ended, finishOperation, RuntimeTypeOK, UnderWay, Occupied, Asked
<1>7. Generated'
  BY DEF cut, abort, ended, finishOperation, RuntimeTypeOK, Generated, Asked, ClosedByClose,
     Occupied, UnderWay
<1>8. Claimed'
  BY DEF cut, abort, ended, finishOperation, RuntimeTypeOK, Claimed
<1>9. ClosesWhatItFound'
  BY DEF cut, abort, ended, finishOperation, RuntimeTypeOK, ClosesWhatItFound, ClosedByClose,
     UnderWay, Occupied
<1>10. AbortsItsOwn'
  BY DEF cut, abort, ended, finishOperation, RuntimeTypeOK, AbortsItsOwn, ClosedByClose
<1> QED
  BY <1>1, <1>2, <1>3, <1>4, <1>5, <1>6, <1>7, <1>8, <1>9, <1>10

LEMMA SkipInv == ASSUME RuntimeInv, NEW s \in Sessions, skip(s) PROVE RuntimeInv'
<1> USE RuntimeAssumption DEF RuntimeInv
<1>1. RuntimeTypeOK'
  BY DEF skip, RuntimeTypeOK
<1>2. Registered'
  BY DEF skip, RuntimeTypeOK, Registered
<1>3. ClosedByClose'
  BY DEF skip, RuntimeTypeOK, ClosedByClose
<1>4. Asked'
  BY DEF skip, RuntimeTypeOK, Asked
<1>5. Occupied'
  BY DEF skip, RuntimeTypeOK, Occupied
<1>6. UnderWay'
  BY DEF skip, RuntimeTypeOK, UnderWay
<1>7. Generated'
  BY DEF skip, RuntimeTypeOK, Generated
<1>8. Claimed'
  BY DEF skip, RuntimeTypeOK, Claimed
<1>9. ClosesWhatItFound'
  BY DEF skip, RuntimeTypeOK, ClosesWhatItFound, ClosedByClose
<1>10. AbortsItsOwn'
  BY DEF skip, RuntimeTypeOK, AbortsItsOwn
<1> QED
  BY <1>1, <1>2, <1>3, <1>4, <1>5, <1>6, <1>7, <1>8, <1>9, <1>10

LEMMA DisconnectInv ==
    ASSUME RuntimeInv, NEW p \in Prompts, disconnect(p)
    PROVE  RuntimeInv'
<1> USE RuntimeAssumption DEF RuntimeInv
<1>1. RuntimeTypeOK'
  <2>1. request' \in [Prompts -> {"none", "found", "joined", "gone"} \union Outcomes]
    BY DEF disconnect, RuntimeTypeOK
  <2>2. target[p] \in Sessions
    BY DEF disconnect, Asked, RuntimeTypeOK
  <2>3. aborted' \in [Sessions -> BOOLEAN] /\ cancelled' \subseteq Prompts
    BY <2>2, AbortTypes DEF disconnect, interrupt, RuntimeTypeOK
  <2> QED
    BY <2>1, <2>3 DEF RuntimeTypeOK, disconnect, sessionVars
<1>2. Registered'
  BY DEF disconnect, interrupt, abort, sessionVars, RuntimeTypeOK, Registered
<1>3. ClosedByClose'
  BY DEF disconnect, interrupt, abort, sessionVars, RuntimeTypeOK, ClosedByClose
<1>4. Asked'
  BY DEF disconnect, interrupt, abort, sessionVars, RuntimeTypeOK, Asked
<1>5. Occupied'
  BY DEF disconnect, interrupt, abort, sessionVars, RuntimeTypeOK, Occupied
<1>6. UnderWay'
  BY DEF disconnect, interrupt, abort, sessionVars, RuntimeTypeOK, UnderWay
<1>7. Generated'
  BY DEF disconnect, interrupt, abort, sessionVars, RuntimeTypeOK, Generated
<1>8. Claimed'
  BY DEF disconnect, interrupt, abort, sessionVars, RuntimeTypeOK, Claimed
<1>9. ClosesWhatItFound'
  BY DEF disconnect, interrupt, abort, sessionVars, RuntimeTypeOK, ClosesWhatItFound
<1>10. AbortsItsOwn'
  <2>1. CASE request[p] # "joined"
    BY <2>1 DEF disconnect, AbortsItsOwn
  <2>2. CASE request[p] = "joined"
    <3>1. target[p] \in Sessions /\ controller[target[p]].active = p
      BY <2>2 DEF Asked, UnderWay, RuntimeTypeOK
    <3>2. cancelled' = cancelled \union {p} /\ abort(target[p])
          /\ UNCHANGED <<controller, generating>>
      BY <2>2 DEF disconnect, interrupt
    <3>3. generating[target[p]] \in {NoPrompt, p} \/ controller[target[p]].closed
      BY <3>1 DEF Generated, UnderWay, RuntimeTypeOK
    <3> QED
      BY <3>1, <3>2, <3>3 DEF abort, AbortsItsOwn, RuntimeTypeOK
  <2> QED
    BY <2>1, <2>2
<1> QED
  BY <1>1, <1>2, <1>3, <1>4, <1>5, <1>6, <1>7, <1>8, <1>9, <1>10

LEMMA CancelActiveInv ==
    ASSUME RuntimeInv, NEW s \in Sessions, cancelActive(s)
    PROVE  RuntimeInv'
<1> USE RuntimeAssumption DEF RuntimeInv
<1>1. RuntimeTypeOK'
  BY DEF cancelActive, sessionVars, promptVars, RuntimeTypeOK
<1>2. Registered'
  BY DEF cancelActive, sessionVars, promptVars, RuntimeTypeOK, Registered, Occupied, Asked
<1>3. ClosedByClose'
  BY DEF cancelActive, sessionVars, promptVars, RuntimeTypeOK, ClosedByClose
<1>4. Asked'
  BY DEF cancelActive, sessionVars, promptVars, RuntimeTypeOK, Asked
<1>5. Occupied'
  BY DEF cancelActive, sessionVars, promptVars, RuntimeTypeOK, Occupied
<1>6. UnderWay'
  BY DEF cancelActive, sessionVars, promptVars, RuntimeTypeOK, UnderWay
<1>7. Generated'
  BY DEF cancelActive, sessionVars, promptVars, RuntimeTypeOK, Generated
<1>8. Claimed'
  BY DEF cancelActive, sessionVars, promptVars, RuntimeTypeOK, Claimed
<1>9. ClosesWhatItFound'
  BY DEF cancelActive, sessionVars, promptVars, RuntimeTypeOK, ClosesWhatItFound
<1>10. AbortsItsOwn'
  BY DEF cancelActive, sessionVars, promptVars, RuntimeTypeOK, AbortsItsOwn
<1> QED
  BY <1>1, <1>2, <1>3, <1>4, <1>5, <1>6, <1>7, <1>8, <1>9, <1>10

LEMMA InterruptCancelledInv ==
    ASSUME RuntimeInv, NEW s \in Sessions, interruptCancelled(s)
    PROVE  RuntimeInv'
<1> USE RuntimeAssumption DEF RuntimeInv
<1>1. RuntimeTypeOK'
  <2>1. controller[s].cancelling \in Prompts /\ target[controller[s].cancelling] = s
    BY DEF interruptCancelled, Claimed, Occupied, RuntimeTypeOK
  <2>2. aborted' \in [Sessions -> BOOLEAN] /\ cancelled' \subseteq Prompts
    BY <2>1, AbortTypes DEF interruptCancelled, interrupt, RuntimeTypeOK
  <2>3. canceller' \in [Sessions -> {"none", "interrupting", "awaiting", "failed"}]
    BY DEF interruptCancelled, RuntimeTypeOK
  <2> QED
    BY <2>2, <2>3 DEF RuntimeTypeOK, interruptCancelled, sessionVars, promptVars
<1>2. Registered'
  BY DEF interruptCancelled, interrupt, abort, sessionVars, promptVars, RuntimeTypeOK, Registered
<1>3. ClosedByClose'
  BY DEF interruptCancelled, interrupt, abort, sessionVars, promptVars, RuntimeTypeOK,
     ClosedByClose
<1>4. Asked'
  BY DEF interruptCancelled, interrupt, abort, sessionVars, promptVars, RuntimeTypeOK, Asked
<1>5. Occupied'
  BY DEF interruptCancelled, interrupt, abort, sessionVars, promptVars, RuntimeTypeOK, Occupied
<1>6. UnderWay'
  BY DEF interruptCancelled, interrupt, abort, sessionVars, promptVars, RuntimeTypeOK, UnderWay
<1>7. Generated'
  BY DEF interruptCancelled, interrupt, abort, sessionVars, promptVars, RuntimeTypeOK, Generated
<1>8. Claimed'
  BY DEF interruptCancelled, interrupt, abort, sessionVars, promptVars, RuntimeTypeOK, Claimed
<1>9. ClosesWhatItFound'
  BY DEF interruptCancelled, interrupt, abort, sessionVars, promptVars, RuntimeTypeOK,
     ClosesWhatItFound
<1>10. AbortsItsOwn'
  BY DEF interruptCancelled, interrupt, abort, sessionVars, promptVars, RuntimeTypeOK,
     AbortsItsOwn,
     Claimed, Occupied, Generated, UnderWay
<1> QED
  BY <1>1, <1>2, <1>3, <1>4, <1>5, <1>6, <1>7, <1>8, <1>9, <1>10

LEMMA AbortFailsInv ==
    ASSUME RuntimeInv, NEW s \in Sessions, abortFails(s)
    PROVE  RuntimeInv'
<1> USE RuntimeAssumption DEF RuntimeInv
<1>1. RuntimeTypeOK'
  <2>1. controller[s].cancelling \in Prompts
    BY DEF abortFails, Claimed, RuntimeTypeOK
  <2>2. /\ canceller' \in [Sessions -> {"none", "interrupting", "awaiting", "failed"}]
        /\ cancelled' \subseteq Prompts
    BY <2>1 DEF abortFails, RuntimeTypeOK
  <2> QED
    BY <2>2 DEF RuntimeTypeOK, abortFails, sessionVars, promptVars
<1>2. Registered'
  BY DEF abortFails, sessionVars, promptVars, RuntimeTypeOK, Registered
<1>3. ClosedByClose'
  BY DEF abortFails, sessionVars, promptVars, RuntimeTypeOK, ClosedByClose
<1>4. Asked'
  BY DEF abortFails, sessionVars, promptVars, RuntimeTypeOK, Asked
<1>5. Occupied'
  BY DEF abortFails, sessionVars, promptVars, RuntimeTypeOK, Occupied
<1>6. UnderWay'
  BY DEF abortFails, sessionVars, promptVars, RuntimeTypeOK, UnderWay
<1>7. Generated'
  BY DEF abortFails, sessionVars, promptVars, RuntimeTypeOK, Generated
<1>8. Claimed'
  BY DEF abortFails, sessionVars, promptVars, RuntimeTypeOK, Claimed
<1>9. ClosesWhatItFound'
  BY DEF abortFails, sessionVars, promptVars, RuntimeTypeOK, ClosesWhatItFound
<1>10. AbortsItsOwn'
  BY DEF abortFails, sessionVars, promptVars, RuntimeTypeOK, AbortsItsOwn
<1> QED
  BY <1>1, <1>2, <1>3, <1>4, <1>5, <1>6, <1>7, <1>8, <1>9, <1>10

\* A released claim frees the session of an operation that is over.
LEMMA ReleasedIs ==
    ASSUME RuntimeTypeOK, NEW s \in Sessions, releaseClaim(s)
    PROVE  /\ controller' \in [Sessions -> ControllerStates]
           /\ controller'[s].cancelling = NoPrompt
           /\ controller'[s].closed = controller[s].closed
           /\ controller'[s].active = IF operation[controller[s].cancelling] = "done"
                                      THEN NoPrompt ELSE controller[s].active
           /\ \A o \in Sessions : o # s => controller'[o] = controller[o]
<1> DEFINE c == [controller[s] EXCEPT !.cancelling = NoPrompt,
                     !.active = IF operation[controller[s].cancelling] = "done"
                                THEN NoPrompt ELSE controller[s].active]
<1>1. controller[s] \in ControllerStates /\ controller \in [Sessions -> ControllerStates]
  BY DEF RuntimeTypeOK, ControllerStates
<1>2. /\ c \in ControllerStates /\ c.cancelling = NoPrompt /\ c.closed = controller[s].closed
      /\ c.active = IF operation[controller[s].cancelling] = "done"
                    THEN NoPrompt ELSE controller[s].active
  BY <1>1 DEF ControllerStates
<1>3. controller' = [controller EXCEPT ![s] = c]
  BY DEF releaseClaim, released
<1> HIDE DEF c
<1> QED
  BY <1>1, <1>2, <1>3

LEMMA ReleaseClaimInv ==
    ASSUME RuntimeInv, NEW s \in Sessions, releaseClaim(s)
    PROVE  RuntimeInv'
<1> USE RuntimeAssumption DEF RuntimeInv
<1>a. PICK p \in Prompts : /\ p = controller[s].cancelling /\ p = controller[s].active
                           /\ canceller[s] # "none"
  BY DEF releaseClaim, RuntimeTypeOK, Claimed
<1>b. /\ controller'[s].cancelling = NoPrompt
      /\ controller'[s].active = IF operation[p] = "done" THEN NoPrompt ELSE p
      /\ \A o \in Sessions : o # s => controller'[o] = controller[o]
      /\ \A o \in Sessions : controller'[o].closed = controller[o].closed
  BY <1>a, ReleasedIs
<1>c. \A o \in Sessions : canceller'[o] = IF o = s THEN "none" ELSE canceller[o]
  BY DEF releaseClaim, RuntimeTypeOK
<1>d. UNCHANGED <<sessions, disposal, closing, generating, aborted, operation, cancelled,
                  request, target>>
  BY DEF releaseClaim, sessionVars, promptVars
<1>e. /\ target[p] = s
      /\ \A o \in Sessions : o # s => controller[o].active # p
  BY <1>a DEF Occupied
<1>1. RuntimeTypeOK'
  <2>1. controller' \in [Sessions -> ControllerStates]
    BY ReleasedIs
  <2>2. canceller' \in [Sessions -> {"none", "interrupting", "awaiting", "failed"}]
    BY DEF releaseClaim, RuntimeTypeOK
  <2> QED
    BY <2>1, <2>2 DEF RuntimeTypeOK, releaseClaim, ControllerStates, sessionVars, promptVars
<1>2. Registered'
  <2>1. disposal[s] # "fresh"
    BY <1>a DEF Registered, IdleController
  <2> QED
    BY <1>b, <1>d, <2>1 DEF Registered
<1>3. ClosedByClose'
  BY <1>b, <1>d DEF ClosedByClose
<1>4. Asked'
  BY <1>d DEF Asked
<1>5. Occupied'
  BY <1>a, <1>b, <1>d DEF Occupied
<1>6. UnderWay'
  BY <1>a, <1>b, <1>d DEF UnderWay, Asked
<1>7. Generated'
  BY <1>b, <1>d DEF Generated
<1>8. Claimed'
  BY <1>b, <1>c DEF Claimed
<1>9. ClosesWhatItFound'
  BY <1>a, <1>b, <1>d DEF ClosesWhatItFound
<1>10. AbortsItsOwn'
  BY <1>b, <1>d DEF AbortsItsOwn
<1> QED
  BY <1>1, <1>2, <1>3, <1>4, <1>5, <1>6, <1>7, <1>8, <1>9, <1>10

LEMMA CloseSessionInv ==
    ASSUME RuntimeInv, NEW s \in Sessions, closeSession(s)
    PROVE  RuntimeInv'
<1> USE RuntimeAssumption DEF RuntimeInv
<1>1. RuntimeTypeOK'
  <2>1. PICK i \in DOMAIN sessions : sessions[i] = s /\ sessions' = RemoveAt(sessions, i)
    BY DEF closeSession
  <2>2. sessions' \in Seq(Sessions) /\ Len(sessions') = Len(sessions) - 1
    BY <2>1, Unregistered
  <2>3. Len(sessions') <= MAX_ACTIVE_SESSIONS
    BY <2>2 DEF RuntimeTypeOK
  <2>4. IsInjective(sessions')
    <3> SUFFICES ASSUME NEW a \in DOMAIN sessions', NEW b \in DOMAIN sessions',
                        sessions'[a] = sessions'[b]
                 PROVE  a = b
      BY DEF IsInjective
    <3> DEFINE old(j) == IF j < i THEN j ELSE j + 1
    <3>1. /\ a \in 1..Len(sessions) - 1 /\ b \in 1..Len(sessions) - 1 /\ i \in 1..Len(sessions)
          /\ Len(sessions) \in Nat /\ DOMAIN sessions = 1..Len(sessions)
      BY <2>2 DEF RuntimeTypeOK
    <3>2. old(a) \in DOMAIN sessions /\ old(b) \in DOMAIN sessions
      BY <3>1
    <3>3. sessions[old(a)] = sessions[old(b)]
      BY <2>1, Unregistered
    <3>4. old(a) = old(b)
      BY <3>2, <3>3 DEF RuntimeTypeOK, IsInjective
    <3> QED
      BY <3>1, <3>4
  <2>5. disposal' \in [Sessions -> {"fresh", "live", "closing", "awaiting", "interrupting",
                                    "disposing", "disposed"}]
    BY DEF closeSession, RuntimeTypeOK
  <2> QED
    BY <2>2, <2>3, <2>4, <2>5 DEF RuntimeTypeOK, closeSession, promptVars
<1>2. Registered'
  <2>1. PICK i \in DOMAIN sessions : sessions[i] = s /\ sessions' = RemoveAt(sessions, i)
    BY DEF closeSession
  <2>2. \A j \in DOMAIN sessions' : disposal'[sessions'[j]] = "live"
    <3> SUFFICES ASSUME NEW j \in DOMAIN sessions' PROVE disposal'[sessions'[j]] = "live"
      OBVIOUS
    <3> DEFINE k == IF j < i THEN j ELSE j + 1
    <3>1. /\ j \in 1..Len(sessions) - 1 /\ i \in 1..Len(sessions)
          /\ Len(sessions) \in Nat /\ DOMAIN sessions = 1..Len(sessions)
      <4>1. sessions' \in Seq(Sessions) /\ Len(sessions') = Len(sessions) - 1
        BY <2>1, Unregistered
      <4> QED
        BY <4>1 DEF RuntimeTypeOK
    <3>2. k \in DOMAIN sessions /\ k # i
      BY <3>1
    <3>3. sessions'[j] = sessions[k]
      BY <2>1, Unregistered
    <3> HIDE DEF k
    <3>4. sessions[k] # s /\ sessions[k] \in Sessions
      BY <2>1, <3>1, <3>2 DEF RuntimeTypeOK, IsInjective
    <3> QED
      BY <3>2, <3>3, <3>4 DEF closeSession, Registered, RuntimeTypeOK
  <2> QED
    BY <2>2 DEF closeSession, Registered, RuntimeTypeOK, promptVars
<1>3. ClosedByClose'
  BY DEF closeSession, promptVars, RuntimeTypeOK, ClosedByClose, Registered
<1>4. Asked'
  BY DEF closeSession, promptVars, RuntimeTypeOK, Asked
<1>5. Occupied'
  BY DEF closeSession, promptVars, RuntimeTypeOK, Occupied
<1>6. UnderWay'
  BY DEF closeSession, promptVars, RuntimeTypeOK, UnderWay
<1>7. Generated'
  BY DEF closeSession, promptVars, RuntimeTypeOK, Generated
<1>8. Claimed'
  BY DEF closeSession, promptVars, RuntimeTypeOK, Claimed
<1>9. ClosesWhatItFound'
  BY DEF closeSession, promptVars, RuntimeTypeOK, ClosesWhatItFound
<1>10. AbortsItsOwn'
  BY DEF closeSession, promptVars, RuntimeTypeOK, AbortsItsOwn
<1> QED
  BY <1>1, <1>2, <1>3, <1>4, <1>5, <1>6, <1>7, <1>8, <1>9, <1>10

LEMMA CreateSessionInv ==
    ASSUME RuntimeInv, NEW s \in Sessions, createSession(s)
    PROVE  RuntimeInv'
<1> USE RuntimeAssumption DEF RuntimeInv
<1>1. RuntimeTypeOK'
  <2>1. sessions' \in Seq(Sessions) /\ Len(sessions') <= MAX_ACTIVE_SESSIONS
    BY Evicting, RuntimeAssumption
  <2>2. \A i \in DOMAIN sessions : sessions[i] # s
    BY DEF createSession, Registered
  <2>3. IsInjective(sessions')
    <3>1. /\ Len(sessions) \in Nat /\ DOMAIN sessions = 1..Len(sessions)
          /\ \A i, j \in DOMAIN sessions : sessions[i] = sessions[j] => i = j
      BY DEF RuntimeTypeOK, IsInjective
    <3>2. CASE evicted = {}
      BY <2>1, <2>2, <3>1, <3>2, Evicting DEF IsInjective
    <3>3. CASE evicted # {}
      BY <2>1, <2>2, <3>1, <3>3, Evicting DEF IsInjective
    <3> QED
      BY <3>2, <3>3
  <2>4. disposal' \in [Sessions -> {"fresh", "live", "closing", "awaiting", "interrupting",
                                    "disposing", "disposed"}]
    BY DEF createSession, RuntimeTypeOK
  <2> QED
    BY <2>1, <2>3, <2>4 DEF RuntimeTypeOK, createSession, promptVars
<1>2. Registered'
  <2>1. /\ \A i \in DOMAIN sessions : sessions[i] # s /\ sessions[i] \in Sessions
        /\ Len(sessions) \in Nat /\ DOMAIN sessions = 1..Len(sessions)
        /\ \A i, j \in DOMAIN sessions : sessions[i] = sessions[j] => i = j
        /\ sessions' \in Seq(Sessions)
    BY Evicting DEF createSession, Registered, RuntimeTypeOK, IsInjective
  <2>2. ASSUME NEW i \in DOMAIN sessions', sessions'[i] # s
        PROVE  \E k \in DOMAIN sessions : sessions'[i] = sessions[k] /\ sessions[k] \notin evicted
    <3>1. CASE evicted = {}
      BY <2>1, <2>2, <3>1, Evicting
    <3>2. CASE evicted # {}
      <4>1. i \in 1..Len(sessions) - 1 /\ sessions'[i] = sessions[i + 1]
        BY <2>1, <2>2, <3>2, Evicting
      <4>2. i + 1 \in DOMAIN sessions /\ i + 1 # 1 /\ 1 \in DOMAIN sessions
        BY <2>1, <4>1
      <4>3. sessions[i + 1] \notin evicted
        BY <2>1, <3>2, <4>2, Evicting
      <4> QED
        BY <4>1, <4>2, <4>3
    <3> QED
      BY <3>1, <3>2
  <2>3. /\ disposal'[s] = "live"
        /\ \A o \in Sessions : o # s /\ o \notin evicted => disposal'[o] = disposal[o]
        /\ \A o \in Sessions : o # s /\ o \in evicted => disposal'[o] = "closing"
    BY EvictedAreLive DEF createSession
  <2>4. \A i \in DOMAIN sessions' : disposal'[sessions'[i]] = "live"
    BY <2>1, <2>2, <2>3 DEF Registered
  <2>5. \A o \in Sessions : disposal'[o] = "fresh" => disposal[o] = "fresh"
    BY <2>3
  <2> QED
    BY <2>4, <2>5 DEF createSession, Registered
<1>3. ClosedByClose'
  BY EvictedAreLive DEF createSession, ClosedByClose, RuntimeTypeOK
<1>4. Asked'
  BY DEF createSession, evicted, promptVars, RuntimeTypeOK, Asked
<1>5. Occupied'
  BY DEF createSession, evicted, promptVars, RuntimeTypeOK, Occupied
<1>6. UnderWay'
  BY DEF createSession, evicted, promptVars, RuntimeTypeOK, UnderWay
<1>7. Generated'
  BY DEF createSession, evicted, promptVars, RuntimeTypeOK, Generated
<1>8. Claimed'
  BY DEF createSession, evicted, promptVars, RuntimeTypeOK, Claimed
<1>9. ClosesWhatItFound'
  BY DEF createSession, evicted, promptVars, RuntimeTypeOK, ClosesWhatItFound
<1>10. AbortsItsOwn'
  BY DEF createSession, evicted, promptVars, RuntimeTypeOK, AbortsItsOwn
<1> QED
  BY <1>1, <1>2, <1>3, <1>4, <1>5, <1>6, <1>7, <1>8, <1>9, <1>10

-----------------------------------------------------------------------------
(* The invariant holds in every behaviour.                                      *)

LEMMA RuntimeInitInv == RuntimeInit => RuntimeInv
<1> SUFFICES ASSUME RuntimeInit PROVE RuntimeInv
  OBVIOUS
<1> USE RuntimeAssumption DEF RuntimeInit, IdleController
<1>1. sessions \in Seq(Sessions) /\ Len(sessions) = 0 /\ DOMAIN sessions = {}
  OBVIOUS
<1>2. RuntimeTypeOK
  BY <1>1 DEF RuntimeTypeOK, IsInjective, Outcomes
<1>3. Registered /\ ClosedByClose
  BY <1>1 DEF Registered, ClosedByClose
<1>4. Asked /\ Occupied /\ UnderWay
  BY DEF Asked, Occupied, UnderWay
<1>5. Generated /\ Claimed /\ ClosesWhatItFound /\ AbortsItsOwn
  BY DEF Generated, Claimed, ClosesWhatItFound, AbortsItsOwn
<1> QED
  BY <1>2, <1>3, <1>4, <1>5 DEF RuntimeInv

LEMMA StutterInv == ASSUME RuntimeInv, UNCHANGED runtimeVars PROVE RuntimeInv'
<1> USE DEF RuntimeInv, runtimeVars
<1>1. RuntimeTypeOK' /\ Registered' /\ ClosedByClose' /\ Asked' /\ Occupied'
  BY DEF RuntimeTypeOK, Registered, ClosedByClose, Asked, Occupied
<1>2. UnderWay' /\ Generated' /\ Claimed' /\ ClosesWhatItFound' /\ AbortsItsOwn'
  BY DEF UnderWay, Generated, Claimed, ClosesWhatItFound, AbortsItsOwn
<1> QED
  BY <1>1, <1>2

LEMMA RuntimeNextInv == RuntimeInv /\ [RuntimeNext]_runtimeVars => RuntimeInv'
<1> SUFFICES ASSUME RuntimeInv, [RuntimeNext]_runtimeVars PROVE RuntimeInv'
  OBVIOUS
<1>1. ASSUME NEW s \in Sessions, createSession(s) \/ closeSession(s) PROVE RuntimeInv'
  BY <1>1, CreateSessionInv, CloseSessionInv
<1>2. ASSUME NEW s \in Sessions, ofSession(s) PROVE RuntimeInv'
  BY <1>2, CloseInv, AwaitDoneInv, DisposalTimeoutInv, InterruptOutcomes, CutInv, SkipInv,
     DisposeSessionInv DEF ofSession
<1>3. ASSUME NEW s \in Sessions,
             cancelActive(s) \/ interruptCancelled(s) \/ abortFails(s) \/ releaseClaim(s)
      PROVE  RuntimeInv'
  BY <1>3, CancelActiveInv, InterruptCancelledInv, AbortFailsInv, ReleaseClaimInv
<1>4. ASSUME NEW p \in Prompts, NEW s \in Sessions, findSession(p, s) PROVE RuntimeInv'
  BY <1>4, FindSessionInv
<1>5. ASSUME NEW p \in Prompts, start(p) \/ generate(p) \/ settle(p) \/ disconnect(p)
      PROVE RuntimeInv'
  BY <1>5, StartOutcomes, TakeInv, RefuseInv, GenerateInv, SettleInv, DisconnectInv
<1>6. CASE runtimeRest \/ UNCHANGED runtimeVars
  BY <1>6, StutterInv DEF runtimeRest
<1> QED
  BY <1>1, <1>2, <1>3, <1>4, <1>5, <1>6 DEF RuntimeNext

\* The inductive invariant holds in every behaviour.
THEOREM RuntimeInvariance == RuntimeSpec => []RuntimeInv
  BY RuntimeInitInv, RuntimeNextInv, PTL DEF RuntimeSpec

\* Sessions are registered once and no more than MAX_ACTIVE_SESSIONS, and every variable
\* keeps its type.
THEOREM RuntimeTypeCorrectness == RuntimeSpec => []RuntimeTypeOK
<1>1. RuntimeInv => RuntimeTypeOK
  BY DEF RuntimeInv
<1> QED
  BY <1>1, RuntimeInvariance, PTL

\* An abort, which stops whatever the agent generates, never hits a turn that nobody
\* cancelled, whichever of cancelActive, disconnect and close sends it and whenever.
THEOREM AbortSafety == RuntimeSpec => []AbortsItsOwn
<1>1. RuntimeInv => AbortsItsOwn
  BY DEF RuntimeInv
<1> QED
  BY <1>1, RuntimeInvariance, PTL

-----------------------------------------------------------------------------
(* Every step of the runtime is a step of the turn service or none.             *)

\* A step that leaves disposals and controllers alone shows no session differently.
LEMMA SameSessions ==
    ASSUME UNCHANGED controller, \A s \in Sessions : disposal'[s] = disposal[s]
    PROVE  UNCHANGED service /\ UNCHANGED turn /\ UNCHANGED claimed
<1>1. UNCHANGED turn /\ UNCHANGED claimed
  BY DEF turn, claimed
<1>2. UNCHANGED service
  BY DEF service
<1> QED
  BY <1>1, <1>2

\* A claim on a session is what the service sees change.
LEMMA ClaimMade ==
    ASSUME NEW s \in Sessions, controller'[s].cancelling # NoPrompt,
           \A o \in Sessions \ {s} : controller'[o] = controller[o]
    PROVE  claimed' = [claimed EXCEPT ![s] = TRUE]
<1>1. \A o \in Sessions : (controller'[o].cancelling # NoPrompt) =
                          IF o = s THEN TRUE ELSE (controller[o].cancelling # NoPrompt)
  OBVIOUS
<1>2. [claimed EXCEPT ![s] = TRUE] =
        [o \in Sessions |-> IF o = s THEN TRUE ELSE (controller[o].cancelling # NoPrompt)]
  BY DEF claimed
<1> QED
  BY <1>1, <1>2 DEF claimed

LEMMA ClaimReleased ==
    ASSUME NEW s \in Sessions, controller'[s].cancelling = NoPrompt,
           \A o \in Sessions \ {s} : controller'[o] = controller[o]
    PROVE  claimed' = [claimed EXCEPT ![s] = FALSE]
<1>1. \A o \in Sessions : (controller'[o].cancelling # NoPrompt) =
                          IF o = s THEN FALSE ELSE (controller[o].cancelling # NoPrompt)
  OBVIOUS
<1>2. [claimed EXCEPT ![s] = FALSE] =
        [o \in Sessions |-> IF o = s THEN FALSE ELSE (controller[o].cancelling # NoPrompt)]
  BY DEF claimed
<1> QED
  BY <1>1, <1>2 DEF claimed

LEMMA CreateServes ==
    ASSUME RuntimeInv, NEW s \in Sessions, createSession(s)
    PROVE  Service!Open(s)
<1>1. \A o \in Sessions :
        /\ o = s => disposal[o] = "fresh" /\ disposal'[o] = "live"
        /\ o # s /\ o \notin evicted => disposal'[o] = disposal[o]
        /\ o # s /\ o \in evicted => disposal[o] = "live" /\ disposal'[o] = "closing"
  BY EvictedAreLive DEF createSession
<1>2. \A o \in Sessions :
        service[o] = (IF o = s THEN "fresh" ELSE service'[o]) /\ (o = s => service'[o] = "open")
  BY <1>1 DEF RuntimeInv, createSession, service, ClosedByClose
<1>3. service[s] = "fresh" /\ service' = [service EXCEPT ![s] = "open"]
  BY <1>2 DEF service
<1>4. UNCHANGED <<turn, claimed, answer>>
  BY DEF createSession, turn, claimed, answer, promptVars
<1> QED
  BY <1>3, <1>4 DEF Service!Open

LEMMA CloseSessionServes ==
    ASSUME RuntimeInv, NEW s \in Sessions, closeSession(s) PROVE UNCHANGED Service!turnVars
<1>1. disposal[s] = "live"
  BY DEF RuntimeInv, Registered, closeSession
<1>2. UNCHANGED service
  BY <1>1 DEF RuntimeInv, RuntimeTypeOK, closeSession, service
<1>3. UNCHANGED <<turn, claimed, answer>>
  BY DEF closeSession, turn, claimed, answer, promptVars
<1> QED
  BY <1>2, <1>3 DEF Service!turnVars

LEMMA CloseServes ==
    ASSUME RuntimeInv, NEW s \in Sessions, close(s)
    PROVE  Service!Close(s)
<1> USE DEF RuntimeInv
<1>1. ~controller[s].closed
  BY DEF close, ClosedByClose
<1>2. \A o \in Sessions :
        /\ o = s => /\ disposal[o] = "closing" /\ disposal'[o] \in {"disposing", "awaiting"}
                    /\ controller'[o].closed
        /\ o # s => disposal'[o] = disposal[o] /\ controller'[o] = controller[o]
  BY DEF RuntimeTypeOK, close
<1>3. service[s] = "open" /\ service' = [service EXCEPT ![s] = "closed"]
  BY <1>1, <1>2 DEF service
<1>4. UNCHANGED <<turn, claimed, answer>>
  BY DEF RuntimeTypeOK, close, turn, claimed, answer, promptVars
<1> QED
  BY <1>3, <1>4 DEF Service!Close

LEMMA DisposalServes ==
    ASSUME RuntimeInv, NEW s \in Sessions, awaitDone(s) \/ disposalTimeout(s) \/ skip(s)
    PROVE  UNCHANGED Service!turnVars
<1>1. UNCHANGED service
  BY DEF RuntimeInv, RuntimeTypeOK, awaitDone, closed, disposalTimeout, skip, service
<1>2. UNCHANGED <<turn, claimed, answer>>
  BY DEF awaitDone, disposalTimeout, skip, turn, claimed, answer, promptVars
<1> QED
  BY <1>1, <1>2 DEF Service!turnVars

LEMMA DisposeServes ==
    ASSUME RuntimeInv, NEW s \in Sessions, disposeSession(s) PROVE Service!Dispose(s)
<1> USE DEF RuntimeInv
<1>1. service[s] = "closed" /\ service' = [service EXCEPT ![s] = "disposed"]
  BY DEF RuntimeTypeOK, disposeSession, service, ClosedByClose
<1>2. turn[s] = NoPrompt \/ Service!ended(s)
  BY DEF RuntimeTypeOK, disposeSession, ClosesWhatItFound, turn, answer, Service!ended
<1>3. UNCHANGED <<turn, claimed, answer>>
  BY DEF disposeSession, turn, claimed, answer, promptVars
<1> QED
  BY <1>1, <1>2, <1>3 DEF Service!Dispose

LEMMA FindServes ==
    ASSUME RuntimeInv, NEW p \in Prompts, NEW s \in Sessions, findSession(p, s)
    PROVE  Service!Refuse(p) \/ UNCHANGED Service!turnVars
<1> USE DEF RuntimeInv
<1>1. UNCHANGED <<service, turn, claimed>>
  BY SameSessions DEF findSession, sessionVars
<1>2. operation[p] = "none" /\ answer[p] = "none"
  BY DEF RuntimeTypeOK, findSession, Asked, answer
<1>3. CASE Contains(sessions, s)
  <2>1. UNCHANGED answer
    BY <1>2, <1>3 DEF RuntimeTypeOK, findSession, answer
  <2> QED
    BY <1>1, <2>1 DEF Service!turnVars
<1>4. CASE ~Contains(sessions, s)
  <2>1. answer' = [answer EXCEPT ![p] = "refused"]
    BY <1>2, <1>4 DEF RuntimeTypeOK, findSession, answer
  <2> QED
    BY <1>1, <1>2, <2>1 DEF Service!Refuse
<1> QED
  BY <1>3, <1>4

LEMMA TakeServes ==
    ASSUME RuntimeInv, NEW p \in Prompts, NEW s \in Sessions, taken(p, s) PROVE Service!Take(s, p)
<1> USE DEF RuntimeInv
<1>1. service[s] = "open" /\ turn[s] = NoPrompt
  <2>1. ~controller[s].closed /\ controller[s].active = NoPrompt
    BY DEF taken
  <2>2. disposal[s] \notin {"fresh", "disposed"}
    BY <2>1 DEF RuntimeTypeOK, taken, ClosedByClose, Asked
  <2> QED
    BY <2>1, <2>2 DEF service, turn
<1>2. turn' = [turn EXCEPT ![s] = p]
  BY DEF RuntimeTypeOK, taken, turn
<1>3. answer[p] = "none" /\ answer' = [answer EXCEPT ![p] = "taken"]
  BY DEF RuntimeTypeOK, taken, Asked, answer
<1>4. UNCHANGED service
  BY DEF RuntimeTypeOK, taken, service, sessionVars
<1>5. UNCHANGED claimed
  BY DEF RuntimeTypeOK, taken, claimed
<1> QED
  BY <1>1, <1>2, <1>3, <1>4, <1>5 DEF Service!Take

LEMMA RefuseServes ==
    ASSUME RuntimeInv, NEW p \in Prompts, NEW why \in {"missing", "busy"}, refusedBy(p, why)
    PROVE  Service!Refuse(p)
<1> USE DEF RuntimeInv
<1>1. UNCHANGED <<service, turn, claimed>>
  BY SameSessions DEF refusedBy, sessionVars
<1>2. answer[p] = "none" /\ answer' = [answer EXCEPT ![p] = "refused"]
  BY DEF RuntimeTypeOK, refusedBy, Asked, answer
<1> QED
  BY <1>1, <1>2 DEF Service!Refuse

\* An operation that ends, by itself or by a disposal, is the end of the session's turn.
LEMMA EndServes ==
    ASSUME RuntimeInv, NEW s \in Sessions, NEW p \in Prompts, target[p] = s,
           operation[p] = "generating", NEW outcomes, ended(p, outcomes),
           \A o \in Sessions : disposal'[o] = disposal[o] \/
               {disposal[o], disposal'[o]} = {"interrupting", "disposing"}
    PROVE  Service!End(s)
<1> USE RuntimeAssumption DEF RuntimeInv
<1>1. turn[s] = p /\ answer[p] = "taken"
  BY DEF RuntimeTypeOK, UnderWay, turn, answer
<1>2. turn' = IF claimed[s] THEN turn ELSE [turn EXCEPT ![s] = NoPrompt]
  <2>1. CASE controller[s].cancelling = p
    <3>1. claimed[s] /\ controller' = controller
      BY <2>1 DEF ended, finishOperation, claimed
    <3> QED
      BY <3>1 DEF turn
  <2>2. CASE controller[s].cancelling # p
    <3>1. ~claimed[s]
      BY <1>1, <2>2 DEF RuntimeTypeOK, Claimed, turn, claimed
    <3>2. controller' = [controller EXCEPT ![s].active = NoPrompt]
      BY <1>1, <2>2 DEF ended, finishOperation, turn
    <3>3. turn' = [turn EXCEPT ![s] = NoPrompt]
      <4>1. \A o \in Sessions :
              controller'[o].active = IF o = s THEN NoPrompt ELSE controller[o].active
        BY <3>2 DEF RuntimeTypeOK
      <4> QED
        BY <4>1 DEF turn
    <3> QED
      BY <3>1, <3>3
  <2> QED
    BY <2>1, <2>2
<1>3. answer' = [answer EXCEPT ![p] = "ended"]
  BY <1>1 DEF RuntimeTypeOK, ended, answer
<1>4. \A o \in Sessions : /\ controller'[o].closed = controller[o].closed
                         /\ controller'[o].cancelling = controller[o].cancelling
  BY DEF RuntimeTypeOK, ended, finishOperation
<1>5. UNCHANGED claimed
  BY <1>4 DEF claimed
<1>6. UNCHANGED service
  BY <1>4 DEF service, ClosedByClose
<1> QED
  BY <1>1, <1>2, <1>3, <1>5, <1>6 DEF Service!End, Service!ended

LEMMA SettleServes ==
    ASSUME RuntimeInv, NEW p \in Prompts, settle(p) PROVE \E s \in Sessions : Service!End(s)
<1>1. PICK s \in Sessions : s = target[p]
  BY DEF RuntimeInv, Asked, settle
<1>2. PICK outcomes : ended(p, outcomes)
  BY DEF settle
<1> QED
  BY <1>1, <1>2, EndServes DEF settle, sessionVars

LEMMA CutServes ==
    ASSUME RuntimeInv, NEW s \in Sessions, NEW p \in Prompts, cut(s, p) PROVE Service!End(s)
<1>1. target[p] = s
  BY RuntimeAssumption DEF RuntimeInv, RuntimeTypeOK, Occupied, cut
<1>2. \A o \in Sessions : disposal'[o] = disposal[o] \/
               {disposal[o], disposal'[o]} = {"interrupting", "disposing"}
  BY DEF RuntimeInv, RuntimeTypeOK, cut
<1> QED
  BY <1>1, <1>2, EndServes DEF cut

LEMMA GenerateServes ==
    ASSUME RuntimeInv, NEW p \in Prompts, generate(p) PROVE UNCHANGED Service!turnVars
<1>1. UNCHANGED <<service, turn, claimed>>
  BY SameSessions DEF generate, sessionVars
<1>2. UNCHANGED answer
  BY DEF RuntimeInv, RuntimeTypeOK, generate, answer
<1> QED
  BY <1>1, <1>2 DEF Service!turnVars

LEMMA DisconnectServes ==
    ASSUME RuntimeInv, NEW p \in Prompts, disconnect(p) PROVE UNCHANGED Service!turnVars
<1>1. UNCHANGED <<service, turn, claimed>>
  BY SameSessions DEF disconnect, sessionVars
<1>2. UNCHANGED answer
  BY DEF RuntimeInv, RuntimeTypeOK, disconnect, answer
<1> QED
  BY <1>1, <1>2 DEF Service!turnVars

LEMMA CancelServes ==
    ASSUME RuntimeInv, NEW s \in Sessions, cancelActive(s)
    PROVE  Service!Cancel(s)
<1> USE RuntimeAssumption DEF RuntimeInv
<1>1. service[s] # "fresh" /\ turn[s] # NoPrompt
  <2>1. disposal[s] = "live"
    BY DEF cancelActive, Registered, Contains, RuntimeTypeOK
  <2> QED
    BY <2>1 DEF RuntimeTypeOK, cancelActive, service, turn
<1>2. ~claimed[s] /\ claimed' = [claimed EXCEPT ![s] = TRUE]
  <2>1. /\ controller'[s].cancelling # NoPrompt
        /\ \A o \in Sessions \ {s} : controller'[o] = controller[o]
    BY DEF RuntimeTypeOK, cancelActive
  <2>2. claimed' = [claimed EXCEPT ![s] = TRUE]
    BY <2>1, ClaimMade
  <2>3. ~claimed[s]
    BY DEF cancelActive, claimed
  <2> QED
    BY <2>2, <2>3
<1>3. UNCHANGED service /\ UNCHANGED turn /\ UNCHANGED answer
  BY DEF RuntimeTypeOK, cancelActive, service, turn, answer, sessionVars, promptVars
<1> QED
  BY <1>1, <1>2, <1>3 DEF Service!Cancel

LEMMA InterruptServes ==
    ASSUME NEW s \in Sessions, interruptCancelled(s) \/ abortFails(s)
    PROVE  UNCHANGED Service!turnVars
<1>1. UNCHANGED <<service, turn, claimed>>
  BY SameSessions DEF interruptCancelled, abortFails, sessionVars
<1>2. UNCHANGED answer
  BY DEF interruptCancelled, abortFails, answer, promptVars
<1> QED
  BY <1>1, <1>2 DEF Service!turnVars

LEMMA ReleaseServes ==
    ASSUME RuntimeInv, NEW s \in Sessions, releaseClaim(s)
    PROVE  Service!Release(s)
<1> USE RuntimeAssumption DEF RuntimeInv
<1>1. /\ controller[s].cancelling # NoPrompt /\ controller[s].cancelling = controller[s].active
      /\ controller[s].active \in Prompts
  BY DEF RuntimeTypeOK, releaseClaim, Claimed
<1>2. claimed[s] /\ claimed' = [claimed EXCEPT ![s] = FALSE]
  <2>1. /\ controller'[s].cancelling = NoPrompt
        /\ \A o \in Sessions \ {s} : controller'[o] = controller[o]
    BY ReleasedIs
  <2>2. claimed' = [claimed EXCEPT ![s] = FALSE]
    BY <2>1, ClaimReleased
  <2>3. claimed[s]
    BY <1>1 DEF claimed
  <2> QED
    BY <2>2, <2>3
<1>3. Service!ended(s) <=> operation[controller[s].cancelling] = "done"
  BY <1>1 DEF turn, answer, Service!ended
<1>4. turn' = IF Service!ended(s) THEN [turn EXCEPT ![s] = NoPrompt] ELSE turn
  <2>1. \A o \in Sessions :
          controller'[o].active = IF o = s
          /\ Service!ended(s) THEN NoPrompt ELSE controller[o].active
    BY <1>3, ReleasedIs
  <2> QED
    BY <2>1 DEF turn
<1>5. UNCHANGED service /\ UNCHANGED answer
  <2>1. \A o \in Sessions : controller'[o].closed = controller[o].closed
    BY ReleasedIs
  <2>2. UNCHANGED <<disposal, operation, request>>
    BY DEF releaseClaim, sessionVars, promptVars
  <2> QED
    BY <2>1, <2>2 DEF service, answer
<1> QED
  BY <1>2, <1>4, <1>5 DEF Service!Release

LEMMA StutterServes == UNCHANGED runtimeVars => UNCHANGED Service!turnVars
  BY DEF runtimeVars, Service!turnVars, service, turn, claimed, answer

LEMMA InitServes == RuntimeInit => Service!ServiceInit
<1> SUFFICES ASSUME RuntimeInit PROVE Service!ServiceInit
  OBVIOUS
<1>1. service = [s \in Sessions |-> "fresh"] /\ turn = [s \in Sessions |-> NoPrompt]
  BY DEF RuntimeInit, IdleController, service, turn
<1>2. claimed = [s \in Sessions |-> FALSE]
  <2>1. \A s \in Sessions : controller[s].cancelling = NoPrompt
    BY DEF RuntimeInit, IdleController
  <2> QED
    BY <2>1 DEF claimed
<1>3. answer = [p \in Prompts |-> "none"]
  BY DEF RuntimeInit, answer
<1> QED
  BY <1>1, <1>2, <1>3 DEF Service!ServiceInit

LEMMA NextServes ==
    RuntimeInv /\ [RuntimeNext]_runtimeVars => [Service!ServiceNext]_Service!turnVars
<1> SUFFICES ASSUME RuntimeInv, [RuntimeNext]_runtimeVars
             PROVE [Service!ServiceNext]_Service!turnVars
  OBVIOUS
<1> USE DEF Service!ServiceNext
<1>1. ASSUME NEW s \in Sessions, createSession(s) \/ closeSession(s)
      PROVE  [Service!ServiceNext]_Service!turnVars
  BY <1>1, CreateServes, CloseSessionServes
<1>2. ASSUME NEW s \in Sessions, ofSession(s) PROVE [Service!ServiceNext]_Service!turnVars
  BY <1>2, CloseServes, DisposalServes, InterruptOutcomes, CutServes, DisposeServes DEF ofSession
<1>3. ASSUME NEW s \in Sessions,
             cancelActive(s) \/ interruptCancelled(s) \/ abortFails(s) \/ releaseClaim(s)
      PROVE  [Service!ServiceNext]_Service!turnVars
  BY <1>3, CancelServes, InterruptServes, ReleaseServes
<1>4. ASSUME NEW p \in Prompts, NEW s \in Sessions, findSession(p, s)
      PROVE  [Service!ServiceNext]_Service!turnVars
  BY <1>4, FindServes
<1>5. ASSUME NEW p \in Prompts, start(p) \/ generate(p) \/ settle(p) \/ disconnect(p)
      PROVE  [Service!ServiceNext]_Service!turnVars
  BY <1>5, StartOutcomes, TakeServes, RefuseServes, GenerateServes, SettleServes, DisconnectServes
<1>6. CASE runtimeRest \/ UNCHANGED runtimeVars
  BY <1>6, StutterServes DEF runtimeRest
<1> QED
  BY <1>1, <1>2, <1>3, <1>4, <1>5, <1>6 DEF RuntimeNext

\* The safety half of IsTurnService: a session runs one turn at a time, none after its
\* close, each prompt is taken once, and no session is disposed of over a turn.
THEOREM ServiceSafety ==
    RuntimeSpec => Service!ServiceInit /\ [][Service!ServiceNext]_Service!turnVars
  BY InitServes, NextServes, RuntimeInvariance, PTL DEF RuntimeSpec
==============================================================================
