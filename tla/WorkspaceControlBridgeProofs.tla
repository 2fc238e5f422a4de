--------------------- MODULE WorkspaceControlBridgeProofs ---------------------
(* Theorems about WorkspaceControlBridge and the ControlBroker in it, for any    *)
(* commands, revocations, number of receipts and bounds: no request is forgotten *)
(* by the broker, no command takes effect twice while the page remembers it, and *)
(* no client is told what did not happen.                                        *)
EXTENDS WorkspaceControlBridge, SequenceTheorems, TLAPS

-----------------------------------------------------------------------------
(* The broker.                                                                  *)

\* What waits for a completion waits under the grant.
PendingIsOfGrant == \A r \in pending : requests[r].told = "waiting" /\ requests[r].under = grant

BrokerInv == BrokerTypeOK /\ NobodyIsForgotten /\ PendingIsOfGrant

\* The operations of the broker, whoever calls them.
BrokerNext ==
    \/ enable \/ disable
    \/ \E r \in Requests : submit(r)
    \/ \E g \in 0..MaxGrants, r \in Requests : takes(g, r)
    \/ \E r \in Requests, answer \in Answers : complete(r, answer)

-----------------------------------------------------------------------------
(* The bridge.                                                                  *)

\* What runNext holds of a command is one that was submitted, of a revocation also its
\* answer.
RunNextHolds(state) ==
    /\ state.at = "holding" => state.envelope \in Requests
    /\ state.at \in {"dispatching", "acknowledging"} => state.envelope \in Revocations
    /\ state.at = "acknowledging" => state.answer \in Answers

\* A fiber that rests or takes a command holds no permit.
FiberInv ==
    /\ fiber \in [Fibers -> FiberStates]
    /\ reconcilePermit \in Fibers \union {Nobody}
    /\ commandLaunchPermit \in Fibers \union {Nobody}
    /\ \A f \in Fibers : fiber[f].at \in {"idle", "taking", "holding"} =>
                            f \notin {reconcilePermit, commandLaunchPermit}
    /\ RunNextHolds(fiber["runNext"])

\* The types of the cache of receipts and of what is known of commands.
CacheTyped ==
    /\ receipts \in [Requests -> {"none", "accepted", "completed", "failed"}]
    /\ order \in Seq(Requests \union {Another}) /\ since \in [Requests -> 0..MAX_RECEIPTS]
    /\ forgotten \subseteq Requests

\* The types of all but the broker and the fibers.
RestTyped ==
    /\ CacheTyped
    /\ control \in BOOLEAN /\ enabled \in BOOLEAN /\ revocationInFlight \in BOOLEAN
    /\ ran \in [Requests -> Nat] /\ ended \in [Requests -> SUBSET Ends]
    /\ stale \subseteq Requests
    /\ activeCommandFibers \subseteq Runs
    /\ running \in [Runs -> RunStates]
    /\ toggles \in 0..MaxToggles /\ others \in 0..MaxOthers
    /\ disturbances \in 0..MaxDisturbances
    /\ revokes \in Nat /\ faults \in Nat /\ reloads \in Nat

\* The cache: the commands with a receipt are those in the order, each once, and as many
\* were remembered since each as stand behind it.  One that is not among them is outside
\* its window.
CacheInv ==
    /\ Len(order) <= MAX_RECEIPTS
    /\ \A i, j \in 1..Len(order) : order[i] = order[j] /\ order[i] # Another => i = j
    /\ \A r \in Requests : (receipts[r] = "none") <=> \A i \in 1..Len(order) : order[i] # r
    /\ \A i \in 1..Len(order) : order[i] # Another => since[order[i]] = Len(order) - i
    /\ \A r \in Requests : receipts[r] = "none" => since[r] = MAX_RECEIPTS

Busy(r) == \E run \in Runs : run[1] = r /\ running[run] \in Executing

\* The command permit: one command executes.  It has had no effect yet, or one.
OneExecutes ==
    /\ \A run1, run2 \in Runs :
          running[run1] \in Executing /\ running[run2] \in Executing => run1 = run2
    /\ \A run \in Runs : running[run] = "executing" => ran[run[1]] = 0
    /\ \A r \in Requests : ran[r] <= 1

\* A command that was not taken up, as far as the page knows.
Untouched(r) == r \in forgotten \/ (receipts[r] = "none" /\ ended[r] = {} /\ ~Busy(r))

\* What a receipt says of its command.
ReceiptSays(r) ==
    /\ receipts[r] = "none" => Untouched(r)
    /\ receipts[r] = "accepted" => Busy(r) \/ ended[r] \intersect {"interrupted", "unreadable"} # {}
    /\ receipts[r] = "completed" => "succeeded" \in ended[r]
    /\ receipts[r] = "failed" => "failed" \in ended[r]

ReceiptsSay == \A r \in Requests : ReceiptSays(r)

\* What an answer says of its command, for good: nothing can make it untrue.
Settled(r, answer) ==
    /\ answer = "succeeded" => ended[r] \intersect {"succeeded", "interrupted", "unreadable"} # {}
    /\ answer = "failed" => ended[r] \intersect {"failed", "unreadable"} # {}
    /\ answer = "conflict" => r \in forgotten \/ (r \in stale /\ Untouched(r))

AnswersAreSettled ==
    /\ \A run \in Runs : Settled(run[1], running[run])
    /\ fiber["runNext"].at = "acknowledging" =>
          Settled(fiber["runNext"].envelope, fiber["runNext"].answer)
    /\ \A r \in Requests : Settled(r, requests[r].told)

RunInv == OneExecutes /\ ReceiptsSay /\ AnswersAreSettled

Inv == BrokerInv /\ RestTyped /\ CacheInv /\ FiberInv /\ RunInv

-----------------------------------------------------------------------------
(* The broker keeps its invariant, whatever it is asked.                        *)

LEMMA BrokerInitInv == BrokerInit => BrokerInv
<1> SUFFICES ASSUME BrokerInit PROVE BrokerInv
  OBVIOUS
<1> USE DEF BrokerInit, NoGrant
<1>1. BrokerTypeOK
  BY ControlAssumption DEF BrokerTypeOK, RequestStates
<1>2. NobodyIsForgotten /\ PendingIsOfGrant
  BY DEF NobodyIsForgotten, PendingIsOfGrant
<1>3. QED
  BY <1>1, <1>2 DEF BrokerInv

\* A request that is told something stays one.
LEMMA RequestUpdate ==
    ASSUME NEW s \in RequestStates, NEW told \in {"nothing", "waiting"} \union Answers,
           NEW n \in 0..MaxSubmits
    PROVE  [s EXCEPT !.told = told, !.submits = n] \in RequestStates
  BY DEF RequestStates

\* The grant is withdrawn, or a new one takes its place: who waits is told.
LEMMA WithdrawInv ==
    ASSUME BrokerInv, NEW g \in 0..MaxGrants, NEW n \in 0..MaxGrants,
           grant' = g, grants' = n, queue' = <<>>, pending' = {}, requests' = failPending
    PROVE  BrokerInv'
<1>1. \A r \in Requests : requests'[r].told # "waiting" /\ requests'[r] \in RequestStates
  BY DEF BrokerInv, BrokerTypeOK, RequestStates, Answers, NobodyIsForgotten, failPending
<1>2. BrokerTypeOK'
  BY <1>1 DEF BrokerTypeOK, failPending
<1>3. NobodyIsForgotten' /\ PendingIsOfGrant'
  BY <1>1 DEF NobodyIsForgotten, PendingIsOfGrant
<1>4. QED
  BY <1>2, <1>3 DEF BrokerInv

LEMMA SubmitInv == ASSUME BrokerInv, NEW r \in Requests, submit(r) PROVE BrokerInv'
<1> USE DEF submit
<1>0. /\ requests[r] \in RequestStates /\ requests[r].submits + 1 \in 1..MaxSubmits
      /\ requests[r].told # "waiting" /\ r \notin pending
  BY ControlAssumption
  DEF BrokerInv, BrokerTypeOK, RequestStates, Answers, PendingIsOfGrant
<1>1. CASE accepted(r)
  <2>1. requests' = [requests EXCEPT ![r] = [told |-> "waiting", under |-> grant,
                                             submits |-> requests[r].submits + 1]]
    BY <1>1
  <2>2. BrokerTypeOK'
    <3>1. [told |-> "waiting", under |-> grant, submits |-> requests[r].submits + 1]
             \in RequestStates
      BY <1>0, ControlAssumption DEF BrokerInv, BrokerTypeOK, RequestStates
    <3>2. requests' \in [Requests -> RequestStates]
      BY <2>1, <3>1 DEF BrokerInv, BrokerTypeOK
    <3>3. QED
      BY <1>1, <3>2 DEF BrokerInv, BrokerTypeOK
  <2>4. NobodyIsForgotten' /\ PendingIsOfGrant'
    BY <1>0, <1>1, <2>1
    DEF BrokerInv, BrokerTypeOK, NobodyIsForgotten, PendingIsOfGrant
  <2>5. QED
    BY <2>2, <2>4 DEF BrokerInv
<1>2. CASE ~accepted(r)
  <2>1. requests' = [requests EXCEPT ![r] = [requests[r] EXCEPT
                         !.told = "unavailable", !.submits = requests[r].submits + 1]]
    BY <1>0, <1>2
  <2>2. BrokerTypeOK'
    <3>1. [requests[r] EXCEPT !.told = "unavailable", !.submits = requests[r].submits + 1]
             \in RequestStates
      <4>1. requests[r].submits + 1 \in 0..MaxSubmits /\ "unavailable" \in Answers
        BY <1>0 DEF Answers
      <4>2. QED
        BY <1>0, <4>1, RequestUpdate
    <3>2. requests' \in [Requests -> RequestStates]
      BY <2>1, <3>1 DEF BrokerInv, BrokerTypeOK
    <3>3. QED
      BY <1>2, <3>2 DEF BrokerInv, BrokerTypeOK
  <2>4. NobodyIsForgotten' /\ PendingIsOfGrant'
    BY <1>0, <1>2, <2>1
    DEF BrokerInv, BrokerTypeOK, RequestStates, NobodyIsForgotten, PendingIsOfGrant
  <2>5. QED
    BY <2>2, <2>4 DEF BrokerInv
<1>3. QED
  BY <1>1, <1>2

LEMMA TakesInv ==
    ASSUME BrokerInv, NEW g \in 0..MaxGrants, NEW r \in Requests, takes(g, r)
    PROVE  BrokerInv'
<1> USE DEF takes
<1>1. queue \in Seq(Requests) /\ queue # <<>>
  BY DEF BrokerInv, BrokerTypeOK
<1>2. queue' \in Seq(Requests)
  BY <1>1
<1>3. BrokerTypeOK' /\ NobodyIsForgotten' /\ PendingIsOfGrant'
  BY <1>2 DEF BrokerInv, BrokerTypeOK, NobodyIsForgotten, PendingIsOfGrant
<1>4. QED
  BY <1>3 DEF BrokerInv

LEMMA CompleteInv ==
    ASSUME BrokerInv, NEW r \in Requests, NEW answer \in Answers, complete(r, answer)
    PROVE  BrokerInv'
<1> USE DEF complete
<1>0. requests' = [requests EXCEPT ![r] = [requests[r] EXCEPT !.told = answer]]
  BY DEF BrokerInv, BrokerTypeOK
<1>1. BrokerTypeOK'
  BY <1>0 DEF BrokerInv, BrokerTypeOK, RequestStates
<1>2. answer # "waiting"
  BY DEF Answers
<1>3. NobodyIsForgotten' /\ PendingIsOfGrant'
  BY <1>0, <1>2 DEF BrokerInv, BrokerTypeOK, RequestStates, NobodyIsForgotten, PendingIsOfGrant
<1>4. QED
  BY <1>1, <1>3 DEF BrokerInv

LEMMA BrokerStepInv == ASSUME BrokerInv, [BrokerNext]_brokerVars PROVE BrokerInv'
<1>1. CASE enable
  <2>1. grants + 1 \in 0..MaxGrants
    BY <1>1, ControlAssumption DEF enable, BrokerInv, BrokerTypeOK
  <2>2. QED
    BY <1>1, <2>1, WithdrawInv DEF enable
<1>2. CASE disable
  <2>1. grants \in 0..MaxGrants /\ NoGrant \in 0..MaxGrants
    BY ControlAssumption DEF BrokerInv, BrokerTypeOK, NoGrant
  <2>2. QED
    BY <1>2, <2>1, WithdrawInv DEF disable, disableUnlocked
<1>3. ASSUME NEW r \in Requests, submit(r) PROVE BrokerInv'
  BY <1>3, SubmitInv
<1>4. ASSUME NEW g \in 0..MaxGrants, NEW r \in Requests, takes(g, r) PROVE BrokerInv'
  BY <1>4, TakesInv
<1>5. ASSUME NEW r \in Requests, NEW answer \in Answers, complete(r, answer) PROVE BrokerInv'
  BY <1>5, CompleteInv
<1>6. CASE UNCHANGED brokerVars
  BY <1>6 DEF brokerVars, BrokerInv, BrokerTypeOK, NobodyIsForgotten, PendingIsOfGrant
<1>7. QED
  BY <1>1, <1>2, <1>3, <1>4, <1>5, <1>6 DEF BrokerNext

-----------------------------------------------------------------------------
(* The bridge calls the broker by its operations only.                          *)

LEMMA BridgeCallsBroker ==
    ASSUME FiberInv, [Next]_vars PROVE [BrokerNext]_brokerVars
<1>1. ASSUME NEW f \in Fibers, bridge(f) PROVE [BrokerNext]_brokerVars
  BY <1>1 DEF bridge, reconcile, clearing, enabling, disabling, publishing, checking, confirm,
              revoking, withdrawing, BrokerNext
<1>2. CASE take
  <2>1. fiber["runNext"].grant \in 0..MaxGrants
    BY DEF FiberInv, Fibers, FiberStates
  <2>2. QED
    BY <1>2, <2>1 DEF take, brokerVars, BrokerNext
<1>3. CASE acknowledge
  <2>1. fiber["runNext"].envelope \in Requests /\ fiber["runNext"].answer \in Answers
    BY <1>3 DEF acknowledge, FiberInv, RunNextHolds, Requests
  <2>2. QED
    BY <1>3, <2>1 DEF acknowledge, brokerVars, BrokerNext
<1>4. CASE observe \/ ask \/ startTrackedEnvelope \/ revoke \/ dispatchRevocation \/ toggle
  BY <1>4 DEF observe, ask, startTrackedEnvelope, revoke, dispatchRevocation, toggle
<1>5. ASSUME NEW run \in Runs, claim(run) \/ runCommand(run) \/ dispatchCommand(run) \/ finish(run)
      PROVE  [BrokerNext]_brokerVars
  <2>1. run[1] \in Requests
    BY DEF Runs, Requests
  <2>2. QED
    BY <1>5, <2>1 DEF claim, runCommand, dispatchCommand, finish, BrokerNext
<1>6. ASSUME NEW r \in Requests, request(r) PROVE [BrokerNext]_brokerVars
  BY <1>6 DEF request, BrokerNext
<1>7. CASE revokeAtBroker \/ otherCommand \/ reload \/ UNCHANGED vars
  BY <1>7 DEF revokeAtBroker, otherCommand, reload, BrokerNext, vars
<1>8. QED
  BY <1>1, <1>2, <1>3, <1>4, <1>5, <1>6, <1>7 DEF Next, runNext

-----------------------------------------------------------------------------
(* The cache of receipts.                                                       *)

\* A command that is remembered anew goes to the end of the order; the first leaves it when
\* the cache is full.
LEMMA OrderEntered ==
    ASSUME CacheTyped, Len(order) <= MAX_RECEIPTS, NEW id \in Requests \union {Another},
           ~known(id), order' = enters(id)
    PROVE  \E d \in {0, 1} :
              /\ IF d = 0 THEN Len(order) < MAX_RECEIPTS ELSE Len(order) = MAX_RECEIPTS
              /\ order' \in Seq(Requests \union {Another}) /\ Len(order') = Len(order) + 1 - d
              /\ \A i \in 1..(Len(order) - d) : order'[i] = order[i + d]
              /\ order'[Len(order')] = id
<1>1. order \in Seq(Requests \union {Another}) /\ MAX_RECEIPTS \in Nat \ {0}
  BY BridgeAssumption DEF CacheTyped
<1>2. CASE Len(order) < MAX_RECEIPTS
  <2>1. order' = Append(order, id)
    BY <1>2 DEF enters
  <2>2. QED
    BY <1>1, <1>2, <2>1
<1>3. CASE Len(order) = MAX_RECEIPTS
  <2>1. order' = Append(Tail(order), id) /\ order # <<>>
    BY <1>1, <1>3 DEF enters
  <2>2. /\ Tail(order) \in Seq(Requests \union {Another}) /\ Len(Tail(order)) = Len(order) - 1
        /\ \A i \in 1..(Len(order) - 1) : Tail(order)[i] = order[i + 1]
    BY <1>1, <2>1
  <2>3. QED
    BY <1>1, <1>3, <2>1, <2>2
<1>4. QED
  BY <1>1, <1>2, <1>3

\* A receipt that is remembered is the command's; the others stay, or are dropped.
LEMMA Remembers ==
    ASSUME CacheTyped, CacheInv, NEW id \in Requests \union {Another},
           NEW receipt \in {"accepted", "completed", "failed"}, remember(id, receipt)
    PROVE  /\ CacheTyped' /\ CacheInv'
           /\ id \in Requests => receipts'[id] = receipt
           /\ \A r \in Requests \ {id} : \/ receipts'[r] = receipts[r]
                                         \/ receipts'[r] = "none" /\ r \in forgotten'
           /\ forgotten \subseteq forgotten'
<1> USE DEF CacheTyped
<1>0. /\ order \in Seq(Requests \union {Another}) /\ Another \notin Requests
      /\ MAX_RECEIPTS \in Nat \ {0}
      /\ \A r : r \in ToSet(order) <=> \E i \in 1..Len(order) : order[i] = r
      /\ order' = enters(id)
  <2>1. order \in Seq(Requests \union {Another}) /\ DOMAIN order = 1..Len(order)
    OBVIOUS
  <2>2. \A r : r \in ToSet(order) <=> \E i \in 1..Len(order) : order[i] = r
    BY <2>1 DEF ToSet
  <2>3. QED
    BY <2>1, <2>2, BridgeAssumption DEF remember
<1>1. /\ id \in Requests => receipts'[id] = receipt
      /\ \A r \in Requests \ {id} : receipts'[r] = IF r \in ToSet(order') THEN receipts[r] ELSE "none"
      /\ receipts' \in [Requests -> {"none", "accepted", "completed", "failed"}]
  <2>1. receipts' = [r \in Requests |-> IF r = id THEN receipt
                                       ELSE IF r \in ToSet(order') THEN receipts[r] ELSE "none"]
    BY DEF remember
  <2>2. ASSUME NEW r \in Requests
        PROVE  receipts'[r] = IF r = id THEN receipt
                              ELSE IF r \in ToSet(order') THEN receipts[r] ELSE "none"
    BY <2>1
  <2>3. ASSUME NEW r \in Requests
        PROVE  receipts'[r] \in {"none", "accepted", "completed", "failed"}
    BY <2>2
  <2>4. QED
    BY <2>1, <2>2, <2>3
<1>2. /\ forgotten' = forgotten \union ({r \in Requests : receipts[r] # "none"} \ ToSet(order'))
      /\ forgotten' \subseteq Requests
  BY DEF remember
<1>3. \A r \in Requests \ {id} : \/ receipts'[r] = receipts[r]
                                 \/ receipts'[r] = "none" /\ r \in forgotten'
  BY <1>1, <1>2
<1>4. CASE known(id)
  <2>1. order' = order /\ since' = since /\ id \in Requests /\ id \in ToSet(order)
    BY <1>0, <1>4 DEF enters, known, remember
  <2>2. \A r \in Requests : (receipts'[r] = "none") <=> (receipts[r] = "none")
    BY <1>0, <1>1, <2>1 DEF CacheInv
  <2>3. CacheTyped' /\ CacheInv'
    BY <1>1, <1>2, <2>1, <2>2 DEF CacheInv
  <2>4. QED
    BY <1>1, <1>2, <1>3, <2>3
<1>5. CASE ~known(id)
  <2>1. PICK d \in {0, 1} :
           /\ IF d = 0 THEN Len(order) < MAX_RECEIPTS ELSE Len(order) = MAX_RECEIPTS
           /\ order' \in Seq(Requests \union {Another}) /\ Len(order') = Len(order) + 1 - d
           /\ \A i \in 1..(Len(order) - d) : order'[i] = order[i + d]
           /\ order'[Len(order')] = id
    BY <1>0, <1>5, OrderEntered DEF CacheInv
  <2>2. /\ Len(order) \in Nat /\ Len(order) <= MAX_RECEIPTS
        /\ id # Another => \A i \in 1..Len(order) : order[i] # id
        /\ \A r : r \in ToSet(order') <=> \E i \in 1..Len(order') : order'[i] = r
    BY <1>0, <1>5, <2>1 DEF CacheInv, known, ToSet
  <2>3. since' = [r \in Requests |->
                   IF r = id THEN 0
                   ELSE IF since[r] = MAX_RECEIPTS THEN MAX_RECEIPTS ELSE since[r] + 1]
    BY <1>5 DEF remember
  <2>4. since' \in [Requests -> 0..MAX_RECEIPTS]
    <3>1. ASSUME NEW r \in Requests PROVE since'[r] \in 0..MAX_RECEIPTS
      <4>1. since[r] \in 0..MAX_RECEIPTS
        OBVIOUS
      <4>2. QED
        BY <1>0, <2>3, <4>1
    <3>2. QED
      BY <2>3, <3>1
  <2>5. Len(order') <= MAX_RECEIPTS
    BY <1>0, <2>1, <2>2
  <2>6. ASSUME NEW i \in 1..Len(order'), NEW j \in 1..Len(order'), order'[i] = order'[j],
               order'[i] # Another
        PROVE  i = j
    <3>1. CASE i = Len(order') /\ j = Len(order')
      BY <3>1
    <3>2. CASE i # Len(order') /\ j # Len(order')
      <4>0. i \in 1..(Len(order) - d) /\ j \in 1..(Len(order) - d)
        <5>1. /\ Len(order) \in Nat /\ d \in {0, 1} /\ Len(order') = Len(order) + 1 - d
              /\ i \in 1..Len(order') /\ j \in 1..Len(order')
              /\ i # Len(order') /\ j # Len(order')
          BY <2>1, <2>2, <3>2
        <5>2. QED
          BY ONLY <5>1
      <4>1. /\ i + d \in 1..Len(order) /\ order'[i] = order[i + d]
            /\ j + d \in 1..Len(order) /\ order'[j] = order[j + d]
        BY <2>1, <2>2, <4>0
      <4>2. i + d = j + d
        BY <2>6, <4>1 DEF CacheInv
      <4>3. QED
        BY <2>1, <4>2
    <3>3. CASE i = Len(order') /\ j # Len(order')
      <4>1. j + d \in 1..Len(order) /\ order'[j] = order[j + d] /\ order'[i] = id
        BY <2>1, <2>2, <3>3
      <4>2. QED
        BY <2>2, <2>6, <4>1
    <3>4. CASE i # Len(order') /\ j = Len(order')
      <4>1. i + d \in 1..Len(order) /\ order'[i] = order[i + d] /\ order'[j] = id
        BY <2>1, <2>2, <3>4
      <4>2. QED
        BY <2>2, <2>6, <4>1
    <3>5. QED
      BY <3>1, <3>2, <3>3, <3>4
  <2>7. ASSUME NEW i \in 1..Len(order'), order'[i] # Another
        PROVE  since'[order'[i]] = Len(order') - i
    <3>1. order'[i] \in Requests
      BY <2>1, <2>7
    <3>2. CASE i = Len(order')
      <4>1. order'[i] = id /\ id \in Requests
        BY <2>1, <3>1, <3>2
      <4>2. since'[id] = 0
        BY <2>3, <4>1
      <4>3. QED
        BY <2>1, <2>2, <3>2, <4>1, <4>2
    <3>3. CASE i # Len(order')
      <4>1. i + d \in 1..Len(order) /\ order'[i] = order[i + d]
        BY <2>1, <2>2, <3>3
      <4>2. order'[i] # id
        BY <2>2, <2>7, <4>1
      <4>3. since[order'[i]] = Len(order) - (i + d)
        BY <2>7, <4>1 DEF CacheInv
      <4>4. since[order'[i]] # MAX_RECEIPTS
        BY <1>0, <2>1, <2>2, <4>1, <4>3
      <4>5. since'[order'[i]] = since[order'[i]] + 1
        BY <2>3, <3>1, <4>2, <4>4
      <4>6. QED
        BY <2>1, <2>2, <4>3, <4>5
    <3>4. QED
      BY <3>2, <3>3
  <2>8. ASSUME NEW r \in Requests
        PROVE  /\ (receipts'[r] = "none") <=> \A i \in 1..Len(order') : order'[i] # r
               /\ receipts'[r] = "none" => since'[r] = MAX_RECEIPTS
    <3>1. CASE r = id
      <4>1. receipts'[r] # "none" /\ order'[Len(order')] = r /\ Len(order') \in 1..Len(order')
        BY <1>0, <1>1, <2>1, <2>2, <3>1
      <4>2. QED
        BY <4>1
    <3>2. CASE r # id
      <4>1. (receipts[r] = "none") <=> \A i \in 1..Len(order) : order[i] # r
        BY DEF CacheInv
      <4>2. ASSUME NEW i \in 1..Len(order'), order'[i] = r PROVE receipts[r] # "none"
        <5>1. i + d \in 1..Len(order) /\ order[i + d] = r
          BY <2>1, <2>2, <3>2, <4>2
        <5>2. QED
          BY <4>1, <5>1
      <4>3. (receipts'[r] = "none") <=> \A i \in 1..Len(order') : order'[i] # r
        BY <1>1, <2>2, <3>2, <4>2
      <4>4. ASSUME receipts'[r] = "none" PROVE since'[r] = MAX_RECEIPTS
        <5>1. CASE receipts[r] = "none"
          BY <2>3, <3>2, <5>1 DEF CacheInv
        <5>2. CASE receipts[r] # "none"
          <6>1. PICK i \in 1..Len(order) : order[i] = r
            BY <4>1, <5>2
          <6>2. CASE i = 1 /\ d = 1
            <7>1. since[r] = Len(order) - 1 /\ Len(order) = MAX_RECEIPTS
              BY <1>0, <2>1, <6>1, <6>2 DEF CacheInv
            <7>2. QED
              BY <1>0, <2>3, <3>2, <7>1
          <6>3. CASE i > d
            <7>1. i - d \in 1..(Len(order) - d) /\ i - d \in 1..Len(order')
              BY <2>1, <2>2, <6>3
            <7>2. order'[i - d] = order[(i - d) + d]
              BY <2>1, <7>1
            <7>3. (i - d) + d = i
              BY <2>1, <6>1
            <7>4. QED
              BY <4>3, <4>4, <6>1, <7>1, <7>2, <7>3
          <6>4. QED
            BY <2>1, <6>1, <6>2, <6>3
        <5>3. QED
          BY <5>1, <5>2
      <4>5. QED
        BY <4>3, <4>4
    <3>3. QED
      BY <3>1, <3>2
  <2>9. CacheTyped' /\ CacheInv'
    BY <1>1, <1>2, <2>1, <2>4, <2>5, <2>6, <2>7, <2>8 DEF CacheInv
  <2>10. QED
    BY <1>1, <1>2, <1>3, <2>9
<1>6. QED
  BY <1>4, <1>5

LEMMA RemembersOther ==
    ASSUME CacheTyped, CacheInv, rememberOther
    PROVE  /\ CacheTyped' /\ CacheInv'
           /\ \A r \in Requests : \/ receipts'[r] = receipts[r]
                                  \/ receipts'[r] = "none" /\ r \in forgotten'
           /\ forgotten \subseteq forgotten'
<1>1. remember(Another, "accepted") /\ Another \notin Requests
  BY BridgeAssumption DEF rememberOther
<1>2. QED
  BY <1>1, Remembers

LEMMA CacheStays ==
    ASSUME UNCHANGED cache
    PROVE  (CacheTyped => CacheTyped') /\ (CacheInv => CacheInv')
  BY DEF cache, CacheTyped, CacheInv

-----------------------------------------------------------------------------
(* The types of the bridge, and what its fibers hold.                           *)

LEMMA RunNextType == "runNext" \in Fibers /\ "observer" \in Fibers
  BY DEF Fibers

\* One fiber goes somewhere, and takes or gives back permits.
LEMMA FiberMoves ==
    ASSUME FiberInv, NEW f \in Fibers, NEW state \in FiberStates,
           fiber' = [fiber EXCEPT ![f] = state],
           reconcilePermit' \in {reconcilePermit, f, Nobody},
           commandLaunchPermit' \in {commandLaunchPermit, f, Nobody},
           state.at \in {"idle", "taking", "holding"} =>
               f \notin {reconcilePermit', commandLaunchPermit'},
           RunNextHolds(state)
    PROVE  FiberInv'
<1>1. fiber \in [Fibers -> FiberStates]
  BY DEF FiberInv
<1>2. fiber'[f] = state /\ \A g \in Fibers \ {f} : fiber'[g] = fiber[g]
  BY <1>1
<1>3. Nobody \notin Fibers
  BY DEF Nobody, Fibers
<1>4. ASSUME NEW g \in Fibers, fiber'[g].at \in {"idle", "taking", "holding"}
      PROVE  g \notin {reconcilePermit', commandLaunchPermit'}
  BY <1>2, <1>3, <1>4 DEF FiberInv
<1>5. RunNextHolds(fiber'["runNext"])
  BY <1>2, RunNextType DEF FiberInv
<1>6. FiberInv'
  BY <1>4, <1>5 DEF FiberInv, RunNextHolds
<1>7. QED
  BY <1>1, <1>4, <1>6 DEF FiberInv

\* A fiber stays one when some of its fields are set.
LEMMA FiberAt ==
    ASSUME NEW state \in FiberStates, NEW at \in Places
    PROVE  [state EXCEPT !.at = at] \in FiberStates
  BY DEF FiberStates

LEMMA FiberAnswers ==
    ASSUME NEW state \in FiberStates, NEW at \in Places, NEW answer \in Answers \union {"none"}
    PROVE  [state EXCEPT !.at = at, !.answer = answer] \in FiberStates
  BY DEF FiberStates

LEMMA FiberHolds ==
    ASSUME NEW state \in FiberStates, NEW at \in Places, NEW envelope \in Requests
    PROVE  [state EXCEPT !.at = at, !.envelope = envelope] \in FiberStates
  BY DEF FiberStates, Requests

LEMMA RestingState == AtRest \in FiberStates
  BY ControlAssumption DEF AtRest, FiberStates, Places, NoGrant

\* It goes to a place where it works for the bridge, not for a command.
LEMMA FiberGoes ==
    ASSUME FiberInv, NEW f \in Fibers,
           NEW place \in Places \ {"idle", "taking", "holding", "dispatching", "acknowledging"},
           goes(f, place),
           reconcilePermit' \in {reconcilePermit, f, Nobody},
           commandLaunchPermit' \in {commandLaunchPermit, f, Nobody}
    PROVE  FiberInv'
<1> DEFINE state == [fiber[f] EXCEPT !.at = place]
<1>1. fiber[f] \in FiberStates /\ fiber' = [fiber EXCEPT ![f] = state]
  BY DEF FiberInv, goes
<1>2. state \in FiberStates /\ state.at = place
  BY <1>1 DEF FiberStates
<1>3. RunNextHolds(state)
  BY <1>2 DEF RunNextHolds
<1> HIDE DEF state
<1>4. QED
  BY <1>1, <1>2, <1>3, FiberMoves

\* It returns, with no permit.
LEMMA FiberReturns ==
    ASSUME FiberInv, NEW f \in Fibers, returns(f)
    PROVE  /\ FiberInv'
           /\ fiber'["runNext"].at \in {"idle", "checking"} \/ fiber'["runNext"] = fiber["runNext"]
<1> DEFINE state == IF fiber[f].answer = "unavailable" THEN [AtRest EXCEPT !.at = "checking"]
                    ELSE AtRest
<1>1. fiber' = [fiber EXCEPT ![f] = state]
  BY DEF FiberInv, returns
<1>2. state \in FiberStates /\ state.at \in {"idle", "checking"}
  BY ControlAssumption DEF FiberStates, AtRest, Places, NoGrant, Answers
<1>3. RunNextHolds(state)
  BY <1>2 DEF RunNextHolds
<1>4. /\ reconcilePermit' \in {reconcilePermit, Nobody} /\ reconcilePermit' # f
      /\ commandLaunchPermit' \in {commandLaunchPermit, Nobody} /\ commandLaunchPermit' # f
  BY DEF returns, Released, Nobody, Fibers
<1> HIDE DEF state
<1>5. fiber'["runNext"].at \in {"idle", "checking"} \/ fiber'["runNext"] = fiber["runNext"]
  BY <1>1, <1>2, RunNextType DEF FiberInv
<1>6. QED
  BY <1>1, <1>2, <1>3, <1>4, <1>5, FiberMoves

\* What a step leaves of the types when it moves no fiber.
LEMMA FibersStay ==
    ASSUME FiberInv, UNCHANGED <<fiber, reconcilePermit, commandLaunchPermit>>
    PROVE  FiberInv'
  BY DEF FiberInv, RunNextHolds

LEMMA Interrupted ==
    ASSUME RestTyped, NEW runs, interrupts(runs)
    PROVE  /\ running' \in [Runs -> RunStates] /\ ended' \in [Requests -> SUBSET Ends]
           /\ \A run \in Runs : running'[run] = IF run \in runs THEN "none" ELSE running[run]
           /\ \A r \in Requests : ended'[r] =
                 IF \E run \in runs : run[1] = r /\ running[run] \in Executing
                 THEN ended[r] \union {"interrupted"} ELSE ended[r]
<1>1. running' \in [Runs -> RunStates]
  BY DEF RestTyped, interrupts, RunStates
<1>2. ended' \in [Requests -> SUBSET Ends]
  <2>1. ASSUME NEW r \in Requests PROVE ended[r] \subseteq Ends /\ "interrupted" \in Ends
    BY DEF RestTyped, Ends
  <2>2. QED
    BY <2>1 DEF interrupts
<1>3. QED
  BY <1>1, <1>2 DEF interrupts

LEMMA Faulted ==
    ASSUME RestTyped, UNCHANGED <<revokes, reloads>>, fault \/ UNCHANGED faults
    PROVE  /\ disturbances' \in 0..MaxDisturbances
           /\ revokes' \in Nat /\ faults' \in Nat /\ reloads' \in Nat
  BY BridgeAssumption DEF RestTyped, fault, disturbances

LEMMA BridgeTypes ==
    ASSUME RestTyped, CacheInv, FiberInv, NEW f \in Fibers, bridge(f)
    PROVE  RestTyped' /\ FiberInv' /\ CacheInv'
<1> USE DEF controller, did, bounds, permits
<1>1. CASE reconcile(f)
  <2>1. running' \in [Runs -> RunStates] /\ ended' \in [Requests -> SUBSET Ends]
    <3>1. CASE UNCHANGED <<running, ended>>
      BY <3>1 DEF RestTyped
    <3>2. CASE interrupts(activeCommandFibers)
      BY <3>2, Interrupted
    <3>3. QED
      BY <1>1, <3>1, <3>2 DEF reconcile
  <2>2. RestTyped' /\ CacheInv'
    BY <1>1, <2>1, CacheStays DEF reconcile, RestTyped, disturbances
  <2>3. CASE /\ control /\ reconcilePermit' = f /\ UNCHANGED commandLaunchPermit
             /\ goes(f, IF enabled THEN "publishing" ELSE "enabling")
    <3>1. (IF enabled THEN "publishing" ELSE "enabling") \in
             Places \ {"idle", "taking", "holding", "dispatching", "acknowledging"}
      BY DEF Places
    <3>2. QED
      BY <2>2, <2>3, <3>1, FiberGoes
  <2>4. CASE reconcilePermit' = f /\ goes(f, "clearing") /\ UNCHANGED commandLaunchPermit
    BY <2>2, <2>4, FiberGoes DEF Places
  <2>5. CASE returns(f)
    BY <2>2, <2>5, FiberReturns
  <2>6. QED
    BY <1>1, <2>3, <2>4, <2>5 DEF reconcile
<1>2. CASE clearing(f)
  <2>1. RestTyped' /\ CacheInv'
    BY <1>2, CacheStays DEF clearing, RestTyped, disturbances
  <2>2. QED
    BY <1>2, <2>1, FiberGoes DEF clearing, Places
<1>3. CASE enabling(f) \/ disabling(f)
  <2>1. RestTyped' /\ CacheInv'
    BY <1>3, Faulted, CacheStays DEF enabling, disabling, RestTyped
  <2>2. QED
    BY <1>3, <2>1, FiberReturns DEF enabling, disabling
<1>4. CASE publishing(f)
  <2>1. RestTyped' /\ CacheInv'
    BY <1>4, Faulted, CacheStays DEF publishing, RestTyped
  <2>2. QED
    BY <1>4, <2>1, FiberReturns, FiberGoes DEF publishing, Places
<1>5. CASE checking(f)
  <2>1. RestTyped' /\ CacheInv'
    BY <1>5, Faulted, CacheStays DEF checking, RestTyped
  <2>2. QED
    BY <1>5, <2>1, FiberReturns, FiberGoes DEF checking, Places
<1>6. CASE confirm(f)
  <2>1. running' \in [Runs -> RunStates] /\ ended' \in [Requests -> SUBSET Ends]
    BY <1>6, Interrupted DEF confirm, interruptActiveCommands
  <2>2. RestTyped' /\ CacheInv'
    BY <1>6, <2>1, CacheStays DEF confirm, interruptActiveCommands, RestTyped, disturbances
  <2>3. QED
    BY <1>6, <2>2, FiberGoes DEF confirm, Places
<1>7. CASE revoking(f)
  <2>1. CacheTyped' /\ CacheInv'
    BY <1>7, RemembersOther DEF revoking, RestTyped
  <2>2. RestTyped'
    BY <1>7, <2>1 DEF revoking, RestTyped, disturbances
  <2>3. QED
    BY <1>7, <2>1, <2>2, FiberGoes DEF revoking, Places
<1>8. CASE withdrawing(f)
  <2>1. RestTyped' /\ CacheInv'
    BY <1>8, Faulted, CacheStays DEF withdrawing, RestTyped
  <2>2. QED
    BY <1>8, <2>1, FiberReturns DEF withdrawing
<1>9. QED
  BY <1>1, <1>2, <1>3, <1>4, <1>5, <1>6, <1>7, <1>8 DEF bridge

LEMMA EndsTyped ==
    ASSUME RestTyped, NEW r \in Requests, NEW how \in Ends, ends(r, how)
    PROVE  /\ ended' \in [Requests -> SUBSET Ends] /\ how \in ended'[r]
           /\ \A q \in Requests : ended[q] \subseteq ended'[q] /\ (q # r => ended'[q] = ended[q])
  BY DEF RestTyped, ends

LEMMA RanTyped ==
    ASSUME RestTyped, NEW r \in Requests, NEW n \in Nat, ran' = [ran EXCEPT ![r] = n]
    PROVE  /\ ran' \in [Requests -> Nat] /\ ran'[r] = n
           /\ \A q \in Requests \ {r} : ran'[q] = ran[q]
  BY DEF RestTyped

LEMMA EffectsTyped ==
    ASSUME RestTyped, NEW r \in Requests PROVE effectsBefore(r) \in Nat /\ ran[r] \in Nat
  BY DEF RestTyped, effectsBefore

LEMMA RevocationTypes ==
    ASSUME RestTyped, CacheInv, NEW d \in Requests,
           UNCHANGED <<enabled, revocationInFlight, activeCommandFibers, running, bounds, faults>>,
           \/ /\ remember(d, "completed") /\ ends(d, "succeeded") /\ UNCHANGED stale
              /\ ran' = [ran EXCEPT ![d] = effectsBefore(d) + 1]
              /\ control' = FALSE
           \/ conflicts(d) /\ UNCHANGED control
           \/ UNCHANGED controller
    PROVE  RestTyped' /\ CacheInv'
<1> USE DEF bounds
<1>1. CASE /\ remember(d, "completed") /\ ends(d, "succeeded") /\ UNCHANGED stale
           /\ ran' = [ran EXCEPT ![d] = effectsBefore(d) + 1]
           /\ control' = FALSE
  <2>1. CacheTyped' /\ CacheInv'
    BY <1>1, Remembers DEF RestTyped
  <2>2. ended' \in [Requests -> SUBSET Ends]
    BY <1>1, EndsTyped DEF Ends
  <2>3. effectsBefore(d) + 1 \in Nat
    BY EffectsTyped
  <2>4. ran' \in [Requests -> Nat]
    BY <1>1, <2>3, RanTyped
  <2>5. QED
    BY <1>1, <2>1, <2>2, <2>4 DEF RestTyped, disturbances
<1>2. CASE conflicts(d) /\ UNCHANGED control
  BY <1>2, CacheStays DEF conflicts, did, RestTyped, disturbances
<1>3. CASE UNCHANGED controller
  BY <1>3, CacheStays DEF controller, did, RestTyped, disturbances
<1>4. QED
  BY <1>1, <1>2, <1>3

LEMMA RunNextTypes ==
    ASSUME BrokerInv, RestTyped, CacheInv, FiberInv, runNext
    PROVE  RestTyped' /\ FiberInv' /\ CacheInv'
<1> USE DEF permits
<1>0. /\ fiber["runNext"] \in FiberStates /\ RunNextHolds(fiber["runNext"])
      /\ AtRest \in FiberStates
  BY RunNextType, ControlAssumption
  DEF FiberInv, AtRest, FiberStates, Places, NoGrant, Answers
<1>1. CASE ask
  <2> DEFINE state == IF grant = NoGrant THEN [fiber["runNext"] EXCEPT !.at = "checking"]
                      ELSE [fiber["runNext"] EXCEPT !.at = "taking", !.grant = grant]
  <2>1. state \in FiberStates /\ state.at \in {"checking", "taking"}
    BY <1>0 DEF FiberStates, Places, BrokerInv, BrokerTypeOK
  <2>2. fiber' = [fiber EXCEPT !["runNext"] = state] /\ RunNextHolds(state)
    BY <1>1, <2>1 DEF ask, RunNextHolds
  <2>3. "runNext" \notin {reconcilePermit', commandLaunchPermit'}
    BY <1>1, RunNextType DEF ask, FiberInv
  <2> HIDE DEF state
  <2>4. FiberInv'
    BY <1>1, <2>1, <2>2, <2>3, RunNextType, FiberMoves DEF ask
  <2>5. QED
    BY <1>1, <2>4, CacheStays DEF ask, RestTyped, controller, did, bounds, disturbances
<1>2. CASE take
  <2>1. "runNext" \notin {reconcilePermit', commandLaunchPermit'}
    BY <1>2, RunNextType DEF take, FiberInv
  <2>1a. UNCHANGED <<reconcilePermit, commandLaunchPermit>>
    BY <1>2 DEF take
  <2>2. RestTyped' /\ CacheInv'
    BY <1>2, Faulted, CacheStays DEF take, RestTyped, controller, did, bounds
  <2>3. ASSUME NEW r \in Requests,
               fiber' = [fiber EXCEPT !["runNext"] = [AtRest EXCEPT !.at = "holding", !.envelope = r]]
        PROVE  FiberInv'
    <3> DEFINE state == [AtRest EXCEPT !.at = "holding", !.envelope = r]
    <3>1. state \in FiberStates
      BY RestingState, FiberHolds DEF Places
    <3>2. state.at = "holding" /\ state.envelope = r
      BY DEF AtRest
    <3>3. RunNextHolds(state)
      BY <3>2 DEF RunNextHolds
    <3> HIDE DEF state
    <3>4. fiber' = [fiber EXCEPT !["runNext"] = state]
      BY <2>3 DEF state
    <3>5. QED
      BY <2>1, <2>1a, <3>1, <3>3, <3>4, RunNextType, FiberMoves
  <2>4. CASE fiber' = [fiber EXCEPT !["runNext"] = [AtRest EXCEPT !.at = "checking"]]
    <3> DEFINE state == [AtRest EXCEPT !.at = "checking"]
    <3>1. state \in FiberStates /\ RunNextHolds(state) /\ state.at = "checking"
      BY RestingState, FiberAt DEF AtRest, Places, RunNextHolds
    <3> HIDE DEF state
    <3>2. fiber' = [fiber EXCEPT !["runNext"] = state]
      BY <2>4 DEF state
    <3>3. QED
      BY <2>1, <2>2, <2>1a, <3>1, <3>2, RunNextType, FiberMoves
  <2>5. QED
    BY <1>2, <2>2, <2>3, <2>4 DEF take
<1>3. CASE startTrackedEnvelope
  <2>1. PICK run \in Runs : /\ running' = [running EXCEPT ![run] = "started"]
                            /\ activeCommandFibers' = activeCommandFibers \union {run}
    BY <1>3 DEF startTrackedEnvelope
  <2>2. running' \in [Runs -> RunStates]
    BY <2>1 DEF RestTyped, RunStates
  <2>3. RestTyped' /\ CacheInv'
    BY <1>3, <2>1, <2>2, CacheStays
    DEF startTrackedEnvelope, RestTyped, controller, did, bounds, disturbances
  <2>4. "runNext" \notin {reconcilePermit', commandLaunchPermit'}
    BY <1>3, RunNextType DEF startTrackedEnvelope, FiberInv
  <2>5. RunNextHolds(AtRest)
    BY DEF RunNextHolds, AtRest
  <2>6. QED
    BY <1>0, <1>3, <2>3, <2>4, <2>5, RunNextType, FiberMoves DEF startTrackedEnvelope
<1>4. CASE revoke
  <2> DEFINE state == [fiber["runNext"] EXCEPT !.at = "dispatching"]
  <2>1. running' \in [Runs -> RunStates] /\ ended' \in [Requests -> SUBSET Ends]
    BY <1>4, Interrupted DEF revoke, interruptActiveCommands
  <2>1a. RestTyped' /\ CacheInv'
    BY <1>4, <2>1, CacheStays DEF revoke, interruptActiveCommands, RestTyped, bounds, disturbances
  <2>2. state \in FiberStates /\ RunNextHolds(state) /\ state.at = "dispatching"
    BY <1>0, <1>4 DEF revoke, FiberStates, Places, RunNextHolds
  <2>3. fiber' = [fiber EXCEPT !["runNext"] = state]
    BY <1>4 DEF revoke, goes, FiberInv
  <2> HIDE DEF state
  <2>4. QED
    BY <1>4, <2>1a, <2>2, <2>3, RunNextType, FiberMoves DEF revoke
<1>5. CASE dispatchRevocation
  <2> DEFINE d == fiber["runNext"].envelope
  <2>1. d \in Requests
    BY <1>0, <1>5 DEF dispatchRevocation, RunNextHolds, Requests
  <2>2. PICK answer \in Answers :
          /\ \/ /\ remember(d, "completed") /\ ends(d, "succeeded") /\ UNCHANGED stale
                /\ ran' = [ran EXCEPT ![d] = effectsBefore(d) + 1]
                /\ control' = FALSE
             \/ conflicts(d) /\ UNCHANGED control
             \/ UNCHANGED controller
          /\ fiber' = [fiber EXCEPT !["runNext"] = [@ EXCEPT !.at = "acknowledging", !.answer = answer]]
    BY <1>5 DEF dispatchRevocation
  <2>3. RestTyped' /\ CacheInv'
    BY <1>5, <2>1, <2>2, RevocationTypes DEF dispatchRevocation
  <2> DEFINE state == [fiber["runNext"] EXCEPT !.at = "acknowledging", !.answer = answer]
  <2>4. state \in FiberStates /\ RunNextHolds(state) /\ state.at = "acknowledging"
    BY <1>0, <1>5 DEF dispatchRevocation, FiberStates, Places, RunNextHolds
  <2>5. fiber' = [fiber EXCEPT !["runNext"] = state]
    BY <2>2 DEF FiberInv
  <2> HIDE DEF state
  <2>6. QED
    BY <1>5, <2>3, <2>4, <2>5, RunNextType, FiberMoves DEF dispatchRevocation
<1>6. CASE acknowledge
  <2>1. PICK answer \in {"none", "unavailable"} :
          fiber' = [fiber EXCEPT !["runNext"] =
                      [AtRest EXCEPT !.at = "reconcile", !.answer = answer]]
    BY <1>6 DEF acknowledge
  <2> DEFINE state == [AtRest EXCEPT !.at = "reconcile", !.answer = answer]
  <2>2. state \in FiberStates
    BY <2>1, RestingState, FiberAnswers DEF Places, Answers
  <2>2a. state.at = "reconcile" /\ RunNextHolds(state)
    BY DEF AtRest, RunNextHolds
  <2>3. RestTyped' /\ CacheInv'
    BY <1>6, Faulted, CacheStays DEF acknowledge, RestTyped, controller, did, bounds
  <2> HIDE DEF state
  <2>4. fiber' = [fiber EXCEPT !["runNext"] = state]
    BY <2>1 DEF state
  <2>5. QED
    BY <1>6, <2>2, <2>2a, <2>3, <2>4, RunNextType, FiberMoves DEF acknowledge
<1>7. QED
  BY <1>1, <1>2, <1>3, <1>4, <1>5, <1>6 DEF runNext

-----------------------------------------------------------------------------
(* What commands did, and what is said of it.                                  *)

\* What the broker tells when nobody completes a command.
LEMMA BrokerTells ==
    ASSUME BrokerInv,
           \/ enable \/ disable \/ UNCHANGED brokerVars
           \/ \E r \in Requests : submit(r)
           \/ \E g \in 0..MaxGrants, r \in Requests : takes(g, r)
    PROVE  \A r \in Requests :
              requests'[r].told \in {requests[r].told, "waiting", "unavailable"}
<1>1. CASE enable \/ disable
  BY <1>1 DEF enable, disable, disableUnlocked, failPending, BrokerInv, BrokerTypeOK,
     RequestStates
<1>2. ASSUME NEW r \in Requests, submit(r)
      PROVE  \A q \in Requests : requests'[q].told \in {requests[q].told, "waiting", "unavailable"}
  <2>1. requests[r] \in RequestStates /\ requests \in [Requests -> RequestStates]
    BY DEF BrokerInv, BrokerTypeOK
  <2>2. CASE accepted(r)
    <3>1. requests' = [requests EXCEPT ![r] = [told |-> "waiting", under |-> grant,
                                               submits |-> requests[r].submits + 1]]
      BY <1>2, <2>2 DEF submit
    <3>2. QED
      BY <2>1, <3>1
  <2>3. CASE ~accepted(r)
    <3>1. requests' = [requests EXCEPT ![r] = [requests[r] EXCEPT
                         !.told = "unavailable", !.submits = requests[r].submits + 1]]
      BY <1>2, <2>3 DEF submit
    <3>2. QED
      BY <2>1, <3>1 DEF RequestStates
  <2>4. QED
    BY <2>2, <2>3
<1>3. ASSUME NEW g \in 0..MaxGrants, NEW r \in Requests, takes(g, r)
      PROVE  \A q \in Requests : requests'[q].told = requests[q].told
  BY <1>3 DEF takes
<1>4. CASE UNCHANGED brokerVars
  BY <1>4 DEF brokerVars
<1>5. QED
  BY <1>1, <1>2, <1>3, <1>4

LEMMA CompletionTells ==
    ASSUME BrokerInv, NEW r \in Requests, NEW answer \in Answers, complete(r, answer)
    PROVE  /\ requests'[r].told = answer
           /\ \A q \in Requests \ {r} : requests'[q].told = requests[q].told
  BY DEF complete, BrokerInv, BrokerTypeOK, RequestStates

\* What was said of a command stays so while its history only grows.
LEMMA SaidStays ==
    ASSUME NEW r \in Requests, ended[r] \subseteq ended'[r], r \in forgotten => r \in forgotten',
           r \in stale /\ Untouched(r) => r \in forgotten' \/ (r \in stale' /\ Untouched(r)')
    PROVE  \A answer : Settled(r, answer) => Settled(r, answer)'
  BY DEF Settled

\* A step keeps what is said when nothing that was said becomes untrue, and what it says
\* itself is true.
LEMMA StepSays ==
    ASSUME RunInv, OneExecutes', ReceiptsSay',
           \A r \in Requests : \A answer : Settled(r, answer) => Settled(r, answer)',
           \A run \in Runs : running'[run] = running[run] \/ Settled(run[1], running[run])',
           \A r \in Requests : requests'[r].told = requests[r].told \/ Settled(r, requests[r].told)',
           \/ fiber'["runNext"].at # "acknowledging"
           \/ fiber'["runNext"] = fiber["runNext"] /\ fiber["runNext"].envelope \in Requests
           \/ Settled(fiber["runNext"].envelope, fiber["runNext"].answer)'
    PROVE  RunInv'
<1>1. ASSUME NEW run \in Runs PROVE Settled(run[1], running[run])'
  <2>1. run[1] \in Requests /\ Settled(run[1], running[run])
    BY DEF RunInv, AnswersAreSettled, Runs, Requests
  <2>2. CASE running'[run] = running[run]
    <3>1. Settled(run[1], running[run]) => Settled(run[1], running'[run])
      BY <2>2
    <3> DEFINE answer == running[run]
    <3>2. \A said : Settled(run[1], said) => Settled(run[1], said)'
      BY <2>1
    <3>3. PICK said : said = running[run]
      OBVIOUS
    <3>4. Settled(run[1], said)'
      BY <2>1, <3>2, <3>3
    <3>5. QED
      BY <2>2, <3>3, <3>4 DEF Settled, Untouched, Busy
  <2>3. QED
    BY <2>2
<1>2. ASSUME NEW r \in Requests PROVE Settled(r, requests[r].told)'
  <2>1. CASE requests'[r].told = requests[r].told
    <3>1. PICK said : said = requests[r].told
      OBVIOUS
    <3>2. Settled(r, said)'
      BY <3>1 DEF RunInv, AnswersAreSettled
    <3>3. QED
      BY <2>1, <3>1, <3>2 DEF Settled, Untouched, Busy
  <2>2. QED
    BY <2>1
<1>3. ASSUME fiber'["runNext"].at = "acknowledging"
      PROVE  Settled(fiber["runNext"].envelope, fiber["runNext"].answer)'
  <2>1. CASE fiber'["runNext"] = fiber["runNext"] /\ fiber["runNext"].envelope \in Requests
    <3>1. PICK r \in Requests : r = fiber["runNext"].envelope
      BY <2>1
    <3>2. PICK said : said = fiber["runNext"].answer
      OBVIOUS
    <3>3. Settled(r, said)'
      BY <1>3, <2>1, <3>1, <3>2 DEF RunInv, AnswersAreSettled
    <3>4. QED
      BY <2>1, <3>1, <3>2, <3>3 DEF Settled, Untouched, Busy
  <2>2. QED
    BY <1>3, <2>1
<1>4. QED
  BY <1>1, <1>2, <1>3 DEF RunInv, AnswersAreSettled

\* What the broker tells: what a fiber completes its command with, or nothing of the command.
LEMMA RequestsSay ==
    ASSUME Inv,
           \/ enable \/ disable \/ UNCHANGED brokerVars
           \/ \E r \in Requests : submit(r)
           \/ \E g \in 0..MaxGrants, r \in Requests : takes(g, r)
           \/ \E r \in Requests, answer \in Answers :
                 complete(r, answer) /\ Settled(r, answer)'
    PROVE  \A r \in Requests :
              requests'[r].told = requests[r].told \/ Settled(r, requests[r].told)'
<1>1. CASE \/ enable \/ disable \/ UNCHANGED brokerVars
           \/ \E r \in Requests : submit(r)
           \/ \E g \in 0..MaxGrants, r \in Requests : takes(g, r)
  <2>1. ASSUME NEW r \in Requests, requests'[r].told \in {"waiting", "unavailable"}
        PROVE  Settled(r, requests[r].told)'
    BY <2>1 DEF Settled
  <2>2. QED
    BY <1>1, <2>1, BrokerTells DEF Inv
<1>2. ASSUME NEW r \in Requests, NEW answer \in Answers, complete(r, answer), Settled(r, answer)'
      PROVE  \A q \in Requests :
                requests'[q].told = requests[q].told \/ Settled(q, requests[q].told)'
  <2>1. /\ requests'[r].told = answer
        /\ \A q \in Requests \ {r} : requests'[q].told = requests[q].told
    BY <1>2, CompletionTells DEF Inv
  <2>2. Settled(r, requests[r].told)'
    BY <1>2, <2>1 DEF Settled, Untouched, Busy
  <2>3. QED
    BY <2>1, <2>2
<1>3. QED
  BY <1>1, <1>2

\* In a step in which no command begins or ends nothing becomes untrue.
LEMMA QuietSays ==
    ASSUME Inv, UNCHANGED <<cache, did, stale>>,
           \A run \in Runs : \/ running'[run] = running[run]
                             \/ running[run] \notin Executing /\ running'[run] \in {"none", "started"}
    PROVE  /\ OneExecutes' /\ ReceiptsSay'
           /\ \A r \in Requests : \A answer : Settled(r, answer) => Settled(r, answer)'
           /\ \A run \in Runs : running'[run] = running[run] \/ Settled(run[1], running[run])'
<1> USE DEF cache, did
<1>1. \A run \in Runs : /\ running'[run] \in Executing <=> running[run] \in Executing
                        /\ running'[run] \in Executing => running'[run] = running[run]
  BY DEF Executing
<1>2. \A r : Busy(r)' <=> Busy(r)
  BY <1>1 DEF Busy
<1>3. OneExecutes'
  BY <1>1 DEF Inv, RunInv, OneExecutes, Executing
<1>4. \A r \in Requests : Untouched(r)' <=> Untouched(r)
  BY <1>2 DEF Untouched
<1>5. ReceiptsSay'
  BY <1>2, <1>4 DEF Inv, RunInv, ReceiptsSay, ReceiptSays
<1>6. \A r \in Requests : \A answer : Settled(r, answer) => Settled(r, answer)'
  BY <1>4, SaidStays
<1>7. \A run \in Runs : running'[run] \in {"none", "started"} => Settled(run[1], running[run])'
  BY DEF Settled
<1>8. QED
  BY <1>3, <1>5, <1>6, <1>7

LEMMA QuietStep ==
    ASSUME Inv, UNCHANGED <<cache, did, stale>>,
           \A run \in Runs : \/ running'[run] = running[run]
                             \/ running[run] \notin Executing /\ running'[run] \in {"none", "started"},
           \/ enable \/ disable \/ UNCHANGED brokerVars
           \/ \E r \in Requests : submit(r)
           \/ \E g \in 0..MaxGrants, r \in Requests : takes(g, r)
           \/ \E r \in Requests, answer \in Answers :
                 complete(r, answer) /\ Settled(r, answer),
           \/ fiber'["runNext"].at # "acknowledging"
           \/ fiber'["runNext"] = fiber["runNext"]
    PROVE  RunInv'
<1>1. /\ OneExecutes' /\ ReceiptsSay'
      /\ \A r \in Requests : \A answer : Settled(r, answer) => Settled(r, answer)'
      /\ \A run \in Runs : running'[run] = running[run] \/ Settled(run[1], running[run])'
  BY QuietSays
<1>2. \A r \in Requests : requests'[r].told = requests[r].told \/ Settled(r, requests[r].told)'
  BY <1>1, RequestsSay
<1>3. fiber["runNext"].at = "acknowledging" => fiber["runNext"].envelope \in Requests
  BY DEF Inv, FiberInv, RunNextHolds, Requests
<1>4. \/ fiber'["runNext"].at # "acknowledging"
      \/ fiber'["runNext"] = fiber["runNext"] /\ fiber["runNext"].envelope \in Requests
  BY <1>3
<1>5. QED
  BY <1>1, <1>2, <1>4, StepSays DEF Inv

\* A command that is interrupted may have had its effect: nothing is said of it that this
\* makes untrue.
LEMMA InterruptSays ==
    ASSUME Inv, NEW runs \in SUBSET Runs, interrupts(runs), UNCHANGED <<cache, ran, stale>>,
           UNCHANGED brokerVars,
           \/ fiber'["runNext"].at # "acknowledging"
           \/ fiber'["runNext"] = fiber["runNext"]
    PROVE  RunInv'
<1>1. /\ \A run \in Runs : running'[run] = IF run \in runs THEN "none" ELSE running[run]
      /\ \A r \in Requests : ended'[r] =
            IF \E run \in runs : run[1] = r /\ running[run] \in Executing
            THEN ended[r] \union {"interrupted"} ELSE ended[r]
  BY Interrupted DEF Inv
<1>2. \A run \in Runs : running'[run] \in Executing => running'[run] = running[run]
  BY <1>1 DEF Executing
<1>3. \A r : Busy(r)' => Busy(r)
  BY <1>2 DEF Busy
<1>4. \A r \in Requests : /\ ended[r] \subseteq ended'[r]
                          /\ ~Busy(r) => ended'[r] = ended[r]
                          /\ Busy(r) /\ ~Busy(r)' => "interrupted" \in ended'[r]
  <2>1. ASSUME NEW r \in Requests
        PROVE  ended[r] \subseteq ended'[r] /\ (~Busy(r) => ended'[r] = ended[r])
    BY <1>1 DEF Busy
  <2>2. ASSUME NEW r \in Requests, Busy(r), ~Busy(r)' PROVE "interrupted" \in ended'[r]
    <3>1. PICK run \in Runs : run[1] = r /\ running[run] \in Executing
      BY <2>2 DEF Busy
    <3>2. running'[run] \notin Executing
      BY <2>2, <3>1 DEF Busy, Executing
    <3>3. run \in runs
      BY <1>1, <3>1, <3>2
    <3>4. QED
      BY <1>1, <3>1, <3>3
  <2>3. QED
    BY <2>1, <2>2
<1>5. OneExecutes'
  BY <1>2 DEF Inv, RunInv, OneExecutes, Executing
<1>6. \A r \in Requests : Untouched(r) => Untouched(r)'
  BY <1>3, <1>4 DEF Untouched, cache
<1>7. ReceiptsSay'
  BY <1>4, <1>6 DEF Inv, RunInv, ReceiptsSay, ReceiptSays, cache
<1>8. \A r \in Requests : \A answer : Settled(r, answer) => Settled(r, answer)'
  BY <1>4, <1>6, SaidStays DEF cache
<1>9. \A run \in Runs : running'[run] = running[run] \/ Settled(run[1], running[run])'
  BY <1>1 DEF Settled
<1>10. \A r \in Requests : requests'[r].told = requests[r].told
  BY DEF brokerVars
<1>11. fiber["runNext"].at = "acknowledging" => fiber["runNext"].envelope \in Requests
  BY DEF Inv, FiberInv, RunNextHolds, Requests
<1>12. \/ fiber'["runNext"].at # "acknowledging"
       \/ fiber'["runNext"] = fiber["runNext"] /\ fiber["runNext"].envelope \in Requests
  BY <1>11
<1>13. QED
  BY <1>5, <1>7, <1>8, <1>9, <1>10, <1>12, StepSays DEF Inv

\* Another command makes the page forget one at most.
LEMMA OtherSays ==
    ASSUME Inv, rememberOther, UNCHANGED <<did, stale, running, brokerVars>>,
           \/ fiber'["runNext"].at # "acknowledging"
           \/ fiber'["runNext"] = fiber["runNext"]
    PROVE  RunInv'
<1>1. /\ \A r \in Requests : \/ receipts'[r] = receipts[r]
                             \/ receipts'[r] = "none" /\ r \in forgotten'
      /\ forgotten \subseteq forgotten'
  BY RemembersOther DEF Inv, RestTyped
<1>2. \A r : Busy(r)' <=> Busy(r)
  BY DEF Busy
<1>3. OneExecutes'
  BY DEF Inv, RunInv, OneExecutes, did
<1>4. \A r \in Requests : Untouched(r) => Untouched(r)'
  BY <1>1, <1>2 DEF Untouched, did
<1>5. ASSUME NEW r \in Requests PROVE ReceiptSays(r)'
  <2>1. CASE receipts'[r] = receipts[r]
    BY <1>2, <1>4, <2>1 DEF Inv, RunInv, ReceiptsSay, ReceiptSays, did
  <2>2. CASE receipts'[r] = "none" /\ r \in forgotten'
    BY <2>2 DEF ReceiptSays, Untouched
  <2>3. QED
    BY <1>1, <2>1, <2>2
<1>6. ReceiptsSay'
  BY <1>5 DEF ReceiptsSay
<1>7. \A r \in Requests : \A answer : Settled(r, answer) => Settled(r, answer)'
  BY <1>1, <1>4, SaidStays DEF did
<1>8. \A r \in Requests : requests'[r].told = requests[r].told
  BY DEF brokerVars
<1>9. fiber["runNext"].at = "acknowledging" => fiber["runNext"].envelope \in Requests
  BY DEF Inv, FiberInv, RunNextHolds, Requests
<1>10. \/ fiber'["runNext"].at # "acknowledging"
       \/ fiber'["runNext"] = fiber["runNext"] /\ fiber["runNext"].envelope \in Requests
  BY <1>9
<1>11. QED
  BY <1>3, <1>6, <1>7, <1>8, <1>10, StepSays DEF Inv

LEMMA BridgeSays == ASSUME Inv, NEW f \in Fibers, bridge(f) PROVE RunInv'
<1> USE DEF controller
<1>1. fiber'["runNext"].at # "acknowledging" \/ fiber'["runNext"] = fiber["runNext"]
  <2>1. CASE returns(f)
    BY <2>1, FiberReturns DEF Inv
  <2>2. ASSUME NEW place \in Places \ {"acknowledging"}, goes(f, place)
        PROVE  fiber'["runNext"].at # "acknowledging" \/ fiber'["runNext"] = fiber["runNext"]
    BY <2>2, RunNextType DEF goes, Inv, FiberInv, FiberStates
  <2>3. returns(f) \/ \E place \in Places \ {"acknowledging"} : goes(f, place)
    BY DEF bridge, reconcile, clearing, enabling, disabling, publishing, checking, confirm,
           revoking, withdrawing, Places
  <2>4. QED
    BY <2>1, <2>2, <2>3
<1>2. CASE reconcile(f)
  <2>1. CASE UNCHANGED <<running, ended>>
    BY <1>1, <1>2, <2>1, QuietStep DEF reconcile, did
  <2>2. CASE interrupts(activeCommandFibers)
    <3>1. activeCommandFibers \in SUBSET Runs /\ UNCHANGED <<cache, ran, stale, brokerVars>>
      BY <1>2 DEF reconcile, Inv, RestTyped
    <3>2. QED
      BY <1>1, <2>2, <3>1, InterruptSays
  <2>3. QED
    BY <1>2, <2>1, <2>2 DEF reconcile
<1>3. CASE clearing(f) \/ enabling(f) \/ disabling(f) \/ publishing(f) \/ checking(f) \/ withdrawing(f)
  <2>1. UNCHANGED <<cache, did, stale, running>>
    BY <1>3 DEF clearing, enabling, disabling, publishing, checking, withdrawing
  <2>2. enable \/ disable \/ UNCHANGED brokerVars
    BY <1>3 DEF clearing, enabling, disabling, publishing, checking, withdrawing
  <2>3. QED
    BY <1>1, <2>1, <2>2, QuietStep
<1>4. CASE confirm(f)
  <2>1. /\ interrupts(activeCommandFibers) /\ UNCHANGED <<cache, ran, stale, brokerVars>>
        /\ activeCommandFibers \in SUBSET Runs
    BY <1>4 DEF confirm, interruptActiveCommands, Inv, RestTyped
  <2>2. QED
    BY <1>1, <2>1, InterruptSays
<1>5. CASE revoking(f)
  BY <1>1, <1>5, OtherSays DEF revoking
<1>6. QED
  BY <1>2, <1>3, <1>4, <1>5 DEF bridge

LEMMA AnsweredIs ==
    ASSUME CacheTyped, NEW r \in Requests
    PROVE  /\ answered(r) = "none" <=> receipts[r] = "none"
           /\ answered(r) = "failed" <=> receipts[r] = "failed"
           /\ answered(r) \in {"none", "failed", "succeeded"}
  BY DEF answered, CacheTyped

\* An answer drawn from the receipt is settled while no command executes.
LEMMA AnsweredIsSettled ==
    ASSUME Inv, NEW r \in Requests, permitFree PROVE Settled(r, answered(r))
<1>1. ~Busy(r) /\ ReceiptSays(r)
  BY DEF permitFree, Busy, Inv, RunInv, ReceiptsSay
<1>2. receipts[r] \in {"none", "accepted", "completed", "failed"}
  BY DEF Inv, RestTyped, CacheTyped
<1>3. QED
  BY <1>1, <1>2 DEF ReceiptSays, answered, Settled

\* A command that is taken up while none executes has had no effect in its window, and
\* nothing that was said of it says that it was not taken up, unless the page forgot.
LEMMA TakenUp ==
    ASSUME Inv, NEW r \in Requests, answered(r) = "none"
    PROVE  receipts[r] = "none" /\ effectsBefore(r) = 0 /\ Untouched(r)
<1>1. receipts[r] = "none"
  BY AnsweredIs DEF Inv, RestTyped
<1>2. QED
  BY <1>1 DEF Inv, RunInv, CacheInv, effectsBefore, ReceiptsSay, ReceiptSays

\* A refusal makes the command stale and changes nothing else that is said.
LEMMA ConflictSays ==
    ASSUME Inv, NEW r \in Requests, conflicts(r),
           \A run \in Runs : running'[run] \in Executing <=> running[run] \in Executing,
           \A run \in Runs : running'[run] \in Executing => running'[run] = running[run]
    PROVE  /\ OneExecutes' /\ ReceiptsSay'
           /\ \A q \in Requests : \A answer : Settled(q, answer) => Settled(q, answer)'
           /\ Settled(r, "conflict")'
<1>1. Untouched(r) /\ stale' = stale \union {r} /\ UNCHANGED <<cache, did>>
  BY TakenUp DEF conflicts
<1>2. \A q : Busy(q)' <=> Busy(q)
  BY DEF Busy
<1>3. \A q : Untouched(q)' <=> Untouched(q)
  BY <1>1, <1>2 DEF Untouched, cache, did
<1>4. OneExecutes'
  BY <1>1 DEF Inv, RunInv, OneExecutes, Executing, did
<1>5. ReceiptsSay'
  BY <1>1, <1>2, <1>3 DEF Inv, RunInv, ReceiptsSay, ReceiptSays, cache, did
<1>6. \A q \in Requests : \A answer : Settled(q, answer) => Settled(q, answer)'
  BY <1>1, <1>3, SaidStays DEF cache, did
<1>7. Settled(r, "conflict")'
  BY <1>1, <1>3 DEF Settled
<1>8. QED
  BY <1>4, <1>5, <1>6, <1>7

\* A command is remembered: one that executes no longer, or that begins.
LEMMA RememberedSays ==
    ASSUME Inv, NEW r \in Requests, NEW receipt \in {"accepted", "completed", "failed"},
           remember(r, receipt), ReceiptSays(r)',
           \A q \in Requests : ended[q] \subseteq ended'[q] /\ (q # r => ended'[q] = ended[q]),
           \A q \in Requests \ {r} : ~Busy(q) /\ ~Busy(q)',
           UNCHANGED stale, r \in stale /\ Untouched(r) => r \in forgotten
    PROVE  /\ ReceiptsSay'
           /\ \A q \in Requests : \A answer : Settled(q, answer) => Settled(q, answer)'
<1>1. /\ \A q \in Requests \ {r} : \/ receipts'[q] = receipts[q]
                                   \/ receipts'[q] = "none" /\ q \in forgotten'
      /\ forgotten \subseteq forgotten'
  BY Remembers DEF Inv, RestTyped
<1>2. ASSUME NEW q \in Requests, q # r, Untouched(q) PROVE Untouched(q)'
  BY <1>1, <1>2 DEF Untouched
<1>3. ASSUME NEW q \in Requests, q # r PROVE ReceiptSays(q)'
  <2>1. CASE receipts'[q] = receipts[q]
    <3>1. ReceiptSays(q)
      BY DEF Inv, RunInv, ReceiptsSay
    <3>2. QED
      BY <1>2, <1>3, <2>1, <3>1 DEF ReceiptSays
  <2>2. CASE receipts'[q] = "none" /\ q \in forgotten'
    BY <2>2 DEF ReceiptSays, Untouched
  <2>3. QED
    BY <1>1, <1>3, <2>1, <2>2
<1>4. ASSUME NEW q \in Requests PROVE \A answer : Settled(q, answer) => Settled(q, answer)'
  <2>1. CASE q = r
    BY <1>1, <2>1, SaidStays
  <2>2. CASE q # r
    BY <1>1, <1>2, <2>2, SaidStays
  <2>3. QED
    BY <2>1, <2>2
<1>5. ReceiptsSay'
  BY <1>3 DEF ReceiptsSay
<1>6. QED
  BY <1>4, <1>5

LEMMA RevocationSays == ASSUME Inv, dispatchRevocation PROVE RunInv'
<1>0. PICK d \in Requests : d = fiber["runNext"].envelope
  BY DEF dispatchRevocation, Inv, FiberInv, RunNextHolds, Requests
<1>1. permitFree /\ UNCHANGED <<brokerVars, running>>
  BY DEF dispatchRevocation
<1>2. PICK answer \in Answers :
        /\ \/ /\ answer = "succeeded" /\ answered(d) = "none" /\ d \notin stale
              /\ remember(d, "completed") /\ ends(d, "succeeded") /\ UNCHANGED stale
              /\ ran' = [ran EXCEPT ![d] = effectsBefore(d) + 1]
              /\ control' = FALSE
           \/ answer = "conflict" /\ conflicts(d) /\ UNCHANGED control
           \/ answer = answered(d) /\ UNCHANGED controller
        /\ fiber' = [fiber EXCEPT !["runNext"] = [@ EXCEPT !.at = "acknowledging", !.answer = answer]]
  BY <1>0 DEF dispatchRevocation
<1>3. fiber'["runNext"].envelope = d /\ fiber'["runNext"].answer = answer
  BY <1>0, <1>2, RunNextType DEF Inv, FiberInv, FiberStates
<1>4. /\ \A run \in Runs : running'[run] \notin Executing /\ running[run] \notin Executing
      /\ \A r : ~Busy(r) /\ ~Busy(r)'
  BY <1>1 DEF permitFree, Busy
<1>5. ASSUME \A r \in Requests : \A said : Settled(r, said) => Settled(r, said)',
             Settled(d, answer)', ReceiptsSay', OneExecutes'
      PROVE  RunInv'
  <2>1. Settled(fiber["runNext"].envelope, fiber["runNext"].answer)'
    BY <1>3, <1>5 DEF Settled, Untouched, Busy
  <2>2. /\ \A r \in Requests : requests'[r].told = requests[r].told
        /\ \A run \in Runs : running'[run] = running[run]
    BY <1>1 DEF brokerVars
  <2>3. QED
    BY <1>5, <2>1, <2>2, StepSays DEF Inv
<1>6. CASE /\ answer = "succeeded" /\ answered(d) = "none" /\ d \notin stale
           /\ remember(d, "completed") /\ ends(d, "succeeded") /\ UNCHANGED stale
           /\ ran' = [ran EXCEPT ![d] = effectsBefore(d) + 1]
  <2>1. /\ "succeeded" \in ended'[d]
        /\ \A q \in Requests : ended[q] \subseteq ended'[q] /\ (q # d => ended'[q] = ended[q])
    BY <1>6, EndsTyped DEF Inv, Ends
  <2>2. receipts'[d] = "completed"
    BY <1>6, Remembers DEF Inv, RestTyped
  <2>3. ran'[d] = 1 /\ \A q \in Requests \ {d} : ran'[q] = ran[q]
    <3>1. effectsBefore(d) + 1 = 1
      BY <1>6, TakenUp
    <3>2. QED
      BY <1>6, <3>1, RanTyped DEF Inv
  <2>4. OneExecutes'
    <3>1. \A q \in Requests : ran'[q] <= 1
      BY <2>3 DEF Inv, RunInv, OneExecutes
    <3>2. QED
      BY <1>4, <3>1 DEF OneExecutes, Executing
  <2>5. ReceiptSays(d)'
    BY <2>1, <2>2 DEF ReceiptSays
  <2>6. /\ ReceiptsSay'
        /\ \A q \in Requests : \A said : Settled(q, said) => Settled(q, said)'
    BY <1>4, <1>6, <2>1, <2>5, RememberedSays
  <2>7. Settled(d, answer)'
    BY <1>6, <2>1 DEF Settled
  <2>8. QED
    BY <1>5, <2>4, <2>6, <2>7
<1>7. CASE answer = "conflict" /\ conflicts(d)
  <2>1. /\ OneExecutes' /\ ReceiptsSay'
        /\ \A q \in Requests : \A said : Settled(q, said) => Settled(q, said)'
        /\ Settled(d, "conflict")'
    BY <1>1, <1>7, ConflictSays
  <2>2. Settled(d, answer)'
    BY <1>7, <2>1
  <2>3. QED
    BY <1>5, <2>1, <2>2
<1>8. CASE answer = answered(d) /\ UNCHANGED controller
  <2>1. UNCHANGED <<cache, did, stale>>
    BY <1>8 DEF controller
  <2>2. /\ OneExecutes' /\ ReceiptsSay'
        /\ \A r \in Requests : \A said : Settled(r, said) => Settled(r, said)'
    BY <1>1, <2>1, QuietSays
  <2>3. Settled(d, answer)
    BY <1>1, <1>8, AnsweredIsSettled
  <2>4. QED
    BY <1>5, <2>2, <2>3
<1>9. QED
  BY <1>2, <1>6, <1>7, <1>8

LEMMA RunNextSays == ASSUME Inv, runNext PROVE RunInv'
<1> USE DEF controller
<1>0. "runNext" \in Fibers /\ fiber \in [Fibers -> FiberStates]
  BY RunNextType DEF Inv, FiberInv
<1>1. CASE ask \/ take \/ startTrackedEnvelope
  <2>1. UNCHANGED <<cache, did, stale>>
    BY <1>1 DEF ask, take, startTrackedEnvelope
  <2>2. UNCHANGED brokerVars \/ \E g \in 0..MaxGrants, r \in Requests : takes(g, r)
    <3>1. fiber["runNext"].grant \in 0..MaxGrants
      BY <1>0 DEF FiberStates
    <3>2. QED
      BY <1>1, <3>1 DEF ask, take, startTrackedEnvelope
  <2>3. \A run \in Runs : \/ running'[run] = running[run]
                          \/ running[run] \notin Executing /\ running'[run] \in {"none", "started"}
    BY <1>1 DEF ask, take, startTrackedEnvelope, Executing, Inv, RestTyped
  <2>4. fiber'["runNext"].at # "acknowledging"
    <3>1. CASE ask
      BY <1>0, <3>1 DEF ask, FiberStates
    <3>2. CASE take
      BY <1>0, <3>2 DEF take, AtRest
    <3>3. CASE startTrackedEnvelope
      BY <1>0, <3>3 DEF startTrackedEnvelope, AtRest
    <3>4. QED
      BY <1>1, <3>1, <3>2, <3>3
  <2>5. QED
    BY <2>1, <2>2, <2>3, <2>4, QuietStep
<1>2. CASE revoke
  <2>1. /\ interrupts(activeCommandFibers) /\ UNCHANGED <<cache, ran, stale, brokerVars>>
        /\ activeCommandFibers \in SUBSET Runs
    BY <1>2 DEF revoke, interruptActiveCommands, Inv, RestTyped
  <2>2. fiber'["runNext"].at # "acknowledging"
    BY <1>0, <1>2 DEF revoke, goes, FiberStates
  <2>3. QED
    BY <2>1, <2>2, InterruptSays
<1>3. CASE acknowledge
  <2> DEFINE d == fiber["runNext"].envelope
  <2>1. d \in Requests /\ fiber["runNext"].answer \in Answers /\ Settled(d, fiber["runNext"].answer)
    BY <1>3 DEF acknowledge, Inv, FiberInv, RunNextHolds, Requests, RunInv, AnswersAreSettled
  <2>2. UNCHANGED brokerVars \/ complete(d, fiber["runNext"].answer)
    BY <1>3 DEF acknowledge
  <2>3. UNCHANGED <<cache, did, stale, running>> /\ fiber'["runNext"].at # "acknowledging"
    BY <1>0, <1>3 DEF acknowledge, AtRest
  <2>4. QED
    BY <2>1, <2>2, <2>3, QuietStep
<1>4. QED
  BY <1>1, <1>2, <1>3, RevocationSays DEF runNext

\* A fiber claims its command: it is now the one that executes, or it has an answer.
LEMMA ClaimSays == ASSUME Inv, NEW run \in Runs, claim(run) PROVE RunInv'
<1>0. PICK r \in Requests : r = run[1]
  BY DEF Runs, Requests
<1>1. /\ permitFree /\ UNCHANGED <<brokerVars, fiber>>
      /\ \A q \in Requests : requests'[q].told = requests[q].told
  BY DEF claim, brokerVars
<1>2. /\ \A other \in Runs : running[other] \notin Executing
      /\ \A q : ~Busy(q)
  BY <1>1 DEF permitFree, Busy
<1>3. PICK now \in {"executing", "conflict", "failed", "succeeded"} :
        /\ running' = [running EXCEPT ![run] = now]
        /\ \/ /\ now = "executing" /\ answered(r) = "none" /\ r \notin stale
              /\ remember(r, "accepted") /\ ran' = [ran EXCEPT ![r] = effectsBefore(r)]
              /\ UNCHANGED <<ended, stale>>
           \/ now = "conflict" /\ conflicts(r)
           \/ /\ now = answered(r) /\ now \in {"failed", "succeeded"}
              /\ UNCHANGED <<cache, did, stale>>
  BY <1>0, AnsweredIs DEF claim, Inv, RestTyped
<1>4. /\ running'[run] = now
      /\ \A other \in Runs \ {run} : running'[other] = running[other]
  BY <1>3 DEF Inv, RestTyped
<1>5. fiber["runNext"].at = "acknowledging" => fiber["runNext"].envelope \in Requests
  BY DEF Inv, FiberInv, RunNextHolds, Requests
<1>6. ASSUME \A q \in Requests : \A said : Settled(q, said) => Settled(q, said)',
             Settled(r, now)', ReceiptsSay', OneExecutes'
      PROVE  RunInv'
  <2>1. Settled(run[1], running[run])'
    BY <1>0, <1>4, <1>6 DEF Settled, Untouched, Busy
  <2>2. \A other \in Runs : running'[other] = running[other] \/ Settled(other[1], running[other])'
    BY <1>4, <2>1
  <2>3. QED
    BY <1>1, <1>5, <1>6, <2>2, StepSays DEF Inv
<1>7. CASE /\ now = "executing" /\ answered(r) = "none" /\ r \notin stale
           /\ remember(r, "accepted") /\ ran' = [ran EXCEPT ![r] = effectsBefore(r)]
           /\ UNCHANGED <<ended, stale>>
  <2>1. ran'[r] = 0 /\ \A q \in Requests \ {r} : ran'[q] = ran[q]
    BY <1>7, TakenUp, RanTyped DEF Inv
  <2>2. receipts'[r] = "accepted"
    BY <1>7, Remembers DEF Inv, RestTyped
  <2>3. OneExecutes'
    BY <1>0, <1>2, <1>4, <2>1 DEF Inv, RunInv, OneExecutes, Executing
  <2>4. Busy(r)' /\ \A q \in Requests \ {r} : ~Busy(q)'
    BY <1>0, <1>2, <1>4, <1>7 DEF Busy, Executing
  <2>5. ReceiptSays(r)'
    BY <2>2, <2>4 DEF ReceiptSays
  <2>6. /\ ReceiptsSay'
        /\ \A q \in Requests : \A said : Settled(q, said) => Settled(q, said)'
    BY <1>2, <1>7, <2>4, <2>5, RememberedSays
  <2>7. Settled(r, now)'
    BY <1>7 DEF Settled
  <2>8. QED
    BY <1>6, <2>3, <2>6, <2>7
<1>8. CASE now \in {"conflict", "failed", "succeeded"}
  <2>1. \A other \in Runs : running'[other] \notin Executing
    BY <1>2, <1>4, <1>8 DEF Executing
  <2>2. CASE now = "conflict" /\ conflicts(r)
    <3>1. /\ OneExecutes' /\ ReceiptsSay'
          /\ \A q \in Requests : \A said : Settled(q, said) => Settled(q, said)'
          /\ Settled(r, "conflict")'
      BY <1>2, <2>1, <2>2, ConflictSays
    <3>2. QED
      BY <1>6, <2>2, <3>1
  <2>3. CASE now = answered(r) /\ UNCHANGED <<cache, did, stale>>
    <3>1. \A q : Untouched(q)' <=> Untouched(q)
      BY <1>2, <2>1, <2>3 DEF Untouched, Busy, cache, did
    <3>2. \A q \in Requests : \A said : Settled(q, said) => Settled(q, said)'
      BY <2>3, <3>1, SaidStays DEF cache, did
    <3>3. OneExecutes'
      BY <2>1, <2>3 DEF Inv, RunInv, OneExecutes, Executing, did
    <3>4. ReceiptsSay'
      <4>1. \A q : Busy(q)' <=> Busy(q)
        BY <1>2, <2>1 DEF Busy
      <4>2. QED
        BY <2>3, <3>1, <4>1 DEF Inv, RunInv, ReceiptsSay, ReceiptSays, cache, did
    <3>5. Settled(r, now)
      BY <1>1, <2>3, AnsweredIsSettled
    <3>6. QED
      BY <1>6, <3>2, <3>3, <3>4, <3>5
  <2>4. QED
    BY <1>3, <1>8, <2>2, <2>3
<1>9. QED
  BY <1>3, <1>7, <1>8

\* The command that executes has its effect: its first in the window.
LEMMA RunCommandSays == ASSUME Inv, NEW run \in Runs, runCommand(run) PROVE RunInv'
<1>0. PICK r \in Requests : r = run[1]
  BY DEF Runs, Requests
<1>1. /\ running[run] = "executing" /\ ran[r] = 0
      /\ UNCHANGED <<brokerVars, fiber, cache, ended, stale>>
      /\ running' = [running EXCEPT ![run] = "effected"]
      /\ ran' = [ran EXCEPT ![r] = ran[r] + 1]
  BY <1>0 DEF runCommand, Inv, RunInv, OneExecutes
<1>2. /\ running'[run] = "effected"
      /\ \A other \in Runs \ {run} : running'[other] = running[other]
  BY <1>1 DEF Inv, RestTyped
<1>3. /\ ran'[r] = 1 /\ \A q \in Requests \ {r} : ran'[q] = ran[q]
  BY <1>1 DEF Inv, RestTyped
<1>4. \A other \in Runs : running'[other] \in Executing <=> running[other] \in Executing
  BY <1>1, <1>2 DEF Executing
<1>5. \A q : Busy(q)' <=> Busy(q)
  BY <1>4 DEF Busy
<1>6. OneExecutes'
  <2>1. \A other \in Runs \ {run} : running[other] \notin Executing
    BY <1>1 DEF Inv, RunInv, OneExecutes, Executing
  <2>2. \A q \in Requests : ran'[q] <= 1
    BY <1>3 DEF Inv, RunInv, OneExecutes
  <2>3. QED
    BY <1>2, <2>1, <2>2 DEF OneExecutes, Executing
<1>7. \A q : Untouched(q)' <=> Untouched(q)
  BY <1>1, <1>5 DEF Untouched, cache
<1>8. ReceiptsSay'
  BY <1>1, <1>5, <1>7 DEF Inv, RunInv, ReceiptsSay, ReceiptSays, cache
<1>9. \A q \in Requests : \A said : Settled(q, said) => Settled(q, said)'
  BY <1>1, <1>7, SaidStays DEF cache
<1>10. Settled(run[1], running[run])'
  BY <1>2 DEF Settled
<1>11. /\ \A q \in Requests : requests'[q].told = requests[q].told
       /\ fiber["runNext"].at = "acknowledging" => fiber["runNext"].envelope \in Requests
  BY <1>1 DEF Inv, FiberInv, RunNextHolds, Requests, brokerVars
<1>12. QED
  BY <1>1, <1>2, <1>6, <1>8, <1>9, <1>10, <1>11, StepSays DEF Inv

\* The command that executes has an outcome.
LEMMA DispatchCommandSays == ASSUME Inv, NEW run \in Runs, dispatchCommand(run) PROVE RunInv'
<1>0. PICK r \in Requests : r = run[1]
  BY DEF Runs, Requests
<1>1. /\ running[run] \in Executing /\ UNCHANGED <<brokerVars, fiber, ran, stale>>
      /\ \A q \in Requests : requests'[q].told = requests[q].told
      /\ fiber["runNext"].at = "acknowledging" => fiber["runNext"].envelope \in Requests
  BY DEF dispatchCommand, Executing, Inv, FiberInv, RunNextHolds, Requests, brokerVars
<1>2. PICK now \in {"succeeded", "failed"} :
        /\ running' = [running EXCEPT ![run] = now]
        /\ \/ now = "succeeded" /\ remember(r, "completed") /\ ends(r, "succeeded")
           \/ now = "failed" /\ remember(r, "failed") /\ ends(r, "failed")
           \/ now = "failed" /\ ends(r, "unreadable") /\ UNCHANGED cache
  BY <1>0 DEF dispatchCommand
<1>3. running'[run] = now /\ \A other \in Runs \ {run} : running'[other] = running[other]
  BY <1>2 DEF Inv, RestTyped
<1>4. /\ \A other \in Runs \ {run} : running[other] \notin Executing
      /\ \A other \in Runs : running'[other] \notin Executing
  <2>1. \A other \in Runs \ {run} : running[other] \notin Executing
    BY <1>1 DEF Inv, RunInv, OneExecutes
  <2>2. QED
    BY <1>3, <2>1 DEF Executing
<1>5. /\ Busy(r) /\ \A q : ~Busy(q)'
      /\ \A q \in Requests \ {r} : ~Busy(q)
  BY <1>0, <1>1, <1>4 DEF Busy
<1>6. OneExecutes'
  BY <1>1, <1>4 DEF Inv, RunInv, OneExecutes, Executing
<1>7. Untouched(r) => r \in forgotten
  BY <1>5 DEF Untouched
<1>8. PICK how \in {"succeeded", "failed", "unreadable"} :
        /\ ends(r, how) /\ now = "succeeded" => how = "succeeded"
        /\ now = "failed" => how \in {"failed", "unreadable"}
        /\ ends(r, how)
  BY <1>2
<1>9. /\ how \in ended'[r]
      /\ \A q \in Requests : ended[q] \subseteq ended'[q] /\ (q # r => ended'[q] = ended[q])
  BY <1>8, EndsTyped DEF Inv, Ends
<1>10. Settled(run[1], running[run])'
  BY <1>0, <1>3, <1>8, <1>9 DEF Settled
<1>11. ASSUME NEW receipt \in {"completed", "failed"}, remember(r, receipt),
              IF receipt = "completed" THEN ends(r, "succeeded") ELSE ends(r, "failed")
       PROVE  /\ ReceiptsSay'
              /\ \A q \in Requests : \A said : Settled(q, said) => Settled(q, said)'
  <2>1. IF receipt = "completed" THEN "succeeded" \in ended'[r] ELSE "failed" \in ended'[r]
    BY <1>11, EndsTyped DEF Inv, Ends
  <2>2. receipts'[r] = receipt
    BY <1>11, Remembers DEF Inv, RestTyped
  <2>3. ReceiptSays(r)'
    BY <1>11, <2>1, <2>2 DEF ReceiptSays
  <2>4. QED
    BY <1>1, <1>5, <1>7, <1>9, <1>11, <2>3, RememberedSays
<1>12. ASSUME ends(r, "unreadable"), UNCHANGED cache
       PROVE  /\ ReceiptsSay'
              /\ \A q \in Requests : \A said : Settled(q, said) => Settled(q, said)'
  <2>1. "unreadable" \in ended'[r] /\ ReceiptSays(r)
    BY <1>12, EndsTyped DEF Inv, Ends, RunInv, ReceiptsSay
  <2>2. ReceiptSays(r)'
    BY <1>7, <1>9, <1>12, <2>1 DEF ReceiptSays, Untouched, cache
  <2>3. ASSUME NEW q \in Requests, q # r PROVE ReceiptSays(q)' /\ (Untouched(q) => Untouched(q)')
    <3>1. ReceiptSays(q)
      BY DEF Inv, RunInv, ReceiptsSay
    <3>2. QED
      BY <1>5, <1>9, <1>12, <2>3, <3>1 DEF ReceiptSays, Untouched, cache
  <2>4. \A q \in Requests : \A said : Settled(q, said) => Settled(q, said)'
    BY <1>1, <1>7, <1>9, <1>12, <2>3, SaidStays DEF cache
  <2>5. QED
    BY <2>2, <2>3, <2>4 DEF ReceiptsSay
<1>13. /\ ReceiptsSay'
       /\ \A q \in Requests : \A said : Settled(q, said) => Settled(q, said)'
  BY <1>2, <1>11, <1>12
<1>14. QED
  BY <1>1, <1>3, <1>6, <1>10, <1>13, StepSays DEF Inv

\* The page is loaded again: it has forgotten all, and says nothing more.
LEMMA ReloadSays == ASSUME Inv, reload PROVE RunInv' /\ CacheTyped' /\ CacheInv'
<1>1. /\ \A r \in Requests : receipts'[r] = "none" /\ since'[r] = MAX_RECEIPTS
      /\ order' = <<>> /\ forgotten' = Requests /\ interrupts(Runs)
      /\ UNCHANGED <<brokerVars, ran>> /\ fiber' = [f \in Fibers |-> AtRest]
  BY DEF reload
<1>2. /\ \A run \in Runs : running'[run] = "none"
      /\ \A r \in Requests : ended[r] \subseteq ended'[r]
  <2>1. /\ \A run \in Runs : running'[run] = IF run \in Runs THEN "none" ELSE running[run]
        /\ \A r \in Requests : ended'[r] =
              IF \E run \in Runs : run[1] = r /\ running[run] \in Executing
              THEN ended[r] \union {"interrupted"} ELSE ended[r]
    BY <1>1, Interrupted DEF Inv
  <2>2. QED
    BY <2>1
<1>3. CacheTyped' /\ CacheInv'
  BY BridgeAssumption DEF reload, CacheTyped, CacheInv
<1>4. OneExecutes'
  BY <1>1, <1>2 DEF Inv, RunInv, OneExecutes, Executing
<1>5. ReceiptsSay'
  BY <1>1 DEF ReceiptsSay, ReceiptSays, Untouched
<1>6. \A r \in Requests : \A answer : Settled(r, answer) => Settled(r, answer)'
  BY <1>1, <1>2, SaidStays
<1>7. \A run \in Runs : Settled(run[1], running[run])'
  BY <1>2 DEF Settled
<1>8. /\ \A r \in Requests : requests'[r].told = requests[r].told
      /\ fiber'["runNext"].at # "acknowledging"
  BY <1>1, RunNextType DEF brokerVars, AtRest
<1>9. RunInv'
  BY <1>4, <1>5, <1>6, <1>7, <1>8, StepSays DEF Inv
<1>10. QED
  BY <1>3, <1>9

\* The fibers of commands, and what is outside the bridge.
LEMMA OthersSay ==
    ASSUME Inv, \/ observe \/ toggle \/ otherCommand \/ revokeAtBroker \/ UNCHANGED vars
                \/ \E run \in Runs : finish(run)
                \/ \E r \in Requests : request(r)
    PROVE  RunInv'
<1> USE DEF controller
<1>1. ASSUME NEW run \in Runs, finish(run) PROVE RunInv'
  <2>1. run[1] \in Requests /\ Settled(run[1], running[run]) /\ running[run] \in Answers
    BY <1>1 DEF finish, Inv, RunInv, AnswersAreSettled, Runs, Requests
  <2>2. UNCHANGED brokerVars \/ complete(run[1], running[run])
    BY <1>1 DEF finish
  <2>3. /\ UNCHANGED <<cache, did, stale, fiber>>
        /\ \A other \in Runs : \/ running'[other] = running[other]
                               \/ running[other] \notin Executing /\ running'[other] = "none"
    BY <1>1, <2>1 DEF finish, Inv, RestTyped, Executing, Answers
  <2>4. QED
    BY <2>1, <2>2, <2>3, QuietStep
<1>2. ASSUME NEW r \in Requests, request(r) PROVE RunInv'
  BY <1>2, QuietStep DEF request, bridgeVars
<1>3. CASE observe
  <2>1. fiber'["runNext"] = fiber["runNext"]
    BY <1>3, RunNextType DEF observe, goes, Inv, FiberInv
  <2>2. QED
    BY <1>3, <2>1, QuietStep DEF observe
<1>4. CASE toggle \/ otherCommand
  BY <1>4, OtherSays DEF toggle, otherCommand
<1>5. CASE revokeAtBroker
  BY <1>5, QuietStep DEF revokeAtBroker
<1>6. CASE UNCHANGED vars
  BY <1>6, QuietStep DEF vars, bridgeVars
<1>7. QED
  BY <1>1, <1>2, <1>3, <1>4, <1>5, <1>6

-----------------------------------------------------------------------------
(* The theorems.                                                                *)

LEMMA InitInv == Init => Inv
<1> SUFFICES ASSUME Init PROVE Inv
  OBVIOUS
<1>1. BrokerInv
  BY BrokerInitInv DEF Init
<1>2. RestTyped
  <2>1. /\ toggles \in 0..MaxToggles /\ others \in 0..MaxOthers
        /\ disturbances \in 0..MaxDisturbances
        /\ revokes \in Nat /\ faults \in Nat /\ reloads \in Nat
    BY BridgeAssumption DEF Init, disturbances
  <2>2. CacheTyped
    BY BridgeAssumption DEF Init, CacheTyped
  <2>3. QED
    BY <2>1, <2>2 DEF Init, RestTyped, RunStates
<1>3. fiber \in [Fibers -> FiberStates] /\ \A f \in Fibers : fiber[f] = AtRest
  BY RestingState DEF Init
<1>4. Nobody \notin Fibers
  BY DEF Nobody, Fibers
<1>5. FiberInv
  BY <1>3, <1>4, RunNextType DEF Init, FiberInv, RunNextHolds, AtRest
<1>6. CacheInv
  BY BridgeAssumption DEF Init, CacheInv
<1>7. RunInv
  <2>1. OneExecutes
    BY DEF Init, OneExecutes, Executing
  <2>2. ReceiptsSay
    BY DEF Init, ReceiptsSay, ReceiptSays, Untouched, Busy, Executing
  <2>3. AnswersAreSettled
    BY <1>3, RunNextType DEF Init, BrokerInit, AnswersAreSettled, Settled, AtRest
  <2>4. QED
    BY <2>1, <2>2, <2>3 DEF RunInv
<1>8. QED
  BY <1>1, <1>2, <1>5, <1>6, <1>7 DEF Inv

\* The types of the fibers of commands.
LEMMA CommandsType ==
    ASSUME RestTyped, CacheInv, FiberInv, NEW run \in Runs,
           claim(run) \/ runCommand(run) \/ dispatchCommand(run) \/ finish(run)
    PROVE  RestTyped' /\ FiberInv' /\ CacheInv'
<1> USE DEF bounds, permits
<1>1. run[1] \in Requests
  BY DEF Runs, Requests
<1>2. FiberInv'
  BY FibersStay DEF claim, runCommand, dispatchCommand, finish
<1>3. \A state \in RunStates : [running EXCEPT ![run] = state] \in [Runs -> RunStates]
  BY DEF RestTyped
<1>4. CASE claim(run)
  <2>1. running' \in [Runs -> RunStates]
    <3>1. {"executing", "conflict", "failed", "succeeded"} \subseteq RunStates
      BY DEF RunStates, Executing, Answers
    <3>2. CASE running' = [running EXCEPT ![run] = "executing"]
      BY <1>3, <3>1, <3>2
    <3>3. CASE running' = [running EXCEPT ![run] = "conflict"]
      BY <1>3, <3>1, <3>3
    <3>4. CASE running' = [running EXCEPT ![run] = answered(run[1])] /\ answered(run[1]) # "none"
      <4>1. answered(run[1]) \in RunStates
        BY <1>1, <3>1, <3>4, AnsweredIs DEF RestTyped
      <4>2. QED
        BY <1>3, <3>4, <4>1
    <3>5. QED
      BY <1>4, <3>2, <3>3, <3>4 DEF claim
  <2>2. CacheTyped' /\ CacheInv'
    BY <1>1, <1>4, Remembers, CacheStays DEF claim, conflicts, RestTyped
  <2>3. ran' \in [Requests -> Nat] /\ ended' \in [Requests -> SUBSET Ends] /\ stale' \subseteq Requests
    <3>1. effectsBefore(run[1]) \in Nat
      BY <1>1, EffectsTyped
    <3>2. QED
      BY <1>1, <1>4, <3>1, RanTyped DEF claim, conflicts, did, RestTyped
  <2>4. QED
    BY <1>2, <1>4, <2>1, <2>2, <2>3 DEF claim, RestTyped, disturbances
<1>5. CASE runCommand(run)
  <2>1. running' \in [Runs -> RunStates]
    BY <1>3, <1>5 DEF runCommand, RunStates, Executing
  <2>2. ran' \in [Requests -> Nat]
    BY <1>1, <1>5 DEF runCommand, RestTyped
  <2>3. QED
    BY <1>2, <1>5, <2>1, <2>2, CacheStays DEF runCommand, RestTyped, disturbances
<1>6. CASE dispatchCommand(run)
  <2>1. running' \in [Runs -> RunStates]
    BY <1>3, <1>6 DEF dispatchCommand, RunStates, Answers
  <2>2. CacheTyped' /\ CacheInv'
    BY <1>1, <1>6, Remembers, CacheStays DEF dispatchCommand, RestTyped
  <2>3. ended' \in [Requests -> SUBSET Ends]
    BY <1>1, <1>6, EndsTyped DEF dispatchCommand, Ends
  <2>4. QED
    BY <1>2, <1>6, <2>1, <2>2, <2>3 DEF dispatchCommand, RestTyped, disturbances
<1>7. CASE finish(run)
  <2>1. running' \in [Runs -> RunStates]
    BY <1>3, <1>7 DEF finish, RunStates
  <2>2. QED
    BY <1>2, <1>7, <2>1, Faulted, CacheStays DEF finish, RestTyped, controller, did
<1>8. QED
  BY <1>4, <1>5, <1>6, <1>7

\* The types of what is outside the bridge.
LEMMA OthersType ==
    ASSUME RestTyped, CacheInv, FiberInv,
           \/ observe \/ toggle \/ otherCommand \/ revokeAtBroker \/ UNCHANGED vars
           \/ \E r \in Requests : request(r)
    PROVE  RestTyped' /\ FiberInv' /\ CacheInv'
<1> USE DEF controller, did, bounds, permits
<1>1. CASE observe
  <2>1. RestTyped' /\ CacheInv'
    BY <1>1, CacheStays DEF observe, RestTyped, disturbances
  <2>2. QED
    BY <1>1, <2>1, FiberGoes, RunNextType DEF observe, Places
<1>2. CASE toggle \/ otherCommand
  <2>1. CacheTyped' /\ CacheInv'
    BY <1>2, RemembersOther DEF toggle, otherCommand, RestTyped
  <2>2. toggles' \in 0..MaxToggles /\ others' \in 0..MaxOthers
    BY <1>2, BridgeAssumption DEF toggle, otherCommand, RestTyped
  <2>3. control' \in BOOLEAN
    BY <1>2 DEF toggle, otherCommand, RestTyped
  <2>4. RestTyped'
    BY <1>2, <2>1, <2>2, <2>3 DEF toggle, otherCommand, RestTyped, disturbances
  <2>5. QED
    BY <1>2, <2>1, <2>4, FibersStay DEF toggle, otherCommand
<1>3. CASE revokeAtBroker
  <2>1. disturbances' \in 0..MaxDisturbances /\ revokes' \in Nat /\ faults' \in Nat /\ reloads' \in Nat
    BY <1>3, BridgeAssumption DEF revokeAtBroker, RestTyped, disturbances
  <2>2. QED
    BY <1>3, <2>1, FibersStay, CacheStays DEF revokeAtBroker, RestTyped
<1>4. ASSUME NEW r \in Requests, request(r) PROVE RestTyped' /\ FiberInv' /\ CacheInv'
  BY <1>4, FibersStay, CacheStays DEF request, bridgeVars, RestTyped, disturbances
<1>5. CASE UNCHANGED vars
  BY <1>5, FibersStay, CacheStays DEF vars, bridgeVars, RestTyped, disturbances
<1>6. QED
  BY <1>1, <1>2, <1>3, <1>4, <1>5

LEMMA ReloadTypes == ASSUME Inv, reload PROVE RestTyped' /\ FiberInv' /\ CacheInv'
<1>1. CacheTyped' /\ CacheInv'
  BY ReloadSays
<1>2. running' \in [Runs -> RunStates] /\ ended' \in [Requests -> SUBSET Ends]
  BY Interrupted DEF reload, Inv
<1>3. disturbances' \in 0..MaxDisturbances /\ revokes' \in Nat /\ faults' \in Nat /\ reloads' \in Nat
  BY BridgeAssumption DEF reload, Inv, RestTyped, disturbances
<1>4. RestTyped'
  BY <1>1, <1>2, <1>3 DEF reload, Inv, RestTyped
<1>5. fiber' \in [Fibers -> FiberStates] /\ \A f \in Fibers : fiber'[f] = AtRest
  BY RestingState DEF reload
<1>6. FiberInv'
  BY <1>5, RunNextType DEF reload, FiberInv, RunNextHolds, AtRest, Nobody, Fibers
<1>7. QED
  BY <1>1, <1>4, <1>6

LEMMA NextInv == Inv /\ [Next]_vars => Inv'
<1> SUFFICES ASSUME Inv, [Next]_vars PROVE Inv'
  OBVIOUS
<1>1. BrokerInv'
  BY BridgeCallsBroker, BrokerStepInv DEF Inv
<1>2. RestTyped' /\ FiberInv' /\ CacheInv'
  BY BridgeTypes, RunNextTypes, CommandsType, OthersType, ReloadTypes DEF Inv, Next
<1>3. RunInv'
  BY BridgeSays, RunNextSays, ClaimSays, RunCommandSays, DispatchCommandSays, ReloadSays,
     OthersSay DEF Next
<1>4. QED
  BY <1>1, <1>2, <1>3 DEF Inv

\* The inductive invariant holds in every behaviour.
THEOREM Invariance == Spec => []Inv
  BY InitInv, NextInv, PTL DEF Spec

\* The broker and the bridge keep their shapes; a fiber of the bridge that rests holds
\* neither permit, so a failing transport never leaves the bridge locked.
THEOREM TypeCorrectness == Spec => []TypeOK
<1>1. Inv => TypeOK
  BY DEF Inv, BrokerInv, RestTyped, CacheTyped, FiberInv, TypeOK
<1>2. QED
  BY <1>1, Invariance, PTL

\* No grant is replaced or withdrawn over the head of a request that waits, whatever the
\* user, the bridge and outside clients do to it (enable, disable, complete).
THEOREM RequestsAreAnswered == Spec => []NobodyIsForgotten
<1>1. Inv => NobodyIsForgotten
  BY DEF Inv, BrokerInv
<1>2. QED
  BY <1>1, Invariance, PTL

\* For any number of receipts, no command takes effect twice before that many others were
\* taken up or the page was loaded again, although clients send it again while its fiber
\* runs, it fails after an effect, and revocations interrupt it anywhere (claim, remember).
THEOREM CommandsRunOnce == Spec => []RunsOnce
<1>1. Inv => RunsOnce
  BY DEF Inv, RunInv, OneExecutes, RunsOnce
<1>2. QED
  BY <1>1, Invariance, PTL

\* What a client is told of its command has happened to it, also across grants, receipts that
\* are dropped and reloads (dispatchCommand, claim): see AnswersAreTrue for what each answer
\* leaves open.
THEOREM ClientsAreToldTheTruth == Spec => []AnswersAreTrue
<1>1. Inv => AnswersAreTrue
  BY DEF Inv, RunInv, AnswersAreSettled, Settled, Untouched, AnswersAreTrue
<1>2. QED
  BY <1>1, Invariance, PTL
==============================================================================
