------------------------- MODULE WorkspaceTurnsProofs -------------------------
(* Theorems about the agent workspace's turns, for any commands, sessions,       *)
(* documents, requests and bounds: what the agent was told is what its turn      *)
(* comes to, the role follows the turn, no session is lost, and no turn is       *)
(* refused but for one that was interrupted.                                     *)
EXTENDS WorkspaceTurns, SequenceTheorems, TLAPS

-----------------------------------------------------------------------------
(* What the inductive invariant says.                                            *)

\* What a command does while it has the permit.
Busy == {"turn", "applying", "cancelling", "selecting", "revoked"}

\* The sets that the variables range over.
BusTypes ==
    /\ queue \in Seq(Requests) /\ pending \subseteq Requests /\ taken \in Requests \union {NoRequest}
    /\ DOMAIN response = Requests /\ DOMAIN told = Requests

DispatchTypes ==
    /\ waiting \in Seq(Commands \union Requests)
    /\ call \in [Commands -> {"none", "waiting", "turn", "applying", "cancelling", "selecting",
                              "revoked", "over"}]
    /\ roleFiber \in Shapes \union {NoCommand}
    /\ stopping.fiber \in Shapes \union {NoCommand}
    /\ nested \in {"none", "waiting", "running"}

TurnTypes ==
    /\ fiber \in [Shapes -> {"none", "starting", "session", "creating", "created", "asking",
                             "streaming", "tool", "ended"}]
    /\ result \in [Shapes -> {"none", "succeeded", "failed", "busy", "interrupted"}]
    /\ outcome \in [Shapes -> Documents \union {NoDocument}]
    /\ attempt \in [Shapes -> 1..2]
    /\ sid \in [Shapes -> Sessions \union {NoSession}]
    /\ proposals \in [Shapes -> Documents \union {"off", "empty"}]

SessionTypes ==
    /\ session.id \in Sessions \union {NoSession}
    /\ closingSessions \subseteq Sessions /\ orphaned \subseteq Sessions

RequestTypes ==
    /\ parent \in [Requests -> Shapes \union {NoCommand}]
    /\ what \in [Requests -> Documents \union {Plain, NoDocument}]

Types ==
    /\ BusTypes /\ DispatchTypes /\ TurnTypes /\ SessionTypes /\ RequestTypes
    /\ Runtime!ServiceTypeOK

\* The queue of the permit: every waiting command once, and the agent's own request, which
\* the bridge carries out.  Whatever is under way has the permit.
Permit ==
    /\ \A i, j \in 1..Len(waiting) : waiting[i] = waiting[j] => i = j
    /\ \A i \in 1..Len(waiting) :
         /\ waiting[i] \in Commands => call[waiting[i]] = "waiting"
         /\ waiting[i] \in Requests => waiting[i] = taken /\ nested = "waiting"
    /\ \A c \in Commands : call[c] \in Busy => holder = c
    /\ nested # "none" => taken \in Requests /\ what[taken] = Plain

\* A turn has the permit from its claim of the role to its end, so one is under way at a
\* time; once forked, it is the turn that fibers.shaper names.
TurnHolds ==
    \A c \in Shapes :
        /\ live(c) => call[c] \in {"turn", "revoked"}
        /\ fiber[c] # "none" => call[c] \in {"turn", "applying", "revoked", "over"}
        /\ live(c) /\ fiber[c] # "starting" => roleFiber = c
        /\ fiber[c] = "ended" <=> result[c] # "none"

\* A latch is set for a turn that was forked, and reset when it ends.
Latched ==
    \A c \in Shapes : proposals[c] # "off" => live(c) /\ fiber[c] # "starting"

\* A proposal that was taken is in the latch of its turn, and later in the turn's outcome,
\* whether or not its submitter still waits to be told; a request is answered once.
Promised ==
    \A r \in Requests :
        /\ IF told[r] = "none"
           THEN /\ response[r] = "none" /\ r \notin pending /\ r # taken
                /\ \A i \in 1..Len(queue) : queue[i] # r
           ELSE parent[r] \in Shapes /\ what[r] \in Documents \union {Plain}
        /\ told[r] \in {"proposed", "duplicate"} => response[r] = told[r]
        /\ response[r] \in {"proposed", "duplicate"} =>
             /\ what[r] \in Documents /\ parent[r] \in Shapes
             /\ IF fiber[parent[r]] = "ended"
                THEN result[parent[r]] = "succeeded" => outcome[parent[r]] = what[r]
                ELSE proposals[parent[r]] = what[r]

\* A turn that asks or streams uses the workspace's session; while one is made the
\* workspace has none, and nothing runs in it.
SessionOf ==
    \A c \in Shapes :
        /\ fiber[c] \in {"creating", "created"} => session.id = NoSession
        /\ fiber[c] = "created" => sid[c] \in Sessions /\ turn[sid[c]] = NoPrompt
        /\ fiber[c] \in {"asking", "streaming", "tool"} =>
             sid[c] \in Sessions /\ sid[c] = session.id

\* An open session is the workspace's, or about to be, or being closed, or was left behind.
Kept ==
    \A s \in Sessions :
        service[s] = "open" =>
            \/ session.id = s \/ s \in closingSessions \union orphaned
            \/ \E c \in Shapes : fiber[c] = "created" /\ sid[c] = s

\* What is being closed or was left behind is not the workspace's, nor about to be; none of
\* them is yet to be made.
Apart ==
    \A s \in Sessions :
        /\ service[s] = "fresh" \/ session.id = s
              \/ (\E c \in Shapes : fiber[c] = "created" /\ sid[c] = s)
           => s \notin closingSessions \union orphaned
        /\ service[s] = "fresh" =>
              session.id # s /\ \A c \in Shapes : fiber[c] = "created" => sid[c] # s

\* Only a turn that occupies a session can be claimed.
Claims ==
    \A s \in Sessions :
        /\ service[s] = "fresh" => turn[s] = NoPrompt
        /\ claimed[s] => turn[s] # NoPrompt

\* A turn that still occupies a session is under way, with its attempt unanswered, or was
\* interrupted, or the workspace has let go of the session.
Occupied ==
    \A s \in Sessions : turn[s] # NoPrompt =>
        LET d == turn[s][1] IN
        \/ /\ fiber[d] \in {"streaming", "tool"} /\ attempt[d] = turn[s][2] /\ sid[d] = s
           /\ ~claimed[s] /\ answer[turn[s]] = "taken"
        \/ fiber[d] = "ended" /\ (result[d] = "interrupted" \/ session.id # s)

Inv == /\ Types /\ Permit /\ TurnHolds /\ Latched /\ Promised /\ RoleFollowsTurn
       /\ SessionOf /\ Claims /\ Kept /\ Apart /\ Occupied

-----------------------------------------------------------------------------
(* What the actions have in common.                                              *)

\* A queue from which one element is taken keeps the others, in their order.
LEMMA Removed ==
    ASSUME NEW S, NEW q \in Seq(S), NEW i \in DOMAIN q
    PROVE  /\ RemoveAt(q, i) \in Seq(S)
           /\ Len(RemoveAt(q, i)) = Len(q) - 1
           /\ \A j \in DOMAIN RemoveAt(q, i) :
                 RemoveAt(q, i)[j] = q[IF j < i THEN j ELSE j + 1]
<1> DEFINE before == SubSeq(q, 1, i - 1)
           after == SubSeq(q, i + 1, Len(q))
<1>1. q \in Seq(S) /\ Len(q) \in Nat /\ i \in 1..Len(q)
  OBVIOUS
<1>2. /\ before \in Seq(S) /\ Len(before) = i - 1
      /\ \A j \in 1..i - 1 : before[j] = q[j]
  BY <1>1, SubSeqProperties
<1>3. /\ after \in Seq(S) /\ Len(after) = Len(q) - i
      /\ \A j \in 1..Len(q) - i : after[j] = q[i + j]
  BY <1>1, SubSeqProperties
<1> HIDE DEF before, after
<1>4. /\ before \o after \in Seq(S) /\ Len(before \o after) = Len(q) - 1
      /\ \A j \in 1..Len(q) - 1 :
            (before \o after)[j] = IF j <= i - 1 THEN before[j] ELSE after[j - (i - 1)]
  <2>1. Len(before) + Len(after) = Len(q) - 1
    BY <1>1, <1>2, <1>3
  <2>2. /\ before \o after \in Seq(S) /\ Len(before \o after) = Len(before) + Len(after)
        /\ \A j \in 1..Len(before) + Len(after) :
              (before \o after)[j] =
                  IF j <= Len(before) THEN before[j] ELSE after[j - Len(before)]
    BY <1>2, <1>3, ConcatProperties
  <2> QED
    BY <1>2, <2>1, <2>2
<1>5. \A j \in 1..Len(q) - 1 :
        (before \o after)[j] = q[IF j < i THEN j ELSE j + 1]
  <2> SUFFICES ASSUME NEW j \in 1..Len(q) - 1
               PROVE  (before \o after)[j] = q[IF j < i THEN j ELSE j + 1]
    OBVIOUS
  <2>1. CASE j < i
    BY <1>1, <1>2, <1>4, <2>1
  <2>2. CASE j >= i
    <3>1. j - (i - 1) \in 1..Len(q) - i /\ i + (j - (i - 1)) = j + 1
      BY <1>1, <2>2
    <3>2. after[j - (i - 1)] = q[j + 1]
      BY <1>3, <3>1
    <3> QED
      BY <1>1, <1>4, <2>2, <3>2
  <2>3. j < i \/ j >= i
    BY <1>1
  <2> QED
    BY <2>1, <2>2, <2>3
<1>6. RemoveAt(q, i) = before \o after
  BY DEF RemoveAt, before, after
<1>7. DOMAIN (before \o after) = 1..Len(q) - 1
  BY <1>1, <1>4
<1> QED
  BY <1>4, <1>5, <1>6, <1>7

\* If all the elements were different, the one that is taken is gone.
LEMMA RemovedIsGone ==
    ASSUME NEW S, NEW q \in Seq(S), NEW i \in DOMAIN q,
           \A j, k \in 1..Len(q) : q[j] = q[k] => j = k
    PROVE  LET p == RemoveAt(q, i) IN
           /\ \A j, k \in 1..Len(p) : p[j] = p[k] => j = k
           /\ \A j \in 1..Len(p) : p[j] # q[i] /\ \E k \in 1..Len(q) : p[j] = q[k]
<1> DEFINE p == RemoveAt(q, i)
           old(j) == IF j < i THEN j ELSE j + 1
<1>1. /\ Len(q) \in Nat /\ Len(p) = Len(q) - 1
      /\ p \in Seq(S) /\ \A j \in DOMAIN p : p[j] = q[old(j)]
  BY Removed
<1> HIDE DEF p
<1>a. i \in 1..Len(q) /\ \A j \in 1..Len(p) : p[j] = q[old(j)]
  BY <1>1
<1>2. \A j \in 1..Len(p) : old(j) \in 1..Len(q) /\ old(j) # i
  BY <1>1, <1>a
<1>3. \A j, k \in 1..Len(p) : old(j) = old(k) => j = k
  BY <1>1
<1> HIDE DEF old
<1>4. \A j, k \in 1..Len(p) : p[j] = p[k] => j = k
  BY <1>a, <1>2, <1>3
<1>5. \A j \in 1..Len(p) : p[j] # q[i] /\ \E k \in 1..Len(q) : p[j] = q[k]
  BY <1>a, <1>2
<1> QED
  BY <1>4, <1>5 DEF p

\* A command that gets the permit was waiting for it, and no turn is under way.
LEMMA Granted ==
    ASSUME Inv, NEW c \in Commands, granted(c)
    PROVE  /\ call[c] = "waiting"
           /\ \A d \in Commands : call[d] \notin Busy
           /\ \A d \in Shapes : ~live(d) /\ proposals[d] = "off"
           /\ c \in Shapes => fiber[c] = "none" /\ result[c] = "none"
<1> USE TurnsAssumption, BusAssumption DEF Inv, Types, DispatchTypes, TurnTypes
<1>1. call[c] = "waiting"
  <2>1. waiting # <<>> /\ Head(waiting) = c
    BY DEF granted
  <2>2. 1 \in 1..Len(waiting) /\ waiting[1] = c
    BY <2>1
  <2> QED
    BY <2>2 DEF Permit
<1>2. \A d \in Commands : call[d] \notin Busy
  BY DEF granted, Permit, Commands
<1>3. \A d \in Shapes : ~live(d) /\ proposals[d] = "off"
  <2>1. \A d \in Shapes : d \in Commands
    BY DEF Commands
  <2>2. \A d \in Shapes : ~live(d)
    BY <1>2, <2>1 DEF TurnHolds, Busy
  <2> QED
    BY <2>2 DEF Latched
<1>4. ASSUME c \in Shapes PROVE fiber[c] = "none" /\ result[c] = "none"
  BY <1>1, <1>4 DEF TurnHolds, live
<1> QED
  BY <1>1, <1>2, <1>3, <1>4

\* What an interruption changes, of the turn that it interrupts and of no other.
LEMMA Interrupted ==
    ASSUME Inv, NEW c, c \in Shapes \union {NoCommand}, interrupt(c)
    PROVE  /\ TurnTypes' /\ orphaned' \subseteq Sessions
           /\ \A d \in Shapes :
                IF d = c /\ live(c)
                THEN /\ fiber'[d] = "ended" /\ result'[d] = "interrupted"
                     /\ proposals'[d] = "off" /\ outcome'[d] = outcome[d]
                ELSE /\ fiber'[d] = fiber[d] /\ result'[d] = result[d]
                     /\ proposals'[d] = proposals[d] /\ outcome'[d] = outcome[d]
                     /\ attempt'[d] = attempt[d] /\ sid'[d] = sid[d]
           /\ orphaned \subseteq orphaned'
           /\ c \in Shapes /\ fiber[c] = "created" => sid[c] \in orphaned'
           /\ \A o \in orphaned' \ orphaned :
                c \in Shapes /\ fiber[c] = "created" /\ o = sid[c]
<1> USE TurnsAssumption DEF Inv, Types, TurnTypes
<1>1. CASE c \in Shapes /\ live(c)
  <2>1. c # NoCommand
    BY <1>1 DEF Commands
  <2>2. /\ ends(c, "interrupted") /\ UNCHANGED outcome
        /\ orphaned' = orphaned \union (IF fiber[c] = "created" THEN {sid[c]} ELSE {})
    BY <1>1, <2>1 DEF interrupt
  <2>3. TurnTypes'
    BY <1>1, <2>2 DEF ends
  <2>4. orphaned' \subseteq Sessions
    BY <1>1, <2>2 DEF SessionOf, SessionTypes
  <2> QED
    BY <1>1, <2>2, <2>3, <2>4 DEF ends
<1>2. CASE ~(c \in Shapes /\ live(c))
  <2>1. UNCHANGED <<fiberVars, orphaned>>
    BY <1>2 DEF interrupt
  <2> QED
    BY <1>2, <2>1 DEF fiberVars, live, SessionTypes
<1> QED
  BY <1>1, <1>2

\* Nor is one under way while a command has the permit for anything else.
LEMMA Exclusive ==
    ASSUME Inv, NEW c \in Commands, call[c] \in {"cancelling", "selecting", "applying"}
    PROVE  \A d \in Shapes : ~live(d) /\ proposals[d] = "off"
<1> USE DEF Inv
<1>1. \A d \in Shapes : d \in Commands
  BY DEF Commands
<1>2. \A d \in Shapes : ~live(d)
  BY <1>1 DEF TurnHolds, Permit, Busy
<1> QED
  BY <1>2 DEF Latched

\* What is let go of stays apart from what is used: the session is only kept or released,
\* only the session that is released is closed, and what is left behind was being closed, or
\* made by a turn that makes none any more.
LEMMA StaysApart ==
    ASSUME Inv, service' = service,
           session'.id = session.id \/ session'.id = NoSession,
           \A s \in closingSessions' \ closingSessions : s = session.id /\ session'.id = NoSession,
           \A d \in Shapes : fiber'[d] = "created" => fiber[d] = "created" /\ sid'[d] = sid[d],
           \A s \in orphaned' \ orphaned :
              \E d \in Shapes : fiber[d] = "created" /\ sid[d] = s /\ fiber'[d] # "created"
    PROVE  Apart'
<1> USE TurnsAssumption DEF Inv
<1>1. \A c, d \in Shapes : fiber[c] = "created" /\ fiber[d] = "created" => c = d
  BY DEF TurnHolds, live
<1>2. ASSUME NEW s \in Sessions, service[s] = "fresh"
      PROVE  /\ s \notin (closingSessions \union orphaned)' /\ session'.id # s
             /\ \A c \in Shapes : fiber'[c] = "created" => sid'[c] # s
  BY <1>2 DEF Apart
<1>3. ASSUME NEW s \in Sessions, session'.id = s PROVE s \notin (closingSessions \union orphaned)'
  <2>1. session.id = s
    BY <1>3
  <2>2. QED
    BY <1>3, <2>1 DEF Apart, SessionOf
<1>4. ASSUME NEW s \in Sessions, NEW c \in Shapes, fiber'[c] = "created", sid'[c] = s
      PROVE  s \notin (closingSessions \union orphaned)'
  <2>1. fiber[c] = "created" /\ sid[c] = s /\ session.id = NoSession
    BY <1>4 DEF SessionOf
  <2>2. QED
    BY <1>1, <1>4, <2>1 DEF Apart
<1>5. QED
  BY <1>2, <1>3, <1>4 DEF Apart

-----------------------------------------------------------------------------
(* Every action of the workspace preserves the invariant.                        *)

LEMMA SelectReasoningInv ==
    ASSUME Inv, selectReasoning
    PROVE  Inv'
<1> USE TurnsAssumption, BusAssumption DEF Inv
<1> SUFFICES ASSUME NEW x, x = roleFiber PROVE Inv'
  OBVIOUS
<1>a. x \in Shapes \union {NoCommand} /\ interrupt(x)
  BY DEF selectReasoning, resetSession, Types, DispatchTypes
<1>b. /\ TurnTypes' /\ orphaned' \subseteq Sessions
      /\ \A d \in Shapes :
           IF d = x /\ live(x)
           THEN /\ fiber'[d] = "ended" /\ result'[d] = "interrupted"
                /\ proposals'[d] = "off" /\ outcome'[d] = outcome[d]
           ELSE /\ fiber'[d] = fiber[d] /\ result'[d] = result[d]
                /\ proposals'[d] = proposals[d] /\ outcome'[d] = outcome[d]
                /\ attempt'[d] = attempt[d] /\ sid'[d] = sid[d]
      /\ orphaned \subseteq orphaned'
      /\ x \in Shapes /\ fiber[x] = "created" => sid[x] \in orphaned'
      /\ \A o \in orphaned' \ orphaned :
           x \in Shapes /\ fiber[x] = "created" /\ o = sid[x]
  BY <1>a, Interrupted
<1>1. Types'
  <2>1. BusTypes'
    BY DEF selectReasoning, resetSession, interrupt, interruptSubmit, leave, completed, busVars,
       Types, BusTypes
  <2>2. DispatchTypes'
    BY DEF selectReasoning, resetSession, dispatchVars, requestVars, Types, DispatchTypes
  <2>3. TurnTypes'
    BY <1>b DEF selectReasoning
  <2>4. SessionTypes'
    BY <1>b DEF selectReasoning, releaseSession, Types, SessionTypes, Released, resetSession
  <2>5. RequestTypes'
    BY DEF selectReasoning, requestVars, Types, RequestTypes
  <2>6. Runtime!ServiceTypeOK'
    BY DEF selectReasoning, serviceVars, Types, Runtime!ServiceTypeOK
  <2> QED
    BY <2>1, <2>2, <2>3, <2>4, <2>5, <2>6 DEF Types
<1>2. Permit'
  BY DEF selectReasoning, resetSession, interrupt, interruptSubmit, leave, busVars, dispatchVars,
     requestVars, Permit
<1>3. TurnHolds'
  BY <1>b DEF selectReasoning, dispatchVars, TurnHolds, live
<1>4. Latched'
  BY <1>b DEF selectReasoning, Latched, live
<1>5. Promised'
  BY DEF selectReasoning, resetSession, interrupt, ends, interruptSubmit, leave, completed,
     busVars, fiberVars, requestVars, Promised, Types, BusTypes, TurnTypes
<1>6. RoleFollowsTurn'
  BY <1>b DEF selectReasoning, resetSession, interrupt, fiberVars, RoleFollowsTurn, live
<1>7. SessionOf'
  BY <1>b DEF selectReasoning, SessionOf, Claims, TurnHolds, live, Commands
<1>8. Claims'
  BY <1>b DEF selectReasoning, serviceVars, Claims
<1>9. Kept'
  BY <1>b DEF selectReasoning, resetSession, releaseSession, serviceVars, Kept
<1>10. Occupied'
  BY <1>b DEF selectReasoning, resetSession, releaseSession, serviceVars, Occupied, Types,
     Runtime!ServiceTypeOK, Prompts, Released
<1>11. Apart'
  BY <1>b, StaysApart DEF selectReasoning, resetSession, releaseSession, serviceVars, Released,
     live
<1> QED
  BY <1>1, <1>2, <1>3, <1>4, <1>5, <1>6, <1>7, <1>8, <1>9, <1>10, <1>11

LEMMA ReasoningSelectedInv ==
    ASSUME Inv, reasoningSelected
    PROVE  Inv'
<1> USE TurnsAssumption, BusAssumption DEF Inv
<1>1. Types'
  BY DEF reasoningSelected, busVars, dispatchVars, fiberVars, requestVars, serviceVars, Types,
     Runtime!ServiceTypeOK, BusTypes, DispatchTypes, TurnTypes, SessionTypes, RequestTypes
<1>2. Permit'
  BY DEF reasoningSelected, busVars, dispatchVars, requestVars, Permit
<1>3. TurnHolds'
  BY DEF reasoningSelected, dispatchVars, fiberVars, TurnHolds, live
<1>4. Latched'
  BY DEF reasoningSelected, fiberVars, Latched, live
<1>5. Promised'
  BY DEF reasoningSelected, busVars, fiberVars, requestVars, Promised
<1>6. RoleFollowsTurn'
  BY DEF reasoningSelected, fiberVars, RoleFollowsTurn, live
<1>7. SessionOf'
  BY DEF reasoningSelected, fiberVars, serviceVars, SessionOf
<1>8. Claims'
  BY DEF reasoningSelected, serviceVars, Claims
<1>9. Kept'
  BY DEF reasoningSelected, fiberVars, serviceVars, Kept
<1>10. Occupied'
  BY DEF reasoningSelected, fiberVars, serviceVars, Occupied
<1>11. Apart'
  BY DEF reasoningSelected, fiberVars, serviceVars, Apart
<1> QED
  BY <1>1, <1>2, <1>3, <1>4, <1>5, <1>6, <1>7, <1>8, <1>9, <1>10, <1>11

LEMMA DispatchInv ==
    ASSUME Inv, NEW c \in Commands, dispatch(c)
    PROVE  Inv'
<1> USE TurnsAssumption, BusAssumption DEF Inv
<1>1. Types'
  BY DEF dispatch, others, busVars, fiberVars, sessionVars, requestVars, serviceVars, Types,
     Runtime!ServiceTypeOK, BusTypes, DispatchTypes, TurnTypes, SessionTypes, RequestTypes
<1>2. Permit'
  BY DEF dispatch, others, busVars, requestVars, Permit, Types, DispatchTypes, Busy
<1>3. TurnHolds'
  BY DEF dispatch, fiberVars, TurnHolds, live
<1>4. Latched'
  BY DEF dispatch, fiberVars, Latched, live
<1>5. Promised'
  BY DEF dispatch, others, busVars, fiberVars, requestVars, Promised
<1>6. RoleFollowsTurn'
  BY DEF dispatch, fiberVars, RoleFollowsTurn, live
<1>7. SessionOf'
  BY DEF dispatch, others, fiberVars, sessionVars, serviceVars, SessionOf
<1>8. Claims'
  BY DEF dispatch, others, serviceVars, Claims
<1>9. Kept'
  BY DEF dispatch, others, fiberVars, sessionVars, serviceVars, Kept
<1>10. Occupied'
  BY DEF dispatch, others, fiberVars, sessionVars, serviceVars, Occupied
<1>11. Apart'
  BY DEF dispatch, others, fiberVars, sessionVars, serviceVars, Apart
<1> QED
  BY <1>1, <1>2, <1>3, <1>4, <1>5, <1>6, <1>7, <1>8, <1>9, <1>10, <1>11

LEMMA StartShapeInv ==
    ASSUME Inv, NEW c \in Shapes, startShape(c)
    PROVE  Inv'
<1> USE TurnsAssumption, BusAssumption DEF Inv
<1>a. /\ call[c] = "waiting" /\ fiber[c] = "none" /\ result[c] = "none"
      /\ \A d \in Commands : call[d] \notin Busy
      /\ \A d \in Shapes : ~live(d) /\ proposals[d] = "off"
  BY Granted DEF startShape, Commands
<1>1. Types'
  <2>1. BusTypes'
    BY DEF startShape, others, busVars, Types, BusTypes
  <2>2. DispatchTypes'
    BY DEF startShape, granted, finishes, others, requestVars, Types, DispatchTypes
  <2>3. TurnTypes'
    BY DEF startShape, Types, TurnTypes
  <2>4. SessionTypes'
    BY DEF startShape, others, sessionVars, Types, SessionTypes
  <2>5. RequestTypes'
    BY DEF startShape, others, requestVars, Types, RequestTypes
  <2>6. Runtime!ServiceTypeOK'
    BY DEF startShape, others, serviceVars, Types, Runtime!ServiceTypeOK
  <2> QED
    BY <2>1, <2>2, <2>3, <2>4, <2>5, <2>6 DEF Types
<1>2. Permit'
  <2>1. /\ waiting \in Seq(Commands \union Requests) /\ waiting # <<>> /\ waiting[1] = c
        /\ waiting' = Tail(waiting) /\ UNCHANGED <<taken, nested, what>>
    BY DEF startShape, granted, others, busVars, requestVars, Types, DispatchTypes
  <2>2. /\ Len(waiting') = Len(waiting) - 1 /\ Len(waiting) \in Nat
        /\ \A i \in 1..Len(waiting') : waiting'[i] = waiting[i + 1] /\ i + 1 \in 1..Len(waiting)
    BY <2>1
  <2>3. \A i \in 1..Len(waiting') : waiting'[i] # c
    BY <2>1, <2>2 DEF Permit
  <2>4. /\ \A d \in Commands : d # c => call'[d] = call[d]
        /\ call'[c] = "over" \/ (call'[c] = "turn" /\ holder' = c)
    BY <1>a DEF startShape, finishes, Types, DispatchTypes, Commands
  <2>5. \A i, j \in 1..Len(waiting') : waiting'[i] = waiting'[j] => i = j
    BY <2>2 DEF Permit
  <2>6. \A i \in 1..Len(waiting') :
          /\ waiting'[i] \in Commands => call'[waiting'[i]] = "waiting"
          /\ waiting'[i] \in Requests => waiting'[i] = taken' /\ nested' = "waiting"
    BY <2>1, <2>2, <2>3, <2>4 DEF Permit
  <2>7. \A d \in Commands : call'[d] \in Busy => holder' = d
    BY <1>a, <2>4 DEF Busy
  <2> QED
    BY <2>1, <2>5, <2>6, <2>7 DEF Permit
<1>3. TurnHolds'
  BY <1>a DEF startShape, finishes, TurnHolds, Types, DispatchTypes, TurnTypes, live, Commands
<1>4. Latched'
  BY <1>a DEF startShape, Latched
<1>5. Promised'
  BY <1>a DEF startShape, others, busVars, requestVars, Promised, Types, TurnTypes
<1>6. RoleFollowsTurn'
  BY <1>a DEF startShape, setStatus, RoleFollowsTurn, Types, TurnTypes, live
<1>7. SessionOf'
  BY <1>a DEF startShape, others, sessionVars, serviceVars, SessionOf, Types, TurnTypes
<1>8. Claims'
  BY DEF startShape, others, serviceVars, Claims
<1>9. Kept'
  BY <1>a DEF startShape, others, sessionVars, serviceVars, Kept, Types, TurnTypes
<1>10. Occupied'
  BY <1>a DEF startShape, others, sessionVars, serviceVars, Occupied, Types, TurnTypes,
     Runtime!ServiceTypeOK, Prompts
<1>11. Apart'
  BY <1>a DEF startShape, others, sessionVars, serviceVars, Apart, Types, TurnTypes
<1> QED
  BY <1>1, <1>2, <1>3, <1>4, <1>5, <1>6, <1>7, <1>8, <1>9, <1>10, <1>11

LEMMA StartCancelInv ==
    ASSUME Inv, NEW c \in Cancels, startCancel(c)
    PROVE  Inv'
<1> USE TurnsAssumption, BusAssumption DEF Inv
<1>1. Types'
  BY DEF startCancel, granted, busVars, fiberVars, sessionVars, requestVars, serviceVars, Types,
     Runtime!ServiceTypeOK, Commands, BusTypes, DispatchTypes, TurnTypes, SessionTypes,
     RequestTypes
<1>2. Permit'
  BY DEF startCancel, granted, busVars, requestVars, Permit
<1>3. TurnHolds'
  BY DEF startCancel, granted, fiberVars, TurnHolds, Types, DispatchTypes, live, Permit
<1>4. Latched'
  BY DEF startCancel, fiberVars, Latched, live
<1>5. Promised'
  BY DEF startCancel, busVars, fiberVars, requestVars, Promised
<1>6. RoleFollowsTurn'
  BY DEF startCancel, granted, setStatus, fiberVars, RoleFollowsTurn, live, TurnHolds, Permit,
     Busy, Commands
<1>7. SessionOf'
  BY DEF startCancel, fiberVars, sessionVars, serviceVars, SessionOf
<1>8. Claims'
  BY DEF startCancel, serviceVars, Claims
<1>9. Kept'
  BY DEF startCancel, fiberVars, sessionVars, serviceVars, Kept
<1>10. Occupied'
  BY DEF startCancel, fiberVars, sessionVars, serviceVars, Occupied
<1>11. Apart'
  BY DEF startCancel, fiberVars, sessionVars, serviceVars, Apart
<1> QED
  BY <1>1, <1>2, <1>3, <1>4, <1>5, <1>6, <1>7, <1>8, <1>9, <1>10, <1>11

LEMMA CancelInv ==
    ASSUME Inv, NEW c \in Cancels, cancel(c)
    PROVE  Inv'
<1> USE TurnsAssumption, BusAssumption DEF Inv
<1> SUFFICES ASSUME NEW x, x = stopping.fiber PROVE Inv'
  OBVIOUS
<1>a. x \in Shapes \union {NoCommand} /\ interrupt(x)
  BY DEF cancel, Types, DispatchTypes
<1>b. /\ TurnTypes' /\ orphaned' \subseteq Sessions
      /\ \A d \in Shapes :
           IF d = x /\ live(x)
           THEN /\ fiber'[d] = "ended" /\ result'[d] = "interrupted"
                /\ proposals'[d] = "off" /\ outcome'[d] = outcome[d]
           ELSE /\ fiber'[d] = fiber[d] /\ result'[d] = result[d]
                /\ proposals'[d] = proposals[d] /\ outcome'[d] = outcome[d]
                /\ attempt'[d] = attempt[d] /\ sid'[d] = sid[d]
      /\ orphaned \subseteq orphaned'
      /\ x \in Shapes /\ fiber[x] = "created" => sid[x] \in orphaned'
      /\ \A o \in orphaned' \ orphaned :
           x \in Shapes /\ fiber[x] = "created" /\ o = sid[x]
  BY <1>a, Interrupted
<1>c. \A d \in Shapes : ~live(d) /\ proposals[d] = "off"
  BY Exclusive DEF cancel, Commands
<1>d. \A d \in Shapes : fiber'[d] = fiber[d] /\ fiber[d] \in {"none", "ended"}
  BY <1>b, <1>c DEF live
<1>1. Types'
  <2>1. BusTypes'
    BY DEF cancel, interrupt, interruptSubmit, leave, completed, busVars, Types, BusTypes
  <2>2. DispatchTypes'
    BY DEF cancel, finishes, requestVars, Types, DispatchTypes, Nobody, Commands
  <2>3. TurnTypes'
    BY <1>b DEF cancel
  <2>4. SessionTypes'
    BY <1>b DEF cancel, sessionVars, Types, SessionTypes
  <2>5. RequestTypes'
    BY DEF cancel, requestVars, Types, RequestTypes
  <2>6. Runtime!ServiceTypeOK'
    BY DEF cancel, cancelReply, Runtime!Cancel, finishes, interrupt, ends, interruptSubmit, leave,
       completed, busVars, dispatchVars, fiberVars, sessionVars, requestVars, serviceVars, Types,
       Runtime!ServiceTypeOK, Released, Nobody, NoPrompt, Prompts, Commands
  <2> QED
    BY <2>1, <2>2, <2>3, <2>4, <2>5, <2>6 DEF Types
<1>2. Permit'
  BY DEF cancel, finishes, interrupt, interruptSubmit, leave, busVars, requestVars, Permit, Types,
     DispatchTypes, Commands, Busy
<1>3. TurnHolds'
  BY <1>b, <1>c DEF cancel, finishes, TurnHolds, live
<1>4. Latched'
  BY <1>b, <1>c DEF cancel, Latched
<1>5. Promised'
  BY DEF cancel, interrupt, ends, interruptSubmit, leave, completed, busVars, fiberVars,
     requestVars, serviceVars, Promised, Types, BusTypes, TurnTypes, RequestTypes
<1>6. RoleFollowsTurn'
  BY <1>b DEF cancel, RoleFollowsTurn, live, TurnHolds, Permit, Busy, Commands
<1>7. SessionOf'
  BY <1>d DEF SessionOf
<1>8. Claims'
  BY <1>b, <1>c DEF cancel, cancelReply, Runtime!Cancel, serviceVars, Claims, Types,
     Runtime!ServiceTypeOK
<1>9. Kept'
  BY <1>b, <1>c DEF cancel, cancelReply, Runtime!Cancel, sessionVars, serviceVars, Kept
<1>10. Occupied'
  BY <1>b, <1>c DEF cancel, cancelReply, Runtime!Cancel, sessionVars, serviceVars, Occupied,
     Types, Runtime!ServiceTypeOK, Prompts, live
<1>11. Apart'
  <2>1. service' = service /\ UNCHANGED sessionVars
    BY <1>c DEF cancel, cancelReply, Runtime!Cancel, serviceVars
  <2>2. QED
    BY <1>b, <2>1, StaysApart DEF sessionVars, live
<1> QED
  BY <1>1, <1>2, <1>3, <1>4, <1>5, <1>6, <1>7, <1>8, <1>9, <1>10, <1>11

LEMMA CancelFailsInv ==
    ASSUME Inv, NEW c \in Cancels, cancelFails(c)
    PROVE  Inv'
<1> USE TurnsAssumption, BusAssumption DEF Inv
<1>1. Types'
  <2>1. BusTypes'
    BY DEF cancelFails, busVars, Types, BusTypes
  <2>2. DispatchTypes'
    BY DEF cancelFails, finishes, requestVars, Types, DispatchTypes, Nobody, Commands
  <2>3. TurnTypes'
    BY DEF cancelFails, fiberVars, Types, TurnTypes
  <2>4. SessionTypes'
    BY DEF cancelFails, sessionVars, Types, SessionTypes
  <2>5. RequestTypes'
    BY DEF cancelFails, requestVars, Types, RequestTypes
  <2>6. Runtime!ServiceTypeOK'
    BY DEF cancelFails, serviceVars, Types, Runtime!ServiceTypeOK
  <2> QED
    BY <2>1, <2>2, <2>3, <2>4, <2>5, <2>6 DEF Types
<1>2. Permit'
  BY DEF cancelFails, finishes, busVars, requestVars, Permit, Types, DispatchTypes, Commands, Busy
<1>3. TurnHolds'
  BY DEF cancelFails, finishes, fiberVars, TurnHolds, live
<1>4. Latched'
  BY DEF cancelFails, fiberVars, Latched, live
<1>5. Promised'
  BY DEF cancelFails, busVars, fiberVars, requestVars, Promised
<1>6. RoleFollowsTurn'
  BY DEF cancelFails, fiberVars, RoleFollowsTurn, live
<1>7. SessionOf'
  BY DEF cancelFails, fiberVars, sessionVars, serviceVars, SessionOf
<1>8. Claims'
  BY DEF cancelFails, serviceVars, Claims
<1>9. Kept'
  BY DEF cancelFails, fiberVars, sessionVars, serviceVars, Kept
<1>10. Occupied'
  BY DEF cancelFails, fiberVars, sessionVars, serviceVars, Occupied
<1>11. Apart'
  BY DEF cancelFails, fiberVars, sessionVars, serviceVars, Apart
<1> QED
  BY <1>1, <1>2, <1>3, <1>4, <1>5, <1>6, <1>7, <1>8, <1>9, <1>10, <1>11

LEMMA StartSelectInv ==
    ASSUME Inv, NEW c \in Selects, startSelect(c)
    PROVE  Inv'
<1> USE TurnsAssumption, BusAssumption DEF Inv
<1> SUFFICES ASSUME NEW x, x = roleFiber PROVE Inv'
  OBVIOUS
<1>a. x \in Shapes \union {NoCommand} /\ interrupt(x)
  BY DEF startSelect, resetSession, Types, DispatchTypes
<1>b. /\ TurnTypes' /\ orphaned' \subseteq Sessions
      /\ \A d \in Shapes :
           IF d = x /\ live(x)
           THEN /\ fiber'[d] = "ended" /\ result'[d] = "interrupted"
                /\ proposals'[d] = "off" /\ outcome'[d] = outcome[d]
           ELSE /\ fiber'[d] = fiber[d] /\ result'[d] = result[d]
                /\ proposals'[d] = proposals[d] /\ outcome'[d] = outcome[d]
                /\ attempt'[d] = attempt[d] /\ sid'[d] = sid[d]
      /\ orphaned \subseteq orphaned'
      /\ x \in Shapes /\ fiber[x] = "created" => sid[x] \in orphaned'
      /\ \A o \in orphaned' \ orphaned :
           x \in Shapes /\ fiber[x] = "created" /\ o = sid[x]
  BY <1>a, Interrupted
<1>c. \A d \in Shapes : ~live(d) /\ proposals[d] = "off"
  BY Granted DEF startSelect, Commands
<1>d. \A d \in Shapes : fiber'[d] = fiber[d] /\ fiber[d] \in {"none", "ended"}
  BY <1>b, <1>c DEF live
<1>e. call[c] = "waiting"
  BY Granted DEF startSelect, Commands
<1>1. Types'
  <2>1. BusTypes'
    BY DEF startSelect, resetSession, interrupt, interruptSubmit, leave, completed, busVars,
       Types, BusTypes
  <2>2. DispatchTypes'
    BY DEF startSelect, granted, resetSession, requestVars, Types, DispatchTypes, Commands
  <2>3. TurnTypes'
    BY <1>b DEF startSelect
  <2>4. SessionTypes'
    BY <1>b DEF startSelect, releaseSession, Types, SessionTypes, Released, resetSession
  <2>5. RequestTypes'
    BY DEF startSelect, requestVars, Types, RequestTypes
  <2>6. Runtime!ServiceTypeOK'
    BY DEF startSelect, serviceVars, Types, Runtime!ServiceTypeOK
  <2> QED
    BY <2>1, <2>2, <2>3, <2>4, <2>5, <2>6 DEF Types
<1>2. Permit'
  BY DEF startSelect, granted, resetSession, interrupt, interruptSubmit, leave, busVars,
     requestVars, Permit
<1>3. TurnHolds'
  <2>1. call' = [call EXCEPT ![c] = "selecting"] /\ c \in Commands
    BY DEF startSelect, Commands
  <2>2. \A d \in Shapes : result'[d] = result[d]
    BY <1>b, <1>c
  <2> QED
    BY <1>d, <1>e, <2>1, <2>2 DEF TurnHolds, live
<1>4. Latched'
  BY <1>b, <1>c DEF startSelect, Latched
<1>5. Promised'
  BY DEF startSelect, resetSession, interrupt, ends, interruptSubmit, leave, completed, busVars,
     fiberVars, requestVars, Promised, Types, BusTypes, TurnTypes, Latched
<1>6. RoleFollowsTurn'
  BY <1>b DEF startSelect, resetSession, interrupt, fiberVars, RoleFollowsTurn, live
<1>7. SessionOf'
  BY <1>d DEF SessionOf
<1>8. Claims'
  BY <1>b, <1>c DEF startSelect, serviceVars, Claims
<1>9. Kept'
  BY <1>b, <1>c DEF startSelect, resetSession, releaseSession, serviceVars, Kept
<1>10. Occupied'
  BY <1>b, <1>c DEF startSelect, resetSession, releaseSession, serviceVars, Occupied, Types,
     TurnTypes, Released
<1>11. Apart'
  BY <1>b, <1>c, StaysApart DEF startSelect, resetSession, releaseSession, serviceVars,
     Released, live
<1> QED
  BY <1>1, <1>2, <1>3, <1>4, <1>5, <1>6, <1>7, <1>8, <1>9, <1>10, <1>11

LEMMA SelectModelInv ==
    ASSUME Inv, NEW c \in Selects, selectModel(c)
    PROVE  Inv'
<1> USE TurnsAssumption, BusAssumption DEF Inv
<1>1. Types'
  <2>1. BusTypes'
    BY DEF selectModel, busVars, Types, BusTypes
  <2>2. DispatchTypes'
    BY DEF selectModel, finishes, requestVars, Types, DispatchTypes, Nobody, Commands
  <2>3. TurnTypes'
    BY DEF selectModel, fiberVars, Types, TurnTypes
  <2>4. SessionTypes'
    BY DEF selectModel, Types, SessionTypes
  <2>5. RequestTypes'
    BY DEF selectModel, requestVars, Types, RequestTypes
  <2>6. Runtime!ServiceTypeOK'
    BY DEF selectModel, serviceVars, Types, Runtime!ServiceTypeOK
  <2> QED
    BY <2>1, <2>2, <2>3, <2>4, <2>5, <2>6 DEF Types
<1>2. Permit'
  BY DEF selectModel, finishes, busVars, requestVars, Permit, Types, DispatchTypes, Commands, Busy
<1>3. TurnHolds'
  BY DEF selectModel, finishes, fiberVars, TurnHolds, live
<1>4. Latched'
  BY DEF selectModel, fiberVars, Latched, live
<1>5. Promised'
  BY DEF selectModel, busVars, fiberVars, requestVars, Promised
<1>6. RoleFollowsTurn'
  BY DEF selectModel, setStatus, fiberVars, RoleFollowsTurn, live, TurnHolds, Permit, Busy,
     Commands
<1>7. SessionOf'
  BY DEF selectModel, fiberVars, serviceVars, SessionOf
<1>8. Claims'
  BY DEF selectModel, serviceVars, Claims
<1>9. Kept'
  BY DEF selectModel, fiberVars, serviceVars, Kept
<1>10. Occupied'
  BY DEF selectModel, fiberVars, serviceVars, Occupied
<1>11. Apart'
  BY DEF selectModel, fiberVars, serviceVars, Apart
<1> QED
  BY <1>1, <1>2, <1>3, <1>4, <1>5, <1>6, <1>7, <1>8, <1>9, <1>10, <1>11

LEMMA FinishTurnInv ==
    ASSUME Inv, NEW c \in Shapes, finishTurn(c)
    PROVE  Inv'
<1> USE TurnsAssumption, BusAssumption DEF Inv
<1>1. Types'
  <2>1. BusTypes'
    BY DEF finishTurn, others, busVars, Types, BusTypes
  <2>2. DispatchTypes'
    BY DEF finishTurn, finishes, others, requestVars, Types, DispatchTypes
  <2>3. TurnTypes'
    BY DEF finishTurn, fiberVars, Types, TurnTypes
  <2>4. SessionTypes'
    BY DEF finishTurn, others, sessionVars, Types, SessionTypes
  <2>5. RequestTypes'
    BY DEF finishTurn, others, requestVars, Types, RequestTypes
  <2>6. Runtime!ServiceTypeOK'
    BY DEF finishTurn, others, serviceVars, Types, Runtime!ServiceTypeOK
  <2> QED
    BY <2>1, <2>2, <2>3, <2>4, <2>5, <2>6 DEF Types
<1>2. Permit'
  BY DEF finishTurn, finishes, others, busVars, requestVars, Permit, Types, DispatchTypes,
     Commands, Busy
<1>3. TurnHolds'
  BY DEF finishTurn, finishes, fiberVars, TurnHolds, Types, DispatchTypes, live, Permit, Busy,
     Commands
<1>4. Latched'
  BY DEF finishTurn, fiberVars, Latched, live
<1>5. Promised'
  BY DEF finishTurn, others, busVars, fiberVars, requestVars, Promised
<1>6. RoleFollowsTurn'
  BY DEF finishTurn, fiberVars, RoleFollowsTurn, live
<1>7. SessionOf'
  BY DEF finishTurn, others, fiberVars, sessionVars, serviceVars, SessionOf
<1>8. Claims'
  BY DEF finishTurn, others, serviceVars, Claims
<1>9. Kept'
  BY DEF finishTurn, others, fiberVars, sessionVars, serviceVars, Kept
<1>10. Occupied'
  BY DEF finishTurn, others, fiberVars, sessionVars, serviceVars, Occupied
<1>11. Apart'
  BY DEF finishTurn, others, fiberVars, sessionVars, serviceVars, Apart
<1> QED
  BY <1>1, <1>2, <1>3, <1>4, <1>5, <1>6, <1>7, <1>8, <1>9, <1>10, <1>11

LEMMA AppliedInv ==
    ASSUME Inv, NEW c \in Shapes, applied(c)
    PROVE  Inv'
<1> USE TurnsAssumption, BusAssumption DEF Inv
<1>1. Types'
  BY DEF applied, finishes, others, busVars, fiberVars, sessionVars, requestVars, serviceVars,
     Types, Runtime!ServiceTypeOK, Commands, BusTypes, DispatchTypes, TurnTypes, SessionTypes,
     RequestTypes
<1>2. Permit'
  BY DEF applied, finishes, others, busVars, requestVars, Permit, Types, DispatchTypes, Commands,
     Busy
<1>3. TurnHolds'
  BY DEF applied, finishes, fiberVars, TurnHolds, live
<1>4. Latched'
  BY DEF applied, fiberVars, Latched, live
<1>5. Promised'
  BY DEF applied, others, busVars, fiberVars, requestVars, Promised
<1>6. RoleFollowsTurn'
  BY DEF applied, fiberVars, RoleFollowsTurn, live
<1>7. SessionOf'
  BY DEF applied, others, fiberVars, sessionVars, serviceVars, SessionOf
<1>8. Claims'
  BY DEF applied, others, serviceVars, Claims
<1>9. Kept'
  BY DEF applied, others, fiberVars, sessionVars, serviceVars, Kept
<1>10. Occupied'
  BY DEF applied, others, fiberVars, sessionVars, serviceVars, Occupied
<1>11. Apart'
  BY DEF applied, others, fiberVars, sessionVars, serviceVars, Apart
<1> QED
  BY <1>1, <1>2, <1>3, <1>4, <1>5, <1>6, <1>7, <1>8, <1>9, <1>10, <1>11

LEMMA RevokeInv ==
    ASSUME Inv, NEW c \in Commands, revoke(c)
    PROVE  Inv'
<1> USE TurnsAssumption, BusAssumption DEF Inv
<1>a. ASSUME call[c] = "waiting"
      PROVE  /\ waiting' \in Seq(Commands \union Requests)
             /\ \A i, j \in 1..Len(waiting') : waiting'[i] = waiting'[j] => i = j
             /\ \A i \in 1..Len(waiting') :
                   waiting'[i] # c /\ \E k \in 1..Len(waiting) : waiting'[i] = waiting[k]
  <2>1. PICK i \in 1..Len(waiting) : waiting[i] = c /\ waiting' = RemoveAt(waiting, i)
    BY <1>a DEF revoke
  <2>2. waiting \in Seq(Commands \union Requests) /\ i \in DOMAIN waiting
    BY <2>1 DEF Types, DispatchTypes
  <2>3. \A j, k \in 1..Len(waiting) : waiting[j] = waiting[k] => j = k
    BY DEF Permit
  <2>4. waiting' \in Seq(Commands \union Requests)
    BY <2>1, <2>2, Removed
  <2>5. LET p == RemoveAt(waiting, i) IN
        /\ \A j, k \in 1..Len(p) : p[j] = p[k] => j = k
        /\ \A j \in 1..Len(p) : p[j] # waiting[i] /\ \E k \in 1..Len(waiting) : p[j] = waiting[k]
    BY <2>2, <2>3, RemovedIsGone
  <2> QED
    BY <2>1, <2>4, <2>5
<1>1. Types'
  <2>1. BusTypes'
    BY DEF revoke, busVars, Types, BusTypes
  <2>2. DispatchTypes'
    <3>1. waiting' \in Seq(Commands \union Requests)
      BY <1>a DEF revoke, Types, DispatchTypes
    <3> QED
    BY <3>1 DEF revoke, finishes, requestVars, Types, DispatchTypes, Nobody
  <2>3. TurnTypes'
    BY DEF revoke, fiberVars, Types, TurnTypes
  <2>4. SessionTypes'
    BY DEF revoke, sessionVars, Types, SessionTypes
  <2>5. RequestTypes'
    BY DEF revoke, requestVars, Types, RequestTypes
  <2>6. Runtime!ServiceTypeOK'
    BY DEF revoke, serviceVars, Types, Runtime!ServiceTypeOK
  <2> QED
    BY <2>1, <2>2, <2>3, <2>4, <2>5, <2>6 DEF Types
<1>2. Permit'
  <2>1. UNCHANGED <<taken, nested, what>> /\ c \in Commands
    BY DEF revoke, busVars, requestVars
  <2>2. CASE call[c] = "waiting"
    <3>1. call' = [call EXCEPT ![c] = "over"] /\ UNCHANGED holder
      BY <2>2 DEF revoke
    <3>2. \A i \in 1..Len(waiting') :
            /\ waiting'[i] \in Commands => call'[waiting'[i]] = "waiting"
            /\ waiting'[i] \in Requests => waiting'[i] = taken' /\ nested' = "waiting"
      BY <1>a, <2>1, <2>2, <3>1 DEF Permit, DispatchTypes
    <3>3. \A d \in Commands : call'[d] \in Busy => holder' = d
      BY <2>1, <3>1 DEF Permit, Busy
    <3> QED
      BY <1>a, <2>1, <2>2, <3>2, <3>3 DEF Permit
  <2>3. CASE call[c] # "waiting"
    <3>1. /\ UNCHANGED waiting
          /\ IF call[c] = "turn" THEN call' = [call EXCEPT ![c] = "revoked"] /\ UNCHANGED holder
             ELSE finishes(c)
          /\ call[c] \in Busy
      BY <2>3 DEF revoke, Types, DispatchTypes, Busy
    <3>2. \A i \in 1..Len(waiting') :
            /\ waiting'[i] \in Commands => call'[waiting'[i]] = "waiting"
            /\ waiting'[i] \in Requests => waiting'[i] = taken' /\ nested' = "waiting"
      BY <2>1, <2>3, <3>1 DEF Permit, Types, DispatchTypes, finishes
    <3>3. \A d \in Commands : call'[d] \in Busy => holder' = d
      BY <2>1, <3>1 DEF Permit, Types, DispatchTypes, Busy, finishes
    <3> QED
      BY <2>1, <3>1, <3>2, <3>3 DEF Permit
  <2> QED
    BY <2>2, <2>3
<1>3. TurnHolds'
  BY DEF revoke, finishes, fiberVars, TurnHolds, Types, DispatchTypes, live, Commands
<1>4. Latched'
  BY DEF revoke, fiberVars, Latched, live
<1>5. Promised'
  BY DEF revoke, busVars, fiberVars, requestVars, Promised
<1>6. RoleFollowsTurn'
  BY DEF revoke, fiberVars, RoleFollowsTurn, live
<1>7. SessionOf'
  BY DEF revoke, fiberVars, sessionVars, serviceVars, SessionOf
<1>8. Claims'
  BY DEF revoke, serviceVars, Claims
<1>9. Kept'
  BY DEF revoke, fiberVars, sessionVars, serviceVars, Kept
<1>10. Occupied'
  BY DEF revoke, fiberVars, sessionVars, serviceVars, Occupied
<1>11. Apart'
  BY DEF revoke, fiberVars, sessionVars, serviceVars, Apart
<1> QED
  BY <1>1, <1>2, <1>3, <1>4, <1>5, <1>6, <1>7, <1>8, <1>9, <1>10, <1>11

LEMMA RevokedInv ==
    ASSUME Inv, NEW c \in Shapes, revoked(c)
    PROVE  Inv'
<1> USE TurnsAssumption, BusAssumption DEF Inv
<1>a. interrupt(c)
  BY DEF revoked
<1>b. /\ TurnTypes' /\ orphaned' \subseteq Sessions
      /\ \A d \in Shapes :
           IF d = c /\ live(c)
           THEN /\ fiber'[d] = "ended" /\ result'[d] = "interrupted"
                /\ proposals'[d] = "off" /\ outcome'[d] = outcome[d]
           ELSE /\ fiber'[d] = fiber[d] /\ result'[d] = result[d]
                /\ proposals'[d] = proposals[d] /\ outcome'[d] = outcome[d]
                /\ attempt'[d] = attempt[d] /\ sid'[d] = sid[d]
      /\ orphaned \subseteq orphaned'
      /\ c \in Shapes /\ fiber[c] = "created" => sid[c] \in orphaned'
      /\ \A o \in orphaned' \ orphaned :
           c \in Shapes /\ fiber[c] = "created" /\ o = sid[c]
  BY <1>a, Interrupted
<1>1. Types'
  <2>1. BusTypes'
    BY DEF revoked, interrupt, interruptSubmit, leave, completed, busVars, Types, BusTypes
  <2>2. DispatchTypes'
    BY DEF revoked, finishes, requestVars, Types, DispatchTypes, Commands
  <2>3. TurnTypes'
    BY <1>b DEF revoked
  <2>4. SessionTypes'
    BY <1>b DEF revoked, sessionVars, Types, SessionTypes
  <2>5. RequestTypes'
    BY DEF revoked, requestVars, Types, RequestTypes
  <2>6. Runtime!ServiceTypeOK'
    BY DEF revoked, serviceVars, Types, Runtime!ServiceTypeOK
  <2> QED
    BY <2>1, <2>2, <2>3, <2>4, <2>5, <2>6 DEF Types
<1>2. Permit'
  BY DEF revoked, finishes, interrupt, interruptSubmit, leave, busVars, requestVars, Permit,
     Types, DispatchTypes, Commands, Busy
<1>3. TurnHolds'
  BY <1>b DEF revoked, finishes, TurnHolds, live, Permit, Busy, Commands
<1>4. Latched'
  BY <1>b DEF revoked, Latched, live
<1>5. Promised'
  BY DEF revoked, interrupt, ends, interruptSubmit, leave, completed, busVars, fiberVars,
     requestVars, Promised, Types, BusTypes, TurnTypes
<1>6. RoleFollowsTurn'
  BY <1>b DEF revoked, interrupt, fiberVars, RoleFollowsTurn, live
<1>7. SessionOf'
  BY <1>b DEF revoked, sessionVars, serviceVars, SessionOf
<1>8. Claims'
  BY <1>b DEF revoked, serviceVars, Claims
<1>9. Kept'
  BY <1>b DEF revoked, sessionVars, serviceVars, Kept
<1>10. Occupied'
  BY <1>b DEF revoked, sessionVars, serviceVars, Occupied, Types, Runtime!ServiceTypeOK, Prompts
<1>11. Apart'
  BY <1>b, StaysApart DEF revoked, sessionVars, serviceVars, live
<1> QED
  BY <1>1, <1>2, <1>3, <1>4, <1>5, <1>6, <1>7, <1>8, <1>9, <1>10, <1>11

LEMMA BeginTurnInv ==
    ASSUME Inv, NEW c \in Shapes, beginTurn(c)
    PROVE  Inv'
<1> USE TurnsAssumption, BusAssumption DEF Inv
<1>1. Types'
  BY DEF beginTurn, turnOthers, busVars, dispatchVars, sessionVars, requestVars, serviceVars,
     Types, Runtime!ServiceTypeOK, BusTypes, DispatchTypes, TurnTypes, SessionTypes, RequestTypes
<1>2. Permit'
  BY DEF beginTurn, turnOthers, busVars, dispatchVars, requestVars, Permit, Commands, Busy
<1>3. TurnHolds'
  BY DEF beginTurn, turnOthers, dispatchVars, TurnHolds, live, Permit, Busy, Commands
<1>4. Latched'
  BY DEF beginTurn, Latched, Types, TurnTypes, live
<1>5. Promised'
  BY DEF beginTurn, busVars, requestVars, Promised, Latched
<1>6. RoleFollowsTurn'
  BY DEF beginTurn, RoleFollowsTurn, live
<1>7. SessionOf'
  BY DEF beginTurn, sessionVars, serviceVars, SessionOf
<1>8. Claims'
  BY DEF beginTurn, serviceVars, Claims
<1>9. Kept'
  BY DEF beginTurn, turnOthers, sessionVars, serviceVars, Kept
<1>10. Occupied'
  BY DEF beginTurn, sessionVars, serviceVars, Occupied
<1>11. Apart'
  BY DEF beginTurn, turnOthers, sessionVars, serviceVars, Apart
<1> QED
  BY <1>1, <1>2, <1>3, <1>4, <1>5, <1>6, <1>7, <1>8, <1>9, <1>10, <1>11

LEMMA EnsureSessionInv ==
    ASSUME Inv, NEW c \in Shapes, ensureSession(c)
    PROVE  Inv'
<1> USE TurnsAssumption, BusAssumption DEF Inv
<1>1. Types'
  <2>1. BusTypes'
    BY DEF ensureSession, busVars, Types, BusTypes
  <2>2. DispatchTypes'
    BY DEF ensureSession, turnOthers, dispatchVars, requestVars, Types, DispatchTypes
  <2>3. TurnTypes'
    BY DEF ensureSession, Types, TurnTypes, SessionTypes
  <2>4. SessionTypes'
    BY DEF ensureSession, turnOthers, sessionVars, Types, SessionTypes, Released
  <2>5. RequestTypes'
    BY DEF ensureSession, requestVars, Types, RequestTypes
  <2>6. Runtime!ServiceTypeOK'
    BY DEF ensureSession, serviceVars, Types, Runtime!ServiceTypeOK
  <2> QED
    BY <2>1, <2>2, <2>3, <2>4, <2>5, <2>6 DEF Types
<1>2. Permit'
  BY DEF ensureSession, turnOthers, busVars, dispatchVars, requestVars, Permit
<1>3. TurnHolds'
  BY DEF ensureSession, turnOthers, dispatchVars, TurnHolds, Types, TurnTypes, live
<1>4. Latched'
  BY DEF ensureSession, Latched, Types, TurnTypes, live
<1>5. Promised'
  BY DEF ensureSession, busVars, requestVars, Promised, Types, TurnTypes
<1>6. RoleFollowsTurn'
  BY DEF ensureSession, RoleFollowsTurn, Types, TurnTypes, live, TurnHolds
<1>7. SessionOf'
  BY DEF ensureSession, sessionVars, SessionOf, Types, TurnTypes, SessionTypes, Prompts,
     TurnHolds, live, Permit, Released
<1>8. Claims'
  BY DEF ensureSession, serviceVars, Claims
<1>9. Kept'
  BY DEF ensureSession, turnOthers, sessionVars, serviceVars, Kept, Types, TurnTypes
<1>10. Occupied'
  BY DEF ensureSession, sessionVars, serviceVars, Occupied, Types, TurnTypes,
     Runtime!ServiceTypeOK, Prompts, Released
<1>11. Apart'
  BY StaysApart DEF ensureSession, turnOthers, sessionVars, serviceVars, Released, Types, TurnTypes
<1> QED
  BY <1>1, <1>2, <1>3, <1>4, <1>5, <1>6, <1>7, <1>8, <1>9, <1>10, <1>11

LEMMA CreateSessionInv ==
    ASSUME Inv, NEW c \in Shapes, NEW s \in Sessions, createSession(c, s)
    PROVE  Inv'
<1> USE TurnsAssumption, BusAssumption DEF Inv
<1>1. Types'
  BY DEF createSession, turnOthers, Runtime!Open, busVars, dispatchVars, sessionVars, requestVars,
     Types, Runtime!ServiceTypeOK, BusTypes, DispatchTypes, TurnTypes, SessionTypes, RequestTypes
<1>2. Permit'
  BY DEF createSession, turnOthers, busVars, dispatchVars, requestVars, Permit, Busy
<1>3. TurnHolds'
  BY DEF createSession, turnOthers, dispatchVars, TurnHolds, live
<1>4. Latched'
  BY DEF createSession, Latched, live
<1>5. Promised'
  BY DEF createSession, busVars, requestVars, Promised
<1>6. RoleFollowsTurn'
  BY DEF createSession, RoleFollowsTurn, live
<1>7. SessionOf'
  BY DEF createSession, Runtime!Open, sessionVars, SessionOf, Types, TurnTypes, Claims
<1>8. Claims'
  BY DEF createSession, Runtime!Open, Claims
<1>9. Kept'
  BY DEF createSession, turnOthers, Runtime!Open, sessionVars, Kept, Types, TurnTypes
<1>10. Occupied'
  BY DEF createSession, Runtime!Open, sessionVars, Occupied
<1>11. Apart'
  <2>1. /\ service[s] = "fresh" /\ service' = [service EXCEPT ![s] = "open"]
        /\ UNCHANGED <<session, closingSessions, orphaned>>
        /\ fiber' = [fiber EXCEPT ![c] = "created"] /\ sid' = [sid EXCEPT ![c] = s]
    BY DEF createSession, turnOthers, Runtime!Open, sessionVars
  <2>2. s \notin closingSessions \union orphaned /\ session.id # s
    BY <2>1 DEF Apart
  <2>3. \A o \in Sessions : service'[o] = "fresh" => service[o] = "fresh" /\ o # s
    BY <2>1 DEF Types, Runtime!ServiceTypeOK
  <2>4. \A d \in Shapes : fiber'[d] = "created" =>
           (d = c /\ sid'[d] = s) \/ (fiber[d] = "created" /\ sid'[d] = sid[d])
    BY <2>1 DEF Types, TurnTypes
  <2>5. ASSUME NEW o \in Sessions, service'[o] = "fresh"
        PROVE  /\ o \notin closingSessions \union orphaned /\ session.id # o
               /\ \A d \in Shapes : fiber'[d] = "created" => sid'[d] # o
    <3>1. service[o] = "fresh" /\ o # s
      BY <2>3, <2>5
    <3>2. /\ o \notin closingSessions \union orphaned /\ session.id # o
          /\ \A d \in Shapes : fiber[d] = "created" => sid[d] # o
      BY <3>1 DEF Apart
    <3>3. QED
      BY <2>4, <3>1, <3>2
  <2>6. ASSUME NEW d \in Shapes, fiber'[d] = "created"
        PROVE  sid'[d] \notin closingSessions \union orphaned
    <3>1. CASE sid'[d] = s
      BY <2>2, <3>1
    <3>2. CASE fiber[d] = "created" /\ sid'[d] = sid[d]
      BY <3>2 DEF Apart, SessionOf
    <3>3. QED
      BY <2>4, <2>6, <3>1, <3>2
  <2>7. \A o \in Sessions : session.id = o => o \notin closingSessions \union orphaned
    BY DEF Apart
  <2>8. QED
    BY <2>1, <2>5, <2>6, <2>7 DEF Apart
<1> QED
  BY <1>1, <1>2, <1>3, <1>4, <1>5, <1>6, <1>7, <1>8, <1>9, <1>10, <1>11

LEMMA SessionCreatedInv ==
    ASSUME Inv, NEW c \in Shapes, sessionCreated(c)
    PROVE  Inv'
<1> USE TurnsAssumption, BusAssumption DEF Inv
<1>1. Types'
  BY DEF sessionCreated, turnOthers, busVars, dispatchVars, requestVars, serviceVars, Types,
     Runtime!ServiceTypeOK, BusTypes, DispatchTypes, TurnTypes, SessionTypes, RequestTypes
<1>2. Permit'
  BY DEF sessionCreated, turnOthers, busVars, dispatchVars, requestVars, Permit
<1>3. TurnHolds'
  BY DEF sessionCreated, turnOthers, dispatchVars, TurnHolds, live
<1>4. Latched'
  BY DEF sessionCreated, Latched, live
<1>5. Promised'
  BY DEF sessionCreated, busVars, requestVars, Promised
<1>6. RoleFollowsTurn'
  BY DEF sessionCreated, RoleFollowsTurn, live
<1>7. SessionOf'
  BY DEF sessionCreated, SessionOf, Types, TurnTypes, Prompts, TurnHolds, live, Permit, Busy,
     Commands
<1>8. Claims'
  BY DEF sessionCreated, serviceVars, Claims
<1>9. Kept'
  BY DEF sessionCreated, turnOthers, serviceVars, Kept, SessionOf
<1>10. Occupied'
  BY DEF sessionCreated, serviceVars, Occupied, SessionOf
<1>11. Apart'
  BY DEF sessionCreated, turnOthers, serviceVars, Apart, SessionOf
<1> QED
  BY <1>1, <1>2, <1>3, <1>4, <1>5, <1>6, <1>7, <1>8, <1>9, <1>10, <1>11

LEMMA CreateFailsInv ==
    ASSUME Inv, NEW c \in Shapes, createFails(c)
    PROVE  Inv'
<1> USE TurnsAssumption, BusAssumption DEF Inv
<1>1. Types'
  <2>1. BusTypes'
    BY DEF createFails, busVars, Types, BusTypes
  <2>2. DispatchTypes'
    BY DEF createFails, dispatchVars, requestVars, Types, DispatchTypes
  <2>3. TurnTypes'
    BY DEF createFails, fails, ends, Types, TurnTypes
  <2>4. SessionTypes'
    BY DEF createFails, sessionVars, SessionOf, Types, SessionTypes
  <2>5. RequestTypes'
    BY DEF createFails, requestVars, Types, RequestTypes
  <2>6. Runtime!ServiceTypeOK'
    BY DEF createFails, serviceVars, Types, Runtime!ServiceTypeOK
  <2> QED
    BY <2>1, <2>2, <2>3, <2>4, <2>5, <2>6 DEF Types
<1>2. Permit'
  BY DEF createFails, busVars, dispatchVars, requestVars, Permit
<1>3. TurnHolds'
  BY DEF createFails, fails, ends, dispatchVars, TurnHolds, Types, TurnTypes, live
<1>4. Latched'
  BY DEF createFails, fails, ends, Latched, Types, TurnTypes, live
<1>5. Promised'
  BY DEF createFails, fails, ends, busVars, requestVars, Promised, Types, TurnTypes
<1>6. RoleFollowsTurn'
  BY DEF createFails, fails, ends, setStatus, RoleFollowsTurn, Types, TurnTypes, live, TurnHolds,
     Permit, Busy, Commands
<1>7. SessionOf'
  BY DEF createFails, fails, ends, SessionOf, Types, TurnTypes, Occupied, Claims, TurnHolds, live,
     Permit, Busy, Commands
<1>8. Claims'
  BY DEF createFails, serviceVars, Claims
<1>9. Kept'
  BY DEF createFails, fails, ends, sessionVars, serviceVars, Kept
<1>10. Occupied'
  BY DEF createFails, fails, ends, sessionVars, serviceVars, Occupied, Types, TurnTypes,
     Released
<1>11. Apart'
  BY StaysApart DEF createFails, fails, ends, sessionVars, serviceVars, Types, TurnTypes
<1> QED
  BY <1>1, <1>2, <1>3, <1>4, <1>5, <1>6, <1>7, <1>8, <1>9, <1>10, <1>11

LEMMA ShapeInv ==
    ASSUME Inv, NEW c \in Shapes, shape(c)
    PROVE  Inv'
<1> USE TurnsAssumption, BusAssumption DEF Inv
<1>1. Types'
  <2>1. BusTypes'
    BY DEF shape, busVars, Types, BusTypes
  <2>2. DispatchTypes'
    BY DEF shape, turnOthers, dispatchVars, requestVars, Types, DispatchTypes
  <2>3. TurnTypes'
    BY DEF shape, Types, TurnTypes
  <2>4. SessionTypes'
    BY DEF shape, turnOthers, sessionVars, Types, SessionTypes
  <2>5. RequestTypes'
    BY DEF shape, requestVars, Types, RequestTypes
  <2>6. Runtime!ServiceTypeOK'
    <3>1. <<c, attempt[c]>> \in Prompts
      BY DEF Types, TurnTypes, Prompts
    <3>2. Runtime!Take(sid[c], <<c, attempt[c]>>)
      BY DEF shape
    <3> HIDE DEF Prompts
    <3> QED
      BY <3>1, <3>2 DEF Runtime!Take, Runtime!ServiceTypeOK, Types
  <2> QED
    BY <2>1, <2>2, <2>3, <2>4, <2>5, <2>6 DEF Types
<1>2. Permit'
  BY DEF shape, turnOthers, busVars, dispatchVars, requestVars, Permit
<1>3. TurnHolds'
  BY DEF shape, turnOthers, dispatchVars, TurnHolds, live
<1>4. Latched'
  BY DEF shape, Latched, live
<1>5. Promised'
  BY DEF shape, busVars, requestVars, Promised
<1>6. RoleFollowsTurn'
  BY DEF shape, RoleFollowsTurn, live
<1>7. SessionOf'
  BY DEF shape, sessionVars, SessionOf
<1>8. Claims'
  BY DEF shape, Runtime!Take, Claims
<1>9. Kept'
  BY DEF shape, turnOthers, Runtime!Take, sessionVars, Kept
<1>10. Occupied'
  BY DEF shape, Runtime!Take, sessionVars, Occupied, Types, TurnTypes, Runtime!ServiceTypeOK,
     Prompts, Claims
<1>11. Apart'
  BY DEF shape, turnOthers, Runtime!Take, sessionVars, Apart
<1> QED
  BY <1>1, <1>2, <1>3, <1>4, <1>5, <1>6, <1>7, <1>8, <1>9, <1>10, <1>11

LEMMA ShapeRefusedInv ==
    ASSUME Inv, NEW c \in Shapes, shapeRefused(c)
    PROVE  Inv'
<1> USE TurnsAssumption, BusAssumption DEF Inv
<1>1. Types'
  <2>1. BusTypes'
    BY DEF shapeRefused, busVars, Types, BusTypes
  <2>2. DispatchTypes'
    BY DEF shapeRefused, turnOthers, dispatchVars, requestVars, Types, DispatchTypes
  <2>3. TurnTypes'
    BY DEF shapeRefused, fails, ends, Types, TurnTypes
  <2>4. SessionTypes'
    BY DEF shapeRefused, turnOthers, releaseSession, sessionVars, Types, SessionTypes, Released
  <2>5. RequestTypes'
    BY DEF shapeRefused, requestVars, Types, RequestTypes
  <2>6. Runtime!ServiceTypeOK'
    BY DEF shapeRefused, turnOthers, Runtime!Refuse, fails, ends, setStatus, releaseSession,
       busVars, dispatchVars, fiberVars, sessionVars, requestVars, serviceVars, Types,
       Runtime!ServiceTypeOK, Released, Nobody, NoPrompt, Prompts, Commands
  <2> QED
    BY <2>1, <2>2, <2>3, <2>4, <2>5, <2>6 DEF Types
<1>2. Permit'
  BY DEF shapeRefused, turnOthers, busVars, dispatchVars, requestVars, Permit
<1>3. TurnHolds'
  BY DEF shapeRefused, turnOthers, fails, ends, dispatchVars, TurnHolds, Types, TurnTypes, live
<1>4. Latched'
  BY DEF shapeRefused, fails, ends, Latched, Types, TurnTypes, live
<1>5. Promised'
  BY DEF shapeRefused, fails, ends, busVars, requestVars, Promised, Types, TurnTypes
<1>6. RoleFollowsTurn'
  <2>1. fiber[c] = "asking" /\ fiber' = [fiber EXCEPT ![c] = "ended"] /\ status' = "error"
    BY DEF shapeRefused, fails, ends, setStatus
  <2>2. \A d \in Shapes : live(d) => d = c
    BY <2>1 DEF TurnHolds, Permit, Busy, Commands, live
  <2>3. \A d \in Shapes : fiber'[d] \in {"none", "ended"}
    BY <2>1, <2>2 DEF Types, TurnTypes, live
  <2> QED
    BY <2>1, <2>3 DEF RoleFollowsTurn, live
<1>7. SessionOf'
  <2>1. \A d \in Shapes : d # c => fiber'[d] \in {"none", "starting", "ended"}
    BY DEF shapeRefused, fails, ends, TurnHolds, Types, TurnTypes, live
  <2> QED
    BY <2>1 DEF shapeRefused, fails, ends, SessionOf, Types, TurnTypes
<1>8. Claims'
  BY DEF shapeRefused, Runtime!Refuse, Claims
<1>9. Kept'
  BY DEF shapeRefused, turnOthers, Runtime!Refuse, fails, ends, releaseSession, sessionVars,
     Kept, Types, TurnTypes
<1>10. Occupied'
  BY DEF shapeRefused, Runtime!Refuse, fails, ends, releaseSession, sessionVars, Occupied, Types,
     TurnTypes, Runtime!ServiceTypeOK, Prompts, Released
<1>11. Apart'
  BY StaysApart DEF shapeRefused, turnOthers, Runtime!Refuse, fails, ends, releaseSession,
     sessionVars, Released, Types, TurnTypes
<1> QED
  BY <1>1, <1>2, <1>3, <1>4, <1>5, <1>6, <1>7, <1>8, <1>9, <1>10, <1>11

LEMMA FlectInv ==
    ASSUME Inv, NEW c \in Shapes, NEW r \in Requests, NEW w \in Documents \union {Plain}, flect(c, r, w)
    PROVE  Inv'
<1> USE TurnsAssumption, BusAssumption DEF Inv
<1>a. told[r] = "none" /\ r # taken /\ r \notin pending /\ response[r] = "none" /\ submit(r)
  BY DEF flect, Promised
<1>1. Types'
  <2>1. BusTypes'
    <3>1. queue' \in Seq(Requests) /\ pending' \subseteq Requests
      <4>1. queue \in Seq(Requests) /\ pending \subseteq Requests
        BY DEF Types, BusTypes
      <4>2. \/ UNCHANGED <<queue, pending>>
            \/ queue' = Append(queue, r) /\ pending' = pending \union {r}
        BY <1>a DEF submit
      <4> QED
        BY <4>1, <4>2
    <3>2. DOMAIN told' = Requests /\ UNCHANGED <<response, taken>>
      BY <1>a DEF submit, Types, BusTypes
    <3> QED
      BY <3>1, <3>2 DEF Types, BusTypes
  <2>2. DispatchTypes'
    BY DEF flect, turnOthers, dispatchVars, Types, DispatchTypes
  <2>3. TurnTypes'
    BY DEF flect, Types, TurnTypes
  <2>4. SessionTypes'
    BY DEF flect, turnOthers, sessionVars, Types, SessionTypes
  <2>5. RequestTypes'
    BY DEF flect, Types, RequestTypes
  <2>6. Runtime!ServiceTypeOK'
    BY DEF flect, serviceVars, Types, Runtime!ServiceTypeOK
  <2> QED
    BY <2>1, <2>2, <2>3, <2>4, <2>5, <2>6 DEF Types
<1>2. Permit'
  <2>1. UNCHANGED <<waiting, call, holder, nested, taken>>
    BY <1>a DEF flect, turnOthers, dispatchVars, submit
  <2>2. taken \in Requests => what'[taken] = what[taken]
    BY <1>a DEF flect, Types, RequestTypes
  <2> QED
    BY <2>1, <2>2 DEF Permit
<1>3. TurnHolds'
  BY DEF flect, turnOthers, dispatchVars, TurnHolds, live
<1>4. Latched'
  BY DEF flect, Latched, live
<1>5. Promised'
  <2>1. /\ parent' = [parent EXCEPT ![r] = c] /\ what' = [what EXCEPT ![r] = w]
        /\ UNCHANGED <<result, outcome, proposals, response, taken>>
        /\ fiber[c] = "streaming" /\ c \in Shapes /\ w \in Documents \union {Plain}
        /\ \E f : f \in {"streaming", "tool"} /\ fiber' = [fiber EXCEPT ![c] = f]
    BY <1>a DEF flect, submit
  <2>2. \A q \in Requests : q # r => told'[q] = told[q] /\ (q \in pending' <=> q \in pending)
    BY <1>a DEF submit, Types, BusTypes
  <2>3. told'[r] \notin {"none", "proposed", "duplicate"}
    BY <1>a DEF submit, Types, BusTypes
  <2>4. \A q \in Requests : q # r =>
          ((\A i \in 1..Len(queue) : queue[i] # q) => \A i \in 1..Len(queue') : queue'[i] # q)
    BY <1>a DEF submit
  <2>5. \A q \in Requests : q # r =>
          IF told'[q] = "none"
          THEN /\ response'[q] = "none" /\ q \notin pending' /\ q # taken'
               /\ \A i \in 1..Len(queue') : queue'[i] # q
          ELSE parent'[q] \in Shapes /\ what'[q] \in Documents \union {Plain}
    BY <2>1, <2>2, <2>4 DEF Promised
  <2>6. \A q \in Requests : q # r =>
          /\ told'[q] \in {"proposed", "duplicate"} => response'[q] = told'[q]
          /\ response'[q] \in {"proposed", "duplicate"} =>
             /\ what'[q] \in Documents /\ parent'[q] \in Shapes
             /\ IF fiber'[parent'[q]] = "ended"
                THEN result'[parent'[q]] = "succeeded" => outcome'[parent'[q]] = what'[q]
                ELSE proposals'[parent'[q]] = what'[q]
    BY <2>1, <2>2 DEF Promised
  <2>7. parent'[r] = c /\ what'[r] = w /\ response'[r] = "none"
    BY <1>a, <2>1 DEF Types, RequestTypes
  <2> QED
    BY <2>1, <2>3, <2>5, <2>6, <2>7 DEF Promised
<1>6. RoleFollowsTurn'
  BY DEF flect, RoleFollowsTurn, live
<1>7. SessionOf'
  BY DEF flect, sessionVars, SessionOf
<1>8. Claims'
  BY DEF flect, serviceVars, Claims
<1>9. Kept'
  BY DEF flect, turnOthers, sessionVars, serviceVars, Kept
<1>10. Occupied'
  BY DEF flect, sessionVars, serviceVars, Occupied
<1>11. Apart'
  BY DEF flect, turnOthers, sessionVars, serviceVars, Apart
<1> QED
  BY <1>1, <1>2, <1>3, <1>4, <1>5, <1>6, <1>7, <1>8, <1>9, <1>10, <1>11

LEMMA FlectEndsInv ==
    ASSUME Inv, NEW c \in Shapes, flectEnds(c)
    PROVE  Inv'
<1> USE TurnsAssumption, BusAssumption DEF Inv
<1>1. Types'
  BY DEF flectEnds, turnOthers, receive, expire, leave, completed, dispatchVars, sessionVars,
     requestVars, serviceVars, Types, Runtime!ServiceTypeOK, BusTypes, DispatchTypes, TurnTypes,
     SessionTypes, RequestTypes
<1>2. Permit'
  BY DEF flectEnds, turnOthers, receive, expire, leave, dispatchVars, requestVars, Permit
<1>3. TurnHolds'
  BY DEF flectEnds, turnOthers, dispatchVars, TurnHolds, live
<1>4. Latched'
  BY DEF flectEnds, Latched, live
<1>5. Promised'
  BY DEF flectEnds, receive, expire, leave, completed, requestVars, Promised, Types, BusTypes
<1>6. RoleFollowsTurn'
  BY DEF flectEnds, RoleFollowsTurn, live
<1>7. SessionOf'
  BY DEF flectEnds, sessionVars, SessionOf
<1>8. Claims'
  BY DEF flectEnds, serviceVars, Claims
<1>9. Kept'
  BY DEF flectEnds, turnOthers, sessionVars, serviceVars, Kept
<1>10. Occupied'
  BY DEF flectEnds, sessionVars, serviceVars, Occupied
<1>11. Apart'
  BY DEF flectEnds, turnOthers, sessionVars, serviceVars, Apart
<1> QED
  BY <1>1, <1>2, <1>3, <1>4, <1>5, <1>6, <1>7, <1>8, <1>9, <1>10, <1>11

LEMMA StreamEndsInv ==
    ASSUME Inv, NEW c \in Shapes, streamEnds(c)
    PROVE  Inv'
<1> USE TurnsAssumption, BusAssumption DEF Inv
<1>1. Types'
  <2>1. BusTypes'
    BY DEF streamEnds, busVars, Types, BusTypes
  <2>2. DispatchTypes'
    BY DEF streamEnds, turnOthers, dispatchVars, requestVars, Types, DispatchTypes
  <2>3. TurnTypes'
    BY DEF streamEnds, fails, ends, Types, TurnTypes
  <2>4. SessionTypes'
    BY DEF streamEnds, turnOthers, sessionVars, Types, SessionTypes
  <2>5. RequestTypes'
    BY DEF streamEnds, requestVars, Types, RequestTypes
  <2>6. Runtime!ServiceTypeOK'
    BY DEF streamEnds, serviceVars, Types, Runtime!ServiceTypeOK
  <2> QED
    BY <2>1, <2>2, <2>3, <2>4, <2>5, <2>6 DEF Types
<1>2. Permit'
  BY DEF streamEnds, turnOthers, busVars, dispatchVars, requestVars, Permit
<1>3. TurnHolds'
  BY DEF streamEnds, turnOthers, fails, ends, dispatchVars, TurnHolds, Types, TurnTypes, live
<1>4. Latched'
  BY DEF streamEnds, fails, ends, Latched, Types, TurnTypes, live
<1>5. Promised'
  BY DEF streamEnds, fails, ends, busVars, requestVars, Promised, Types, TurnTypes
<1>6. RoleFollowsTurn'
  BY DEF streamEnds, fails, ends, setStatus, RoleFollowsTurn, Types, TurnTypes, live, TurnHolds,
     Permit, Busy, Commands
<1>7. SessionOf'
  BY DEF streamEnds, fails, ends, sessionVars, SessionOf, Types, TurnTypes
<1>8. Claims'
  BY DEF streamEnds, serviceVars, Claims
<1>9. Kept'
  BY DEF streamEnds, turnOthers, fails, ends, sessionVars, serviceVars, Kept, Types,
     TurnTypes
<1>10. Occupied'
  <2>1. /\ fiber[c] = "streaming" /\ answer[<<c, attempt[c]>>] = "ended"
        /\ UNCHANGED <<turn, claimed, answer, session>>
        /\ \A d \in Shapes : d # c =>
             fiber'[d] = fiber[d] /\ result'[d] = result[d] /\ attempt'[d] = attempt[d] /\ sid'[d] = sid[d]
    BY DEF streamEnds, fails, ends, sessionVars, serviceVars, Types, TurnTypes
  <2>2. \A s \in Sessions : turn[s] # NoPrompt => turn[s] \in Prompts /\ turn[s][1] \in Shapes
    BY DEF Types, Runtime!ServiceTypeOK, Prompts
  <2>3. \A s \in Sessions : turn[s] # NoPrompt => turn[s][1] # c
    <3> SUFFICES ASSUME NEW s \in Sessions, turn[s] # NoPrompt, turn[s][1] = c PROVE FALSE
      OBVIOUS
    <3>1. attempt[c] = turn[s][2] /\ answer[turn[s]] = "taken"
      BY <2>1 DEF Occupied
    <3>2. turn[s] = <<c, attempt[c]>>
      BY <2>2, <3>1 DEF Prompts
    <3> QED
      BY <2>1, <3>1, <3>2
  <2> QED
    BY <2>1, <2>2, <2>3 DEF Occupied
<1>11. Apart'
  BY DEF streamEnds, turnOthers, fails, ends, sessionVars, serviceVars, Apart, Types,
     TurnTypes
<1> QED
  BY <1>1, <1>2, <1>3, <1>4, <1>5, <1>6, <1>7, <1>8, <1>9, <1>10, <1>11

LEMMA StreamFailsInv ==
    ASSUME Inv, NEW c \in Shapes, streamFails(c)
    PROVE  Inv'
<1> USE TurnsAssumption, BusAssumption DEF Inv
<1>1. Types'
  <2>1. BusTypes'
    BY DEF streamFails, busVars, Types, BusTypes
  <2>2. DispatchTypes'
    BY DEF streamFails, turnOthers, dispatchVars, requestVars, Types, DispatchTypes
  <2>3. TurnTypes'
    BY DEF streamFails, fails, ends, Types, TurnTypes
  <2>4. SessionTypes'
    BY DEF streamFails, turnOthers, releaseSession, Types, SessionTypes, Released
  <2>5. RequestTypes'
    BY DEF streamFails, requestVars, Types, RequestTypes
  <2>6. Runtime!ServiceTypeOK'
    BY DEF streamFails, serviceVars, Types, Runtime!ServiceTypeOK
  <2> QED
    BY <2>1, <2>2, <2>3, <2>4, <2>5, <2>6 DEF Types
<1>2. Permit'
  BY DEF streamFails, turnOthers, busVars, dispatchVars, requestVars, Permit
<1>3. TurnHolds'
  BY DEF streamFails, turnOthers, fails, ends, dispatchVars, TurnHolds, Types, TurnTypes, live
<1>4. Latched'
  BY DEF streamFails, fails, ends, Latched, Types, TurnTypes, live
<1>5. Promised'
  BY DEF streamFails, fails, ends, busVars, requestVars, Promised, Types, TurnTypes
<1>6. RoleFollowsTurn'
  BY DEF streamFails, fails, ends, setStatus, RoleFollowsTurn, Types, TurnTypes, live, TurnHolds,
     Permit, Busy, Commands
<1>7. SessionOf'
  BY DEF streamFails, fails, ends, SessionOf, Types, TurnTypes, Occupied, Claims, TurnHolds, live,
     Permit, Busy, Commands, Released
<1>8. Claims'
  BY DEF streamFails, serviceVars, Claims
<1>9. Kept'
  BY DEF streamFails, turnOthers, fails, ends, releaseSession, serviceVars, Kept
<1>10. Occupied'
  BY DEF streamFails, fails, ends, releaseSession, serviceVars, Occupied, Types, TurnTypes,
     Released
<1>11. Apart'
  BY StaysApart DEF streamFails, turnOthers, fails, ends, releaseSession, serviceVars, Released,
     Types, TurnTypes
<1> QED
  BY <1>1, <1>2, <1>3, <1>4, <1>5, <1>6, <1>7, <1>8, <1>9, <1>10, <1>11

LEMMA BridgeTakesInv ==
    ASSUME Inv, bridgeTakes
    PROVE  Inv'
<1> USE TurnsAssumption, BusAssumption DEF Inv
<1>1. Types'
  BY DEF bridgeTakes, take, bridgeOthers, dispatchVars, sessionVars, serviceVars, Types,
     Runtime!ServiceTypeOK, BusTypes, DispatchTypes, TurnTypes, SessionTypes, RequestTypes
<1>2. Permit'
  BY DEF bridgeTakes, take, dispatchVars, Permit, Types
<1>3. TurnHolds'
  BY DEF bridgeTakes, bridgeOthers, dispatchVars, TurnHolds, live
<1>4. Latched'
  BY DEF bridgeTakes, bridgeOthers, Latched, live
<1>5. Promised'
  BY DEF bridgeTakes, take, bridgeOthers, Promised
<1>6. RoleFollowsTurn'
  BY DEF bridgeTakes, bridgeOthers, RoleFollowsTurn, live
<1>7. SessionOf'
  BY DEF bridgeTakes, bridgeOthers, sessionVars, serviceVars, SessionOf
<1>8. Claims'
  BY DEF bridgeTakes, bridgeOthers, serviceVars, Claims
<1>9. Kept'
  BY DEF bridgeTakes, bridgeOthers, sessionVars, serviceVars, Kept
<1>10. Occupied'
  BY DEF bridgeTakes, bridgeOthers, sessionVars, serviceVars, Occupied
<1>11. Apart'
  BY DEF bridgeTakes, bridgeOthers, sessionVars, serviceVars, Apart
<1> QED
  BY <1>1, <1>2, <1>3, <1>4, <1>5, <1>6, <1>7, <1>8, <1>9, <1>10, <1>11

LEMMA ProposeInterfaceInv ==
    ASSUME Inv, proposeInterface
    PROVE  Inv'
<1> USE TurnsAssumption, BusAssumption DEF Inv
<1>1. Types'
  BY DEF proposeInterface, latched, respond, completed, bridgeOthers, busVars, dispatchVars,
     fiberVars, sessionVars, requestVars, serviceVars, Types, NoPrompt, Prompts,
     Runtime!ServiceTypeOK, Commands, BusTypes, DispatchTypes, TurnTypes, SessionTypes,
     RequestTypes
<1>2. Permit'
  BY DEF proposeInterface, dispatchVars, Permit
<1>3. TurnHolds'
  BY DEF proposeInterface, bridgeOthers, dispatchVars, TurnHolds, live
<1>4. Latched'
  BY DEF proposeInterface, latched, bridgeOthers, Latched, live
<1>5. Promised'
  BY DEF proposeInterface, latched, respond, completed, bridgeOthers, Promised, Types, TurnTypes,
     Latched, live
<1>6. RoleFollowsTurn'
  BY DEF proposeInterface, bridgeOthers, RoleFollowsTurn, live
<1>7. SessionOf'
  BY DEF proposeInterface, bridgeOthers, sessionVars, serviceVars, SessionOf
<1>8. Claims'
  BY DEF proposeInterface, bridgeOthers, serviceVars, Claims
<1>9. Kept'
  BY DEF proposeInterface, bridgeOthers, sessionVars, serviceVars, Kept
<1>10. Occupied'
  BY DEF proposeInterface, bridgeOthers, sessionVars, serviceVars, Occupied
<1>11. Apart'
  BY DEF proposeInterface, bridgeOthers, sessionVars, serviceVars, Apart
<1> QED
  BY <1>1, <1>2, <1>3, <1>4, <1>5, <1>6, <1>7, <1>8, <1>9, <1>10, <1>11

LEMMA DispatchNestedInv ==
    ASSUME Inv, dispatchNested
    PROVE  Inv'
<1> USE TurnsAssumption, BusAssumption DEF Inv
<1>a. taken \in Requests /\ what[taken] = Plain /\ nested = "none"
  BY DEF dispatchNested, Types, BusTypes
<1>b. \A i \in 1..Len(waiting) : waiting[i] \in Commands /\ waiting[i] # taken
  BY <1>a DEF Permit, Types, DispatchTypes
<1>1. Types'
  <2>1. BusTypes'
    BY DEF dispatchNested, busVars, Types, BusTypes
  <2>2. DispatchTypes'
    BY <1>a DEF dispatchNested, bridgeOthers, Types, DispatchTypes
  <2>3. TurnTypes'
    BY DEF dispatchNested, bridgeOthers, Types, TurnTypes
  <2>4. SessionTypes'
    BY DEF dispatchNested, bridgeOthers, sessionVars, Types, SessionTypes
  <2>5. RequestTypes'
    BY DEF dispatchNested, bridgeOthers, Types, RequestTypes
  <2>6. Runtime!ServiceTypeOK'
    BY DEF dispatchNested, bridgeOthers, serviceVars, Types, Runtime!ServiceTypeOK
  <2> QED
    BY <2>1, <2>2, <2>3, <2>4, <2>5, <2>6 DEF Types
<1>2. Permit'
  <2>1. UNCHANGED <<call, holder, taken, what>>
    BY DEF dispatchNested, bridgeOthers, busVars
  <2>2. CASE UNCHANGED waiting /\ nested' = "running"
    BY <1>a, <1>b, <2>1, <2>2 DEF Permit
  <2>3. CASE waiting' = Append(waiting, taken) /\ nested' = "waiting"
    <3>1. /\ Len(waiting') = Len(waiting) + 1 /\ Len(waiting) \in Nat
          /\ \A i \in 1..Len(waiting) : waiting'[i] = waiting[i]
          /\ waiting'[Len(waiting) + 1] = taken
      BY <2>3, AppendProperties DEF Types
    <3>2. \A i, j \in 1..Len(waiting') : waiting'[i] = waiting'[j] => i = j
      BY <1>b, <3>1 DEF Permit
    <3>3. \A i \in 1..Len(waiting') :
            /\ waiting'[i] \in Commands => call'[waiting'[i]] = "waiting"
            /\ waiting'[i] \in Requests => waiting'[i] = taken' /\ nested' = "waiting"
      <4> SUFFICES ASSUME NEW i \in 1..Len(waiting')
                   PROVE  /\ waiting'[i] \in Commands => call'[waiting'[i]] = "waiting"
                          /\ waiting'[i] \in Requests => waiting'[i] = taken' /\ nested' = "waiting"
        OBVIOUS
      <4>1. CASE i \in 1..Len(waiting)
        BY <1>b, <2>1, <2>3, <3>1, <4>1 DEF Permit
      <4>2. CASE i = Len(waiting) + 1
        BY <1>a, <2>1, <2>3, <3>1, <4>2
      <4> QED
        BY <3>1, <4>1, <4>2
    <3> QED
      BY <1>a, <2>1, <2>3, <3>2, <3>3 DEF Permit
  <2> QED
    BY <2>2, <2>3 DEF dispatchNested
<1>3. TurnHolds'
  BY DEF dispatchNested, bridgeOthers, TurnHolds, live
<1>4. Latched'
  BY DEF dispatchNested, bridgeOthers, Latched, live
<1>5. Promised'
  BY DEF dispatchNested, bridgeOthers, busVars, Promised
<1>6. RoleFollowsTurn'
  BY DEF dispatchNested, bridgeOthers, RoleFollowsTurn, live
<1>7. SessionOf'
  BY DEF dispatchNested, bridgeOthers, sessionVars, serviceVars, SessionOf
<1>8. Claims'
  BY DEF dispatchNested, bridgeOthers, serviceVars, Claims
<1>9. Kept'
  BY DEF dispatchNested, bridgeOthers, sessionVars, serviceVars, Kept
<1>10. Occupied'
  BY DEF dispatchNested, bridgeOthers, sessionVars, serviceVars, Occupied
<1>11. Apart'
  BY DEF dispatchNested, bridgeOthers, sessionVars, serviceVars, Apart
<1> QED
  BY <1>1, <1>2, <1>3, <1>4, <1>5, <1>6, <1>7, <1>8, <1>9, <1>10, <1>11

LEMMA StartNestedInv ==
    ASSUME Inv, startNested
    PROVE  Inv'
<1> USE TurnsAssumption, BusAssumption DEF Inv
<1>1. Types'
  BY DEF startNested, granted, bridgeOthers, busVars, sessionVars, serviceVars, Types,
     Runtime!ServiceTypeOK, BusTypes, DispatchTypes, TurnTypes, SessionTypes, RequestTypes
<1>2. Permit'
  <2>1. /\ waiting \in Seq(Commands \union Requests) /\ waiting # <<>> /\ waiting[1] = taken
        /\ waiting' = Tail(waiting) /\ holder = NoCommand
        /\ nested # "none" /\ nested' # "none" /\ UNCHANGED <<taken, what, call>>
    BY DEF startNested, granted, bridgeOthers, busVars, Types, DispatchTypes
  <2>2. /\ Len(waiting') = Len(waiting) - 1 /\ Len(waiting) \in Nat
        /\ \A i \in 1..Len(waiting') : waiting'[i] = waiting[i + 1] /\ i + 1 \in 1..Len(waiting)
    BY <2>1
  <2>3. \A i, j \in 1..Len(waiting') : waiting'[i] = waiting'[j] => i = j
    BY <2>2 DEF Permit
  <2>4. \A i \in 1..Len(waiting') :
          /\ waiting'[i] # taken
          /\ waiting'[i] \in Commands => call[waiting'[i]] = "waiting"
          /\ waiting'[i] \in Requests => waiting'[i] = taken
    BY <2>1, <2>2 DEF Permit
  <2>5. \A d \in Commands : call[d] \notin Busy
    BY <2>1 DEF Permit, Commands
  <2>6. taken \in Requests /\ what[taken] = Plain
    BY <2>1 DEF Permit
  <2> QED
    BY <2>1, <2>3, <2>4, <2>5, <2>6 DEF Permit
<1>3. TurnHolds'
  BY DEF startNested, bridgeOthers, TurnHolds, live
<1>4. Latched'
  BY DEF startNested, bridgeOthers, Latched, live
<1>5. Promised'
  BY DEF startNested, bridgeOthers, busVars, Promised
<1>6. RoleFollowsTurn'
  BY DEF startNested, bridgeOthers, RoleFollowsTurn, live
<1>7. SessionOf'
  BY DEF startNested, bridgeOthers, sessionVars, serviceVars, SessionOf
<1>8. Claims'
  BY DEF startNested, bridgeOthers, serviceVars, Claims
<1>9. Kept'
  BY DEF startNested, bridgeOthers, sessionVars, serviceVars, Kept
<1>10. Occupied'
  BY DEF startNested, bridgeOthers, sessionVars, serviceVars, Occupied
<1>11. Apart'
  BY DEF startNested, bridgeOthers, sessionVars, serviceVars, Apart
<1> QED
  BY <1>1, <1>2, <1>3, <1>4, <1>5, <1>6, <1>7, <1>8, <1>9, <1>10, <1>11

LEMMA FinishNestedInv ==
    ASSUME Inv, finishNested
    PROVE  Inv'
<1> USE TurnsAssumption, BusAssumption DEF Inv
<1>1. Types'
  BY DEF finishNested, respond, completed, bridgeOthers, sessionVars, serviceVars, Types,
     Runtime!ServiceTypeOK, BusTypes, DispatchTypes, TurnTypes, SessionTypes, RequestTypes
<1>2. Permit'
  BY DEF finishNested, Permit
<1>3. TurnHolds'
  BY DEF finishNested, bridgeOthers, TurnHolds, live
<1>4. Latched'
  BY DEF finishNested, bridgeOthers, Latched, live
<1>5. Promised'
  BY DEF finishNested, respond, completed, bridgeOthers, Promised
<1>6. RoleFollowsTurn'
  BY DEF finishNested, bridgeOthers, RoleFollowsTurn, live
<1>7. SessionOf'
  BY DEF finishNested, bridgeOthers, sessionVars, serviceVars, SessionOf
<1>8. Claims'
  BY DEF finishNested, bridgeOthers, serviceVars, Claims
<1>9. Kept'
  BY DEF finishNested, bridgeOthers, sessionVars, serviceVars, Kept
<1>10. Occupied'
  BY DEF finishNested, bridgeOthers, sessionVars, serviceVars, Occupied
<1>11. Apart'
  BY DEF finishNested, bridgeOthers, sessionVars, serviceVars, Apart
<1> QED
  BY <1>1, <1>2, <1>3, <1>4, <1>5, <1>6, <1>7, <1>8, <1>9, <1>10, <1>11

LEMMA ShutdownBusInv ==
    ASSUME Inv, shutdownBus
    PROVE  Inv'
<1> USE TurnsAssumption, BusAssumption DEF Inv
<1>1. Types'
  BY DEF shutdownBus, shutdown, dispatchVars, sessionVars, serviceVars, Types,
     Runtime!ServiceTypeOK, BusTypes, DispatchTypes, TurnTypes, SessionTypes, RequestTypes
<1>2. Permit'
  BY DEF shutdownBus, shutdown, dispatchVars, Permit
<1>3. TurnHolds'
  BY DEF shutdownBus, dispatchVars, TurnHolds, live
<1>4. Latched'
  BY DEF shutdownBus, Latched, live
<1>5. Promised'
  BY DEF shutdownBus, shutdown, Promised
<1>6. RoleFollowsTurn'
  BY DEF shutdownBus, RoleFollowsTurn, live
<1>7. SessionOf'
  BY DEF shutdownBus, sessionVars, serviceVars, SessionOf
<1>8. Claims'
  BY DEF shutdownBus, serviceVars, Claims
<1>9. Kept'
  BY DEF shutdownBus, sessionVars, serviceVars, Kept
<1>10. Occupied'
  BY DEF shutdownBus, sessionVars, serviceVars, Occupied
<1>11. Apart'
  BY DEF shutdownBus, sessionVars, serviceVars, Apart
<1> QED
  BY <1>1, <1>2, <1>3, <1>4, <1>5, <1>6, <1>7, <1>8, <1>9, <1>10, <1>11

LEMMA TurnEndsInv ==
    ASSUME Inv, NEW s \in Sessions, turnEnds(s)
    PROVE  Inv'
<1> USE TurnsAssumption, BusAssumption DEF Inv
<1>1. Types'
  BY DEF turnEnds, runtimeOthers, Runtime!End, busVars, dispatchVars, fiberVars, requestVars,
     Types, Runtime!ServiceTypeOK, BusTypes, DispatchTypes, TurnTypes, SessionTypes, RequestTypes
<1>2. Permit'
  BY DEF turnEnds, runtimeOthers, busVars, dispatchVars, requestVars, Permit
<1>3. TurnHolds'
  BY DEF turnEnds, runtimeOthers, dispatchVars, fiberVars, TurnHolds, live
<1>4. Latched'
  BY DEF turnEnds, runtimeOthers, fiberVars, Latched, live
<1>5. Promised'
  BY DEF turnEnds, runtimeOthers, busVars, fiberVars, requestVars, Promised
<1>6. RoleFollowsTurn'
  BY DEF turnEnds, runtimeOthers, fiberVars, RoleFollowsTurn, live
<1>7. SessionOf'
  BY DEF turnEnds, runtimeOthers, Runtime!End, fiberVars, SessionOf
<1>8. Claims'
  BY DEF turnEnds, Runtime!End, Claims
<1>9. Kept'
  BY DEF turnEnds, runtimeOthers, Runtime!End, fiberVars, Kept
<1>10. Occupied'
  BY DEF turnEnds, runtimeOthers, Runtime!End, fiberVars, Occupied, Types, Runtime!ServiceTypeOK
<1>11. Apart'
  BY DEF turnEnds, runtimeOthers, Runtime!End, fiberVars, Apart
<1> QED
  BY <1>1, <1>2, <1>3, <1>4, <1>5, <1>6, <1>7, <1>8, <1>9, <1>10, <1>11

LEMMA ReleaseClaimInv ==
    ASSUME Inv, NEW s \in Sessions, releaseClaim(s)
    PROVE  Inv'
<1> USE TurnsAssumption, BusAssumption DEF Inv
<1>1. Types'
  BY DEF releaseClaim, runtimeOthers, Runtime!Release, busVars, dispatchVars, fiberVars,
     requestVars, Types, Runtime!ServiceTypeOK, BusTypes, DispatchTypes, TurnTypes, SessionTypes,
     RequestTypes
<1>2. Permit'
  BY DEF releaseClaim, runtimeOthers, busVars, dispatchVars, requestVars, Permit
<1>3. TurnHolds'
  BY DEF releaseClaim, runtimeOthers, dispatchVars, fiberVars, TurnHolds, live
<1>4. Latched'
  BY DEF releaseClaim, runtimeOthers, fiberVars, Latched, live
<1>5. Promised'
  BY DEF releaseClaim, runtimeOthers, busVars, fiberVars, requestVars, Promised
<1>6. RoleFollowsTurn'
  BY DEF releaseClaim, runtimeOthers, fiberVars, RoleFollowsTurn, live
<1>7. SessionOf'
  BY DEF releaseClaim, runtimeOthers, Runtime!Release, fiberVars, SessionOf
<1>8. Claims'
  BY DEF releaseClaim, Runtime!Release, Claims, Types, Runtime!ServiceTypeOK
<1>9. Kept'
  BY DEF releaseClaim, runtimeOthers, Runtime!Release, fiberVars, Kept
<1>10. Occupied'
  BY DEF releaseClaim, runtimeOthers, Runtime!Release, fiberVars, Occupied
<1>11. Apart'
  BY DEF releaseClaim, runtimeOthers, Runtime!Release, fiberVars, Apart
<1> QED
  BY <1>1, <1>2, <1>3, <1>4, <1>5, <1>6, <1>7, <1>8, <1>9, <1>10, <1>11

LEMMA CloseSessionInv ==
    ASSUME Inv, NEW s \in Sessions, closeSession(s)
    PROVE  Inv'
<1> USE TurnsAssumption, BusAssumption DEF Inv
<1>1. Types'
  BY DEF closeSession, runtimeOthers, Runtime!Close, busVars, dispatchVars, fiberVars,
     requestVars, serviceVars, Types, Runtime!ServiceTypeOK, Commands, BusTypes, DispatchTypes,
     TurnTypes, SessionTypes, RequestTypes
<1>2. Permit'
  BY DEF closeSession, runtimeOthers, busVars, dispatchVars, requestVars, Permit
<1>3. TurnHolds'
  BY DEF closeSession, runtimeOthers, dispatchVars, fiberVars, TurnHolds, live
<1>4. Latched'
  BY DEF closeSession, runtimeOthers, fiberVars, Latched, live
<1>5. Promised'
  BY DEF closeSession, runtimeOthers, busVars, fiberVars, requestVars, Promised
<1>6. RoleFollowsTurn'
  BY DEF closeSession, runtimeOthers, fiberVars, RoleFollowsTurn, live
<1>7. SessionOf'
  BY DEF closeSession, runtimeOthers, Runtime!Close, fiberVars, serviceVars, SessionOf
<1>8. Claims'
  BY DEF closeSession, Runtime!Close, serviceVars, Claims, Types, Runtime!ServiceTypeOK
<1>9. Kept'
  BY DEF closeSession, runtimeOthers, Runtime!Close, fiberVars, serviceVars, Kept, Types,
     Runtime!ServiceTypeOK
<1>10. Occupied'
  BY DEF closeSession, runtimeOthers, Runtime!Close, fiberVars, serviceVars, Occupied
<1>11. Apart'
  BY DEF closeSession, runtimeOthers, Runtime!Close, fiberVars, serviceVars, Apart, Types,
     Runtime!ServiceTypeOK
<1> QED
  BY <1>1, <1>2, <1>3, <1>4, <1>5, <1>6, <1>7, <1>8, <1>9, <1>10, <1>11

LEMMA CloseFailsInv ==
    ASSUME Inv, NEW s \in Sessions, closeFails(s)
    PROVE  Inv'
<1> USE TurnsAssumption, BusAssumption DEF Inv
<1>1. Types'
  BY DEF closeFails, busVars, dispatchVars, fiberVars,
     requestVars, serviceVars, Types, Runtime!ServiceTypeOK, Commands, BusTypes, DispatchTypes,
     TurnTypes, SessionTypes, RequestTypes
<1>2. Permit'
  BY DEF closeFails, busVars, dispatchVars, requestVars, Permit
<1>3. TurnHolds'
  BY DEF closeFails, dispatchVars, fiberVars, TurnHolds, live
<1>4. Latched'
  BY DEF closeFails, fiberVars, Latched, live
<1>5. Promised'
  BY DEF closeFails, busVars, fiberVars, requestVars, Promised
<1>6. RoleFollowsTurn'
  BY DEF closeFails, fiberVars, RoleFollowsTurn, live
<1>7. SessionOf'
  BY DEF closeFails, fiberVars, serviceVars, SessionOf
<1>8. Claims'
  BY DEF closeFails, serviceVars, Claims, Types, Runtime!ServiceTypeOK
<1>9. Kept'
  BY DEF closeFails, fiberVars, serviceVars, Kept, Types,
     Runtime!ServiceTypeOK
<1>10. Occupied'
  BY DEF closeFails, fiberVars, serviceVars, Occupied
<1>11. Apart'
  BY DEF closeFails, fiberVars, serviceVars, Apart, Types,
     Runtime!ServiceTypeOK
<1> QED
  BY <1>1, <1>2, <1>3, <1>4, <1>5, <1>6, <1>7, <1>8, <1>9, <1>10, <1>11

LEMMA EvictInv ==
    ASSUME Inv, NEW s \in Sessions, evict(s)
    PROVE  Inv'
<1> USE TurnsAssumption, BusAssumption DEF Inv
<1>1. Types'
  BY DEF evict, runtimeOthers, Runtime!Close, busVars, dispatchVars, fiberVars, requestVars,
     Types, Runtime!ServiceTypeOK, BusTypes, DispatchTypes, TurnTypes, SessionTypes, RequestTypes
<1>2. Permit'
  BY DEF evict, runtimeOthers, busVars, dispatchVars, requestVars, Permit
<1>3. TurnHolds'
  BY DEF evict, runtimeOthers, dispatchVars, fiberVars, TurnHolds, live
<1>4. Latched'
  BY DEF evict, runtimeOthers, fiberVars, Latched, live
<1>5. Promised'
  BY DEF evict, runtimeOthers, busVars, fiberVars, requestVars, Promised
<1>6. RoleFollowsTurn'
  BY DEF evict, runtimeOthers, fiberVars, RoleFollowsTurn, live
<1>7. SessionOf'
  BY DEF evict, runtimeOthers, Runtime!Close, fiberVars, SessionOf
<1>8. Claims'
  BY DEF evict, Runtime!Close, Claims
<1>9. Kept'
  BY DEF evict, runtimeOthers, Runtime!Close, fiberVars, Kept
<1>10. Occupied'
  BY DEF evict, runtimeOthers, Runtime!Close, fiberVars, Occupied
<1>11. Apart'
  BY DEF evict, runtimeOthers, Runtime!Close, fiberVars, Apart
<1> QED
  BY <1>1, <1>2, <1>3, <1>4, <1>5, <1>6, <1>7, <1>8, <1>9, <1>10, <1>11

-----------------------------------------------------------------------------
(* The invariant of the turns holds in every behaviour.                          *)

LEMMA InitInv == Init => Inv
<1> SUFFICES ASSUME Init PROVE Inv
  OBVIOUS
<1> USE TurnsAssumption, BusAssumption
<1>1. Types
  BY DEF Init, BusInit, Runtime!ServiceInit, Types, BusTypes, DispatchTypes, TurnTypes,
     SessionTypes, RequestTypes, Runtime!ServiceTypeOK, Busy, live, Released, Nobody, NoPrompt,
     Prompts, Commands
<1>2. Permit
  BY DEF Init, BusInit, Runtime!ServiceInit, Permit, Busy, live, Released, Nobody, NoPrompt,
     Prompts, Commands
<1>3. TurnHolds
  BY DEF Init, BusInit, Runtime!ServiceInit, TurnHolds, Busy, live, Released, Nobody, NoPrompt,
     Prompts, Commands
<1>4. Latched
  BY DEF Init, BusInit, Runtime!ServiceInit, Latched, Busy, live, Released, Nobody, NoPrompt,
     Prompts, Commands
<1>5. Promised
  <2>1. \A r \in Requests : told[r] = "none" /\ response[r] = "none"
    BY DEF Init, BusInit
  <2>2. queue = <<>> /\ pending = {} /\ taken \notin Requests
    BY DEF Init, BusInit
  <2>3. \A i \in 1..Len(queue) : FALSE
    BY <2>2
  <2> QED
    BY <2>1, <2>2, <2>3 DEF Promised
<1>6. RoleFollowsTurn
  BY DEF Init, BusInit, Runtime!ServiceInit, RoleFollowsTurn, Busy, live, Released, Nobody,
     NoPrompt, Prompts, Commands
<1>7. SessionOf
  BY DEF Init, BusInit, Runtime!ServiceInit, SessionOf, Busy, live, Released, Nobody, NoPrompt,
     Prompts, Commands
<1>8. Claims
  BY DEF Init, BusInit, Runtime!ServiceInit, Claims, Busy, live, Released, Nobody, NoPrompt,
     Prompts, Commands
<1>9. Kept
  BY DEF Init, BusInit, Runtime!ServiceInit, Kept, Busy, live, Released, Nobody,
     NoPrompt, Prompts, Commands
<1>10. Occupied
  BY DEF Init, BusInit, Runtime!ServiceInit, Occupied, Busy, live, Released, Nobody, NoPrompt,
     Prompts, Commands
<1>11. Apart
  BY DEF Init, BusInit, Runtime!ServiceInit, Apart, Busy, live, Released, Nobody,
     NoPrompt, Prompts, Commands
<1> QED
  BY <1>1, <1>2, <1>3, <1>4, <1>5, <1>6, <1>7, <1>8, <1>9, <1>10, <1>11 DEF Inv

LEMMA StutterInv ==
    ASSUME Inv, UNCHANGED vars
    PROVE  Inv'
<1> USE DEF vars, busVars, dispatchVars, fiberVars, sessionVars, requestVars, serviceVars
<1>1. Types'
  BY DEF Inv, Types, BusTypes, DispatchTypes, TurnTypes, SessionTypes, RequestTypes,
     Runtime!ServiceTypeOK
<1>2. Permit'
  BY DEF Inv, Permit, Busy
<1>3. TurnHolds'
  BY DEF Inv, TurnHolds, live
<1>4. Latched'
  BY DEF Inv, Latched, live
<1>5. Promised'
  BY DEF Inv, Promised
<1>6. RoleFollowsTurn'
  BY DEF Inv, RoleFollowsTurn, live
<1>7. SessionOf'
  BY DEF Inv, SessionOf
<1>8. Claims'
  BY DEF Inv, Claims
<1>9. Kept'
  BY DEF Inv, Kept
<1>10. Occupied'
  BY DEF Inv, Occupied
<1>11. Apart'
  BY DEF Inv, Apart
<1> QED
  BY <1>1, <1>2, <1>3, <1>4, <1>5, <1>6, <1>7, <1>8, <1>9, <1>10, <1>11 DEF Inv

LEMMA NextInv == Inv /\ [Next]_vars => Inv'
<1> SUFFICES ASSUME Inv, [Next]_vars PROVE Inv'
  OBVIOUS
<1> USE TurnsAssumption
<1>1. ASSUME selectReasoning PROVE Inv'
  BY <1>1, SelectReasoningInv
<1>2. ASSUME reasoningSelected PROVE Inv'
  BY <1>2, ReasoningSelectedInv
<1>3. ASSUME NEW c \in Commands, dispatch(c) PROVE Inv'
  BY <1>3, DispatchInv
<1>4. ASSUME NEW c \in Shapes, startShape(c) PROVE Inv'
  BY <1>4, StartShapeInv
<1>5. ASSUME NEW c \in Cancels, startCancel(c) PROVE Inv'
  BY <1>5, StartCancelInv
<1>6. ASSUME NEW c \in Cancels, cancel(c) PROVE Inv'
  BY <1>6, CancelInv
<1>7. ASSUME NEW c \in Cancels, cancelFails(c) PROVE Inv'
  BY <1>7, CancelFailsInv
<1>8. ASSUME NEW c \in Selects, startSelect(c) PROVE Inv'
  BY <1>8, StartSelectInv
<1>9. ASSUME NEW c \in Selects, selectModel(c) PROVE Inv'
  BY <1>9, SelectModelInv
<1>10. ASSUME NEW c \in Shapes, finishTurn(c) PROVE Inv'
  BY <1>10, FinishTurnInv
<1>11. ASSUME NEW c \in Shapes, applied(c) PROVE Inv'
  BY <1>11, AppliedInv
<1>12. ASSUME NEW c \in Commands, revoke(c) PROVE Inv'
  BY <1>12, RevokeInv
<1>13. ASSUME NEW c \in Shapes, revoked(c) PROVE Inv'
  BY <1>13, RevokedInv
<1>14. ASSUME NEW c \in Shapes, beginTurn(c) PROVE Inv'
  BY <1>14, BeginTurnInv
<1>15. ASSUME NEW c \in Shapes, ensureSession(c) PROVE Inv'
  BY <1>15, EnsureSessionInv
<1>16. ASSUME NEW c \in Shapes, NEW s \in Sessions, createSession(c, s) PROVE Inv'
  BY <1>16, CreateSessionInv
<1>17. ASSUME NEW c \in Shapes, sessionCreated(c) PROVE Inv'
  BY <1>17, SessionCreatedInv
<1>18. ASSUME NEW c \in Shapes, shape(c) PROVE Inv'
  BY <1>18, ShapeInv
<1>19. ASSUME NEW c \in Shapes, shapeRefused(c) PROVE Inv'
  BY <1>19, ShapeRefusedInv
<1>20. ASSUME NEW c \in Shapes, NEW r \in Requests, NEW w \in Documents \union {Plain}, flect(c, r, w)
       PROVE  Inv'
  BY <1>20, FlectInv
<1>21. ASSUME NEW c \in Shapes, flectEnds(c) PROVE Inv'
  BY <1>21, FlectEndsInv
<1>22. ASSUME NEW c \in Shapes, streamEnds(c) PROVE Inv'
  BY <1>22, StreamEndsInv
<1>23. ASSUME NEW c \in Shapes, streamFails(c) PROVE Inv'
  BY <1>23, StreamFailsInv
<1>24. ASSUME bridgeTakes PROVE Inv'
  BY <1>24, BridgeTakesInv
<1>25. ASSUME proposeInterface PROVE Inv'
  BY <1>25, ProposeInterfaceInv
<1>26. ASSUME dispatchNested PROVE Inv'
  BY <1>26, DispatchNestedInv
<1>27. ASSUME startNested PROVE Inv'
  BY <1>27, StartNestedInv
<1>28. ASSUME finishNested PROVE Inv'
  BY <1>28, FinishNestedInv
<1>29. ASSUME shutdownBus PROVE Inv'
  BY <1>29, ShutdownBusInv
<1>30. ASSUME NEW s \in Sessions, turnEnds(s) PROVE Inv'
  BY <1>30, TurnEndsInv
<1>31. ASSUME NEW s \in Sessions, releaseClaim(s) PROVE Inv'
  BY <1>31, ReleaseClaimInv
<1>32. ASSUME NEW s \in Sessions, closeSession(s) PROVE Inv'
  BY <1>32, CloseSessionInv
<1>33. ASSUME NEW s \in Sessions, evict(s) PROVE Inv'
  BY <1>33, EvictInv
<1>34. ASSUME NEW c \in Shapes, createFails(c) PROVE Inv'
  BY <1>34, CreateFailsInv
<1>35. ASSUME NEW s \in Sessions, closeFails(s) PROVE Inv'
  BY <1>35, CloseFailsInv
<1>36. CASE UNCHANGED vars
  BY <1>36, StutterInv
<1>37. Proposers \subseteq Shapes
  OBVIOUS
<1>38. ASSUME NEW c \in Shapes, ofTurn(c) \/ flectEnds(c) \/ createFails(c) \/ streamFails(c)
       PROVE  Inv'
  BY <1>4, <1>10, <1>11, <1>13, <1>14, <1>15, <1>16, <1>17, <1>18, <1>19, <1>21, <1>22, <1>23,
     <1>34, <1>38 DEF ofTurn
<1>39. ASSUME NEW s \in Sessions,
              closeSession(s) \/ closeFails(s) \/ turnEnds(s) \/ releaseClaim(s) \/ evict(s)
       PROVE  Inv'
  BY <1>30, <1>31, <1>32, <1>33, <1>35, <1>39
<1> QED
  BY <1>1, <1>2, <1>3, <1>5, <1>6, <1>7, <1>8, <1>9, <1>12, <1>20, <1>24, <1>25, <1>26, <1>27,
     <1>28, <1>29, <1>36, <1>37, <1>38, <1>39 DEF Next, ofCancel, ofSelect, ofBridge

\* The inductive invariant of the turns holds in every behaviour.
THEOREM Invariance == Spec => []Inv
  BY InitInv, NextInv, PTL DEF Spec

\* A document that the agent was told is proposed is the outcome of its turn, whatever
\* was proposed, timed out, interrupted or answered twice beside it.
THEOREM PromiseSafety == Spec => []PromisesKept
<1>1. Inv => PromisesKept
  <2> SUFFICES ASSUME Inv, NEW r \in Requests, told[r] \in {"proposed", "duplicate"},
                      result[parent[r]] = "succeeded"
               PROVE  outcome[parent[r]] = what[r]
    BY DEF PromisesKept
  <2>1. parent[r] \in Shapes /\ response[r] \in {"proposed", "duplicate"}
    BY DEF Inv, Promised
  <2>2. fiber[parent[r]] = "ended"
    BY <2>1 DEF Inv, TurnHolds
  <2> QED
    BY <2>1, <2>2 DEF Inv, Promised
<1> QED
  BY Invariance, <1>1, PTL

\* The role is submitting exactly while a turn is under way, unless one was interrupted.
THEOREM RoleSafety == Spec => []RoleFollowsTurn
<1>1. Inv => RoleFollowsTurn
  BY DEF Inv
<1> QED
  BY Invariance, <1>1, PTL

\* Every open session is the workspace's, about to be, or being closed, unless its creation
\* was interrupted or not answered, or the call to close it failed; one that is left behind
\* so is not used again.
THEOREM SessionSafety == Spec => []NoSessionLost
<1>1. Inv => NoSessionLost
  BY DEF Inv, Kept, Apart, SessionOf, NoSessionLost
<1> QED
  BY Invariance, <1>1, PTL

\* The turn that occupies the session of a turn that asks was interrupted: any other has
\* ended its stay or lost the session.
LEMMA RefusedAsBusy ==
    ASSUME Inv, NEW c \in Shapes, shapeRefused(c), NEW d \in Shapes,
           result'[d] = "busy", result[d] # "busy"
    PROVE  result[turn[sid[d]][1]] = "interrupted"
<1> USE DEF Inv, Types, TurnTypes
<1>1. d = c /\ turn[sid[c]] # NoPrompt /\ fiber[c] = "asking"
  BY DEF shapeRefused, fails, ends
<1>2. sid[c] \in Sessions /\ sid[c] = session.id
  BY <1>1 DEF SessionOf
<1> DEFINE e == turn[sid[c]][1]
<1>3. e \in Shapes
  <2>1. turn[sid[c]] \in Prompts
    BY <1>1, <1>2 DEF Runtime!ServiceTypeOK
  <2> QED
    BY <2>1 DEF Prompts
<1>4. fiber[e] \notin {"streaming", "tool"}
  BY <1>1, <1>3 DEF TurnHolds, live
<1> QED
  BY <1>1, <1>2, <1>4 DEF Occupied

\* A turn is refused as busy by the runtime and in no other way.
LEMMA NotBusy ==
    ASSUME Inv, [Next]_vars, NEW d \in Shapes, result'[d] = "busy", result[d] # "busy"
    PROVE  \E c \in Shapes : shapeRefused(c)
<1> USE TurnsAssumption DEF Inv, Types, TurnTypes
<1>1. ASSUME UNCHANGED result PROVE FALSE
  BY <1>1
<1>2. ASSUME NEW c, NEW value, value # "busy", ends(c, value) PROVE FALSE
  BY <1>2 DEF ends
<1>3. ASSUME NEW c, interrupt(c) PROVE FALSE
  BY <1>1, <1>2, <1>3 DEF interrupt, fiberVars
<1>4. ASSUME selectReasoning PROVE FALSE
  BY <1>4, <1>3 DEF selectReasoning, resetSession
<1>5. ASSUME reasoningSelected PROVE FALSE
  BY <1>5, <1>1 DEF reasoningSelected, fiberVars
<1>6. ASSUME NEW c \in Commands, dispatch(c) PROVE FALSE
  BY <1>6, <1>1 DEF dispatch, others, fiberVars
<1>7. ASSUME NEW c \in Shapes, startShape(c) PROVE FALSE
  BY <1>7, <1>1 DEF startShape, others, fiberVars
<1>8. ASSUME NEW c \in Cancels, startCancel(c) PROVE FALSE
  BY <1>8, <1>1 DEF startCancel, fiberVars
<1>9. ASSUME NEW c \in Cancels, cancel(c) PROVE FALSE
  BY <1>9, <1>3 DEF cancel
<1>10. ASSUME NEW c \in Cancels, cancelFails(c) PROVE FALSE
  BY <1>10, <1>1 DEF cancelFails, fiberVars
<1>11. ASSUME NEW c \in Selects, startSelect(c) PROVE FALSE
  BY <1>11, <1>3 DEF startSelect, resetSession
<1>12. ASSUME NEW c \in Selects, selectModel(c) PROVE FALSE
  BY <1>12, <1>1 DEF selectModel, fiberVars
<1>13. ASSUME NEW c \in Shapes, finishTurn(c) PROVE FALSE
  BY <1>13, <1>1 DEF finishTurn, others, fiberVars
<1>14. ASSUME NEW c \in Shapes, applied(c) PROVE FALSE
  BY <1>14, <1>1 DEF applied, others, fiberVars
<1>15. ASSUME NEW c \in Commands, revoke(c) PROVE FALSE
  BY <1>15, <1>1 DEF revoke, fiberVars
<1>16. ASSUME NEW c \in Shapes, revoked(c) PROVE FALSE
  BY <1>16, <1>3 DEF revoked
<1>17. ASSUME NEW c \in Shapes, beginTurn(c) PROVE FALSE
  BY <1>17, <1>1 DEF beginTurn, turnOthers, fiberVars
<1>18. ASSUME NEW c \in Shapes, ensureSession(c) PROVE FALSE
  BY <1>18, <1>1 DEF ensureSession, turnOthers, fiberVars
<1>19. ASSUME NEW c \in Shapes, NEW s \in Sessions, createSession(c, s) PROVE FALSE
  BY <1>19, <1>1 DEF createSession, turnOthers, fiberVars
<1>20. ASSUME NEW c \in Shapes, sessionCreated(c) PROVE FALSE
  BY <1>20, <1>1 DEF sessionCreated, turnOthers, fiberVars
<1>21. ASSUME NEW c \in Shapes, shape(c) PROVE FALSE
  BY <1>21, <1>1 DEF shape, turnOthers, fiberVars
<1>22. ASSUME NEW c \in Shapes, NEW r \in Requests, NEW w \in Documents \union {Plain}, flect(c, r, w)
       PROVE  FALSE
  BY <1>22, <1>1 DEF flect, turnOthers, fiberVars
<1>23. ASSUME NEW c \in Shapes, flectEnds(c) PROVE FALSE
  BY <1>23, <1>1 DEF flectEnds, turnOthers, fiberVars
<1>24. ASSUME NEW c \in Shapes, streamEnds(c) PROVE FALSE
  BY <1>24, <1>1, <1>2 DEF streamEnds, turnOthers, fails
<1>25. ASSUME NEW c \in Shapes, streamFails(c) PROVE FALSE
  BY <1>25, <1>2 DEF streamFails, fails
<1>26. ASSUME bridgeTakes PROVE FALSE
  BY <1>26, <1>1 DEF bridgeTakes, bridgeOthers, fiberVars
<1>27. ASSUME proposeInterface PROVE FALSE
  BY <1>27, <1>1 DEF proposeInterface, bridgeOthers, fiberVars
<1>28. ASSUME dispatchNested PROVE FALSE
  BY <1>28, <1>1 DEF dispatchNested, bridgeOthers, fiberVars
<1>29. ASSUME startNested PROVE FALSE
  BY <1>29, <1>1 DEF startNested, bridgeOthers, fiberVars
<1>30. ASSUME finishNested PROVE FALSE
  BY <1>30, <1>1 DEF finishNested, bridgeOthers, fiberVars
<1>31. ASSUME shutdownBus PROVE FALSE
  BY <1>31, <1>1 DEF shutdownBus, fiberVars
<1>32. ASSUME NEW s \in Sessions, turnEnds(s) PROVE FALSE
  BY <1>32, <1>1 DEF turnEnds, runtimeOthers, fiberVars
<1>33. ASSUME NEW s \in Sessions, releaseClaim(s) PROVE FALSE
  BY <1>33, <1>1 DEF releaseClaim, runtimeOthers, fiberVars
<1>34. ASSUME NEW s \in Sessions, closeSession(s) PROVE FALSE
  BY <1>34, <1>1 DEF closeSession, runtimeOthers, fiberVars
<1>35. ASSUME NEW s \in Sessions, evict(s) PROVE FALSE
  BY <1>35, <1>1 DEF evict, runtimeOthers, fiberVars
<1>36. ASSUME NEW c \in Shapes, createFails(c) PROVE FALSE
  BY <1>36, <1>1 DEF createFails, fails, ends
<1>37. ASSUME NEW s \in Sessions, closeFails(s) PROVE FALSE
  BY <1>37, <1>1 DEF closeFails, fiberVars
<1>38. CASE UNCHANGED vars
  BY <1>38, <1>1 DEF vars, fiberVars
<1>39. Proposers \subseteq Shapes
  OBVIOUS
<1> QED
  BY <1>4, <1>5, <1>6, <1>7, <1>8, <1>9, <1>10, <1>11, <1>12, <1>13, <1>14, <1>15, <1>16, <1>17,
     <1>18, <1>19, <1>20, <1>21, <1>22, <1>23, <1>24, <1>25, <1>26, <1>27, <1>28, <1>29, <1>30,
     <1>31, <1>32, <1>33, <1>34, <1>35, <1>36, <1>37, <1>38, <1>39 DEF Next, ofTurn, ofCancel,
     ofSelect, ofBridge

\* A turn is refused as busy only because of a turn that was interrupted.
THEOREM BusySafety == Spec => BusyOnlyAfterInterruption
<1> DEFINE A == \A c \in Shapes : result'[c] = "busy" /\ result[c] # "busy" =>
                   result[turn[sid[c]][1]] = "interrupted"
<1>1. Inv /\ [Next]_vars => [A]_vars
  <2> SUFFICES ASSUME Inv, [Next]_vars, NEW d \in Shapes, result'[d] = "busy", result[d] # "busy"
               PROVE  result[turn[sid[d]][1]] = "interrupted"
    OBVIOUS
  <2> QED
    BY NotBusy, RefusedAsBusy
<1> QED
  BY Invariance, <1>1, PTL DEF Spec, BusyOnlyAfterInterruption
==============================================================================
