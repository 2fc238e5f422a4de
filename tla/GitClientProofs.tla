--------------------------- MODULE GitClientProofs ---------------------------
(* Theorems about GitClient, for any pages, fibers, lease and bounds: no write *)
(* of the repository is lost, no request waits for a terminated worker, and    *)
(* callers are told what happened to their requests.                           *)
EXTENDS GitClient, TLAPS

\* The types the argument needs.  How many workers and writes there can be is
\* a matter of the bounds, and left to TypeOK and the runs.
CallType == [at : Stages, operation : Operations, worker : Nat, result : Results, applied : Nat]
ClientType == [activeWorker : Nat, created : Nat, workerWorkspace : BOOLEAN,
               activeWorkspace : BOOLEAN, workerOperationCount : Nat]
JobType == [worker : Tabs \X Nat, call : Calls, operation : Operations, phase : Phases, seen : Nat]

Typed ==
    /\ calls \in [Calls -> CallType]
    /\ client \in [Tabs -> ClientType]
    /\ permit \in [Tabs -> Calls \union {NoCall}]
    /\ lock \in Calls \union {NoCall}
    /\ alive \subseteq Tabs \X Nat
    /\ jobs \subseteq JobType
    /\ disk \in [version : Nat, writes : Nat]

InPermit == {"locking", "reopening", "requesting", "settled"}
InLock == {"reopening", "requesting", "settled", "abandoned"}

\* Permit and lock are held by the fibers that are inside them.
Held ==
    /\ \A c \in Calls : calls[c].at \in InPermit => permit[c[1]] = c
    /\ \A c \in Calls : calls[c].at \in InLock => lock = c

\* A fiber that waits has the page's active worker, which was not terminated.
Live ==
    /\ \A c \in Calls : calls[c].at \in {"locking"} \union WaitsForWorker =>
         calls[c].worker = client[c[1]].activeWorker /\ WorkerOf(c) \in alive
    /\ \A t \in Tabs : client[t].activeWorker # NoWorker => <<t, client[t].activeWorker>> \in alive

\* One worker at most has something to do, for the fiber that waits for it, and
\* what it has read is what is there.
Single ==
    /\ \A j \in jobs : calls[j.call].at \in WaitsForWorker /\ j.worker = WorkerOf(j.call)
    /\ \A j, k \in jobs : j = k
    /\ \A j \in jobs : j.phase = "running" => j.seen = disk.version

Inv == Typed /\ Held /\ Live /\ Single /\ NoLostUpdate

\* What the typing says of one fiber and of one page.
LEMMA CallTyped == ASSUME Typed, NEW c \in Calls PROVE calls[c] \in CallType /\ c[1] \in Tabs
  BY ClientAssumption DEF Typed

\* A call stays one when some of its fields are set.
LEMMA CallUpdate ==
    ASSUME NEW r \in CallType, NEW at \in Stages, NEW worker \in Nat, NEW result \in Results
    PROVE  /\ [r EXCEPT !.at = at] \in CallType
           /\ [r EXCEPT !.at = at, !.worker = worker] \in CallType
           /\ [r EXCEPT !.at = at, !.result = result] \in CallType
  BY DEF CallType

\* Every page starts idle, with one worker.
LEMMA InitInv == Init => Inv
<1> SUFFICES ASSUME Init PROVE Inv
  OBVIOUS
<1> USE DEF Init
<1>1. Typed
  <2>1. \A c \in Calls : calls[c] \in CallType
    BY DEF CallType, Stages, Operations, Results, NoWorker
  <2>2. \A t \in Tabs : client[t] \in ClientType
    BY DEF ClientType, NewClient
  <2>3. QED
    BY <2>1, <2>2 DEF Typed, NewClient
<1>2. Held /\ Live /\ Single /\ NoLostUpdate
  BY ClientAssumption
  DEF Held, Live, Single, NoLostUpdate, InPermit, InLock, WaitsForWorker, NewClient, NoWorker,
  WorkerOf
<1>3. QED
  BY <1>1, <1>2 DEF Inv

\* A fiber that queues holds nothing.
LEMMA RequestInv == ASSUME Inv, NEW c \in Calls, request(c) PROVE Inv'
<1> USE DEF request
<1> PICK operation \in Operations :
      calls' = [calls EXCEPT ![c] = [@ EXCEPT !.at = "queued", !.operation = operation,
                                       !.worker = NoWorker, !.result = "none", !.applied = 0]]
  OBVIOUS
<1>1. Typed'
  <2>1. [calls[c] EXCEPT !.at = "queued", !.operation = operation, !.worker = NoWorker,
                         !.result = "none", !.applied = 0] \in CallType
    BY CallTyped DEF Inv, CallType, Stages, Results, NoWorker
  <2>2. QED
    BY <2>1 DEF Inv, Typed
<1>2. \A d \in Calls : calls'[d].at # "queued" => calls'[d] = calls[d]
  BY DEF Inv, Typed
<1>3. calls[c].at = "idle" /\ UNCHANGED <<client, permit, lock, alive, jobs, disk>>
  OBVIOUS
<1>4. Held' /\ Live'
  BY <1>2, <1>3 DEF Inv, Held, Live, InPermit, InLock, WaitsForWorker, WorkerOf
<1>5. \A j \in jobs : j.call # c /\ calls'[j.call] = calls[j.call]
  BY <1>3 DEF Inv, Typed, Single, WaitsForWorker
<1>6. Single' /\ NoLostUpdate'
  BY <1>3, <1>5 DEF Inv, Typed, Single, NoLostUpdate, WaitsForWorker, WorkerOf
<1>7. QED
  BY <1>1, <1>4, <1>6 DEF Inv

\* The permit is free, so no other fiber of the page is past it; a worker that
\* is chosen is alive, and so is one that is created.
LEMMA AcquireInv == ASSUME Inv, NEW c \in Calls, acquire(c) PROVE Inv'
<1> DEFINE t == c[1]
<1> DEFINE new == client[t].created + 1
<1>t. t \in Tabs /\ new \in Nat
  BY ClientAssumption DEF Inv, Typed, ClientType
<1>0. calls[c].at = "queued" /\ permit[t] = NoCall /\ UNCHANGED <<lock, jobs, disk>>
  BY DEF acquire
<1>1. CASE /\ client[t].activeWorker # NoWorker
           /\ calls' = [calls EXCEPT ![c] = [@ EXCEPT !.at = "locking", !.worker = client[t].activeWorker]]
           /\ permit' = [permit EXCEPT ![t] = c]
           /\ UNCHANGED <<client, alive>>
  <2>1. Typed'
    <3>1. [calls[c] EXCEPT !.at = "locking", !.worker = client[t].activeWorker] \in CallType
      <4>1. client[t].activeWorker \in Nat
        BY <1>t DEF Inv, Typed, ClientType
      <4>2. QED
        BY <4>1, CallTyped, CallUpdate DEF Inv, Stages, Results
    <3>2. QED
      BY <1>0, <1>1, <1>t, <3>1 DEF Inv, Typed
  <2>2. \A d \in Calls : d # c => calls'[d] = calls[d] /\ (d[1] = t => calls[d].at \notin InPermit)
    BY <1>0, <1>1, ClientAssumption DEF Inv, Typed, Held
  <2>3. calls'[c].at = "locking" /\ calls'[c].worker = client[t].activeWorker
    BY <1>1 DEF Inv, Typed
  <2>4. \A d \in Calls : d[1] \in Tabs
    BY ClientAssumption
  <2>5. Held'
    BY <1>0, <1>1, <1>t, <2>2, <2>3, <2>4 DEF Inv, Typed, Held, InPermit, InLock
  <2>a. /\ WorkerOf(c)' = <<t, client[t].activeWorker>>
        /\ \A d \in Calls : d # c => WorkerOf(d)' = WorkerOf(d)
    BY <2>2, <2>3 DEF WorkerOf
  <2>6. Live'
    BY <1>0, <1>1, <1>t, <2>2, <2>3, <2>4, <2>a DEF Inv, Live, WaitsForWorker
  <2>7. Single' /\ NoLostUpdate'
    BY <1>0, <1>1, <2>2 DEF Inv, Typed, Single, NoLostUpdate, WaitsForWorker, WorkerOf
  <2>8. QED
    BY <2>1, <2>5, <2>6, <2>7 DEF Inv
<1>2. CASE /\ client[t].activeWorker = NoWorker
           /\ calls' = [calls EXCEPT ![c] = [@ EXCEPT !.at = "locking", !.worker = new]]
           /\ permit' = [permit EXCEPT ![t] = c]
           /\ client' = [client EXCEPT ![t] = [@ EXCEPT !.activeWorker = new, !.created = new,
                                                         !.workerOperationCount = 0]]
           /\ alive' = alive \union {<<t, new>>}
  <2>1. Typed'
    <3>1. [calls[c] EXCEPT !.at = "locking", !.worker = new] \in CallType
      BY <1>t, CallTyped, CallUpdate DEF Inv, Stages, Results
    <3>2. [client[t] EXCEPT !.activeWorker = new, !.created = new, !.workerOperationCount = 0]
            \in ClientType
      BY <1>t DEF Inv, Typed, ClientType
    <3>3. alive' \subseteq Tabs \X Nat
      BY <1>2, <1>t DEF Inv, Typed
    <3>4. QED
      BY <1>0, <1>2, <1>t, <3>1, <3>2, <3>3 DEF Inv, Typed
  <2>2. \A d \in Calls : d # c => calls'[d] = calls[d] /\ (d[1] = t => calls[d].at \notin InPermit)
    BY <1>0, <1>2, ClientAssumption DEF Inv, Typed, Held
  <2>3. calls'[c].at = "locking" /\ calls'[c].worker = new
    BY <1>2 DEF Inv, Typed
  <2>4. \A d \in Calls : d[1] \in Tabs
    BY ClientAssumption
  <2>a. client'[t].activeWorker = new /\ \A u \in Tabs : u # t => client'[u] = client[u]
    BY <1>2, <1>t DEF Inv, Typed
  <2>5. Held'
    BY <1>0, <1>2, <1>t, <2>2, <2>3, <2>4 DEF Inv, Typed, Held, InPermit, InLock
  <2>6. Live'
    BY <1>0, <1>2, <1>t, <2>2, <2>3, <2>4, <2>a DEF Inv, Live, WaitsForWorker, WorkerOf, InPermit
  <2>7. Single' /\ NoLostUpdate'
    BY <1>0, <1>2, <2>2 DEF Inv, Typed, Single, NoLostUpdate, WaitsForWorker, WorkerOf
  <2>8. QED
    BY <2>1, <2>5, <2>6, <2>7 DEF Inv
<1>3. CASE /\ calls' = [calls EXCEPT ![c] = [@ EXCEPT !.at = "idle", !.result = "failed"]]
           /\ UNCHANGED <<client, permit, alive>>
  <2>1. Typed'
    <3>1. [calls[c] EXCEPT !.at = "idle", !.result = "failed"] \in CallType
      BY CallTyped, CallUpdate DEF Inv, Stages, Results
    <3>2. QED
      BY <1>0, <1>3, <3>1 DEF Inv, Typed
  <2>2. \A d \in Calls : d # c => calls'[d] = calls[d]
    BY <1>3 DEF Inv, Typed
  <2>3. calls'[c].at = "idle"
    BY <1>3 DEF Inv, Typed
  <2>4. Held' /\ Live'
    BY <1>0, <1>3, <2>2, <2>3 DEF Inv, Held, Live, InPermit, InLock, WaitsForWorker, WorkerOf
  <2>5. Single' /\ NoLostUpdate'
    BY <1>0, <1>3, <2>2 DEF Inv, Typed, Single, NoLostUpdate, WaitsForWorker, WorkerOf
  <2>6. QED
    BY <2>1, <2>4, <2>5 DEF Inv
<1>4. QED
  BY <1>1, <1>2, <1>3 DEF acquire

\* Whoever is in the lock owns what any worker does.
LEMMA Owner ==
    ASSUME Inv, NEW c \in Calls, calls[c].at \in InLock
    PROVE  /\ \A d \in Calls : d # c => calls[d].at \notin InLock
           /\ \A j \in jobs : j.call = c /\ j.worker = WorkerOf(c) /\ jobs = {j}
<1>1. \A d \in Calls : d # c => calls[d].at \notin InLock
  BY DEF Inv, Held
<1>2. \A j \in jobs : j.call \in Calls
  BY DEF Inv, Typed, JobType
<1>3. QED
  BY <1>1, <1>2 DEF Inv, Single, WaitsForWorker, InLock

\* A request that is cut short leaves no worker behind: the lease is spent, the
\* worker crashed, the deadline passed or the caller was interrupted.
LEMMA CutInv ==
    ASSUME Inv, NEW c \in Calls, calls[c].at \in WaitsForWorker,
           NEW at \in {"settled", "abandoned"}, NEW result \in Results,
           NEW state \in ClientType, state.activeWorker = client[c[1]].activeWorker,
           calls' = [calls EXCEPT ![c] = [@ EXCEPT !.at = at, !.result = result]],
           client' = [client EXCEPT ![c[1]] = invalidated(state, calls[c].worker)],
           Terminate(WorkerOf(c)),
           permit' = IF at = "settled" THEN permit
                     ELSE [permit EXCEPT ![c[1]] = IF @ = c THEN NoCall ELSE @],
           UNCHANGED <<lock, disk>>
    PROVE  Inv'
<1> DEFINE t == c[1]
<1>t. t \in Tabs /\ calls[c] \in CallType /\ calls[c].at \in InLock /\ calls[c].at \in InPermit
  BY CallTyped DEF Inv, WaitsForWorker, InLock, InPermit
<1>1. jobs' = {} /\ alive' = alive \ {WorkerOf(c)}
  BY <1>t, Owner DEF Terminate
<1>2. \A d \in Calls : d # c => calls'[d] = calls[d]
  BY DEF Inv, Typed
<1>3. calls'[c] = [calls[c] EXCEPT !.at = at, !.result = result] /\ calls'[c].at = at
  BY <1>t DEF Inv, Typed, CallType
<1>4. client'[t] = invalidated(state, calls[c].worker) /\ \A u \in Tabs : u # t => client'[u] = client[u]
  BY <1>t DEF Inv, Typed
<1>5. Typed'
  <2>1. calls'[c] \in CallType
    <3>1. at \in Stages
      BY DEF Stages
    <3>2. [calls[c] EXCEPT !.at = at, !.result = result] \in CallType
      BY <1>t, <3>1 DEF CallType
    <3>3. QED
      BY <1>3, <3>2
  <2>2. invalidated(state, calls[c].worker) \in ClientType
    BY DEF invalidated, ClientType, NoWorker
  <2>3. permit' \in [Tabs -> Calls \union {NoCall}]
    BY <1>t DEF Inv, Typed
  <2>4. QED
    BY <1>t, <1>1, <2>1, <2>2, <2>3 DEF Inv, Typed
<1>6. \A d \in Calls : d # c => (d[1] = t => calls[d].at \notin InPermit) /\ calls[d].at \notin InLock
  BY <1>t, Owner DEF Inv, Held
<1>7. Held'
  <2>1. \A d \in Calls : d # c /\ calls[d].at \in InPermit => permit'[d[1]] = d
    BY <1>t, <1>6, CallTyped DEF Inv, Typed, Held
  <2>2. calls'[c].at \in InPermit => permit'[t] = c
    BY <1>t, <1>3 DEF Inv, Held, InPermit
  <2>3. lock' = c
    BY <1>t DEF Inv, Held
  <2>4. QED
    BY <1>2, <1>3, <1>6, <2>1, <2>2, <2>3 DEF Held
<1>8. Live'
  <2>1. \A d \in Calls : d # c => WorkerOf(d)' = WorkerOf(d)
    BY <1>2 DEF WorkerOf
  <2>2. calls'[c].at \notin {"locking"} \union WaitsForWorker
    BY <1>3 DEF WaitsForWorker
  <2>3. \A d \in Calls : d # c /\ calls[d].at \in {"locking"} \union WaitsForWorker =>
          d[1] # t /\ WorkerOf(d) \in alive'
    BY <1>1, <1>6 DEF Inv, Live, WorkerOf, WaitsForWorker, InPermit
  <2>4. client'[t].activeWorker = NoWorker
    <3>1. state.activeWorker = calls[c].worker
      BY <1>t DEF Inv, Live
    <3>2. invalidated(state, calls[c].worker).activeWorker = NoWorker
      BY <3>1 DEF invalidated, ClientType
    <3>3. QED
      BY <1>4, <3>2
  <2>5. \A u \in Tabs : client'[u].activeWorker # NoWorker => <<u, client'[u].activeWorker>> \in alive'
    BY <1>1, <1>4, <2>4 DEF Inv, Live, WorkerOf
  <2>6. QED
    BY <1>2, <1>4, <2>1, <2>2, <2>3, <2>5, CallTyped DEF Inv, Live
<1>9. Single' /\ NoLostUpdate'
  BY <1>1 DEF Inv, Single, NoLostUpdate
<1>10. QED
  BY <1>5, <1>7, <1>8, <1>9 DEF Inv

\* The lock is free, so no worker has anything to do.
LEMMA GrantInv == ASSUME Inv, NEW c \in Calls, grant(c) PROVE Inv'
<1> PICK at \in WaitsForWorker, operation \in Operations :
      /\ calls' = [calls EXCEPT ![c].at = at]
      /\ jobs' = jobs \union Posted(c, operation)
  <2>1. calls[c].operation \in Operations
    BY CallTyped DEF Inv, CallType
  <2>2. QED
    BY <2>1 DEF grant, available, WaitsForWorker, Operations
<1>0. /\ calls[c].at = "locking" /\ lock = NoCall /\ lock' = c
      /\ UNCHANGED <<client, permit, alive, disk>>
  BY DEF grant, available
<1>t. calls[c] \in CallType /\ c[1] \in Tabs /\ WorkerOf(c) \in alive
  BY <1>0, CallTyped DEF Inv, Live
<1>1. \A d \in Calls : calls[d].at \notin InLock
  BY <1>0, ClientAssumption DEF Inv, Held
<1>2. jobs = {}
  BY <1>1 DEF Inv, Typed, JobType, Single, WaitsForWorker, InLock
<1>3. jobs' = {[worker |-> WorkerOf(c), call |-> c, operation |-> operation, phase |-> "posted", seen |-> 0]}
  BY <1>t, <1>2 DEF Posted
<1>4. /\ \A d \in Calls : d # c => calls'[d] = calls[d]
      /\ calls'[c] = [calls[c] EXCEPT !.at = at] /\ calls'[c].at = at /\ calls'[c].worker = calls[c].worker
  BY <1>t DEF Inv, Typed, CallType
<1>5. \A d \in Calls : WorkerOf(d)' = WorkerOf(d)
  BY <1>4 DEF WorkerOf
<1>6. Typed'
  <2>1. calls'[c] \in CallType
    <3>1. at \in Stages
      BY DEF WaitsForWorker, Stages
    <3>2. QED
      BY <1>t, <1>4, <3>1 DEF CallType
  <2>2. jobs' \subseteq JobType
    BY <1>t, <1>3 DEF Inv, Typed, JobType, Phases
  <2>3. QED
    BY <1>0, <2>1, <2>2 DEF Inv, Typed
<1>7. Held'
  BY <1>0, <1>1, <1>4 DEF Inv, Held, InPermit
<1>8. Live'
  BY <1>0, <1>4, <1>5 DEF Inv, Live
<1>9. Single' /\ NoLostUpdate'
  BY <1>0, <1>3, <1>4, <1>5 DEF Inv, Single, NoLostUpdate
<1>10. QED
  BY <1>6, <1>7, <1>8, <1>9 DEF Inv

\* A request that ends with its worker still there: an answer within the lease,
\* or a refusal.  The job it was waiting for is taken.
LEMMA EndInv ==
    ASSUME Inv, NEW c \in Calls, NEW j \in jobs, j.call = c, calls[c].at \in WaitsForWorker,
           NEW result \in Results, NEW state \in ClientType,
           state.activeWorker = client[c[1]].activeWorker,
           Ended(c, result), client' = [client EXCEPT ![c[1]] = state],
           jobs' = jobs \ {j}, UNCHANGED <<permit, lock, alive, disk>>
    PROVE  Inv'
<1>t. c[1] \in Tabs /\ calls[c] \in CallType /\ calls[c].at \in InLock /\ calls[c].at \in InPermit
  BY CallTyped DEF Inv, WaitsForWorker, InLock, InPermit
<1>1. jobs' = {}
  BY <1>t, Owner
<1>2. /\ \A d \in Calls : d # c => calls'[d] = calls[d]
      /\ calls'[c] = [calls[c] EXCEPT !.at = "settled", !.result = result]
      /\ calls'[c].at = "settled"
  BY <1>t DEF Ended, Inv, Typed, CallType
<1>3. \A t \in Tabs : client'[t].activeWorker = client[t].activeWorker
  BY <1>t DEF Inv, Typed
<1>4. \A d \in Calls : d # c => WorkerOf(d)' = WorkerOf(d)
  BY <1>2 DEF WorkerOf
<1>5. Typed'
  <2>1. calls'[c] \in CallType
    BY <1>t, <1>2 DEF CallType, Stages
  <2>2. calls' \in [Calls -> CallType]
    BY <2>1 DEF Ended, Inv, Typed
  <2>3. QED
    BY <1>t, <1>1, <2>2 DEF Inv, Typed
<1>6. Held'
  BY <1>t, <1>2 DEF Inv, Held
<1>7. Live'
  <2>1. calls'[c].at \notin {"locking"} \union WaitsForWorker
    BY <1>2 DEF WaitsForWorker
  <2>2. \A t \in Tabs : client'[t].activeWorker # NoWorker => <<t, client'[t].activeWorker>> \in alive'
    BY <1>3 DEF Inv, Live
  <2>3. QED
    BY <1>2, <1>3, <1>4, <2>1, <2>2, CallTyped DEF Inv, Live
<1>8. Single' /\ NoLostUpdate'
  BY <1>1 DEF Inv, Single, NoLostUpdate
<1>9. QED
  BY <1>5, <1>6, <1>7, <1>8 DEF Inv

\* The worker has reopened the repository and gets the request itself.
LEMMA ReopenInv ==
    ASSUME Inv, NEW c \in Calls, NEW j \in jobs, j.call = c, calls[c].at = "reopening",
           NEW state \in ClientType, state.activeWorker = client[c[1]].activeWorker,
           calls' = [calls EXCEPT ![c].at = "requesting"],
           client' = [client EXCEPT ![c[1]] = state],
           jobs' = (jobs \ {j}) \union Posted(c, calls[c].operation),
           UNCHANGED <<permit, lock, alive, disk>>
    PROVE  Inv'
<1>t. /\ c[1] \in Tabs /\ calls[c] \in CallType /\ calls[c].at \in InLock /\ calls[c].at \in InPermit
      /\ WorkerOf(c) \in alive
  BY CallTyped DEF Inv, Live, WaitsForWorker, InLock, InPermit
<1>1. jobs' = {[worker |-> WorkerOf(c), call |-> c, operation |-> calls[c].operation,
                phase |-> "posted", seen |-> 0]}
  BY <1>t, Owner DEF Posted
<1>2. /\ \A d \in Calls : d # c => calls'[d] = calls[d]
      /\ calls'[c] = [calls[c] EXCEPT !.at = "requesting"]
      /\ calls'[c].at = "requesting" /\ calls'[c].worker = calls[c].worker
  BY <1>t DEF Inv, Typed, CallType
<1>3. \A t \in Tabs : client'[t].activeWorker = client[t].activeWorker
  BY <1>t DEF Inv, Typed
<1>4. \A d \in Calls : WorkerOf(d)' = WorkerOf(d)
  BY <1>2 DEF WorkerOf
<1>5. Typed'
  <2>1. calls'[c] \in CallType
    BY <1>t, <1>2 DEF CallType, Stages
  <2>2. jobs' \subseteq JobType
    BY <1>t, <1>1 DEF Inv, Typed, JobType, CallType, Phases
  <2>3. calls' \in [Calls -> CallType]
    BY <2>1 DEF Inv, Typed
  <2>4. QED
    BY <1>t, <2>2, <2>3 DEF Inv, Typed
<1>6. Held'
  BY <1>t, <1>2 DEF Inv, Held
<1>7. Live'
  BY <1>2, <1>3, <1>4, CallTyped DEF Inv, Live, WaitsForWorker
<1>8. Single' /\ NoLostUpdate'
  BY <1>1, <1>2, <1>4 DEF Inv, Single, NoLostUpdate, WaitsForWorker
<1>9. QED
  BY <1>5, <1>6, <1>7, <1>8 DEF Inv

\* Every way an answer is taken is one of the three above.
LEMMA ReceiveInv == ASSUME Inv, NEW c \in Calls, receive(c) PROVE Inv'
<1> DEFINE t == c[1]
<1> DEFINE w == WorkerOf(c)
<1> DEFINE opened(j) == [client[t] EXCEPT !.workerWorkspace = @ \/ j.operation = "open"]
<1> DEFINE count(j) == opened(j).workerOperationCount + 1
<1> PICK j \in jobs :
      /\ calls[c].at \in WaitsForWorker
      /\ j.call = c /\ j.worker = w
      /\ \/ /\ j.phase = "done" /\ reopened(c)
            /\ calls' = [calls EXCEPT ![c].at = "requesting"]
            /\ client' = [client EXCEPT ![t] = opened(j)]
            /\ jobs' = (jobs \ {j}) \union Posted(c, calls[c].operation)
            /\ UNCHANGED <<alive, loaded>>
         \/ /\ j.phase = "done" /\ ~reopened(c) /\ leaseSpent(count(j))
            /\ Ended(c, "ok")
            /\ client' = [client EXCEPT ![t] = invalidated(opened(j), calls[c].worker)]
            /\ Terminate(w)
         \/ /\ j.phase = "done" /\ ~reopened(c) /\ ~leaseSpent(count(j))
            /\ Ended(c, "ok")
            /\ client' = [client EXCEPT ![t] = [opened(j) EXCEPT !.workerOperationCount = count(j)]]
            /\ jobs' = jobs \ {j}
            /\ UNCHANGED <<alive, loaded>>
         \/ /\ j.phase = "refused"
            /\ Ended(c, "refused")
            /\ jobs' = jobs \ {j}
            /\ UNCHANGED <<client, alive, loaded>>
         \/ /\ j.phase = "crashed"
            /\ Ended(c, "failed")
            /\ client' = [client EXCEPT ![t] = invalidated(@, calls[c].worker)]
            /\ Terminate(w)
      /\ UNCHANGED <<permit, lock, disk, requests, reloads>>
  BY Zenon DEF receive
<1>t. t \in Tabs /\ client[t] \in ClientType
  BY CallTyped DEF Inv, Typed
<1>o. opened(j) \in ClientType /\ opened(j).activeWorker = client[t].activeWorker /\ count(j) \in Nat
  <2>1. (client[t].workerWorkspace \/ j.operation = "open") \in BOOLEAN
    OBVIOUS
  <2>2. opened(j) \in ClientType /\ opened(j).activeWorker = client[t].activeWorker
    BY <1>t, <2>1 DEF ClientType
  <2>3. count(j) \in Nat
    BY <2>2 DEF ClientType
  <2>4. QED
    BY <2>2, <2>3
<1>r. "ok" \in Results /\ "refused" \in Results /\ "failed" \in Results
  BY DEF Results
<1>1. CASE /\ j.phase = "done" /\ reopened(c)
           /\ calls' = [calls EXCEPT ![c].at = "requesting"]
           /\ client' = [client EXCEPT ![t] = opened(j)]
           /\ jobs' = (jobs \ {j}) \union Posted(c, calls[c].operation)
           /\ UNCHANGED alive
  BY <1>1, <1>o, ReopenInv DEF reopened
<1>2. CASE /\ Ended(c, "ok")
           /\ client' = [client EXCEPT ![t] = invalidated(opened(j), calls[c].worker)]
           /\ Terminate(w)
  <2>1. calls' = [calls EXCEPT ![c] = [@ EXCEPT !.at = "settled", !.result = "ok"]]
    BY <1>2 DEF Ended
  <2> HIDE DEF opened
  <2>2. QED
    BY <1>2, <1>o, <1>r, <2>1, CutInv
<1>3. CASE /\ Ended(c, "ok")
           /\ client' = [client EXCEPT ![t] = [opened(j) EXCEPT !.workerOperationCount = count(j)]]
           /\ jobs' = jobs \ {j}
           /\ UNCHANGED alive
  <2>1. /\ [opened(j) EXCEPT !.workerOperationCount = count(j)] \in ClientType
        /\ [opened(j) EXCEPT !.workerOperationCount = count(j)].activeWorker = client[t].activeWorker
    BY <1>o DEF ClientType
  <2>2. QED
    BY <1>3, <1>r, <2>1, EndInv
<1>4. CASE /\ Ended(c, "refused")
           /\ jobs' = jobs \ {j}
           /\ UNCHANGED <<client, alive>>
  <2>1. client' = [client EXCEPT ![t] = client[t]]
    BY <1>4, <1>t DEF Inv, Typed
  <2>2. QED
    BY <1>4, <1>t, <1>r, <2>1, EndInv
<1>5. CASE /\ Ended(c, "failed")
           /\ client' = [client EXCEPT ![t] = invalidated(@, calls[c].worker)]
           /\ Terminate(w)
  <2>1. calls' = [calls EXCEPT ![c] = [@ EXCEPT !.at = "settled", !.result = "failed"]]
    BY <1>5 DEF Ended
  <2>2. client' = [client EXCEPT ![t] = invalidated(client[t], calls[c].worker)]
    BY <1>5
  <2>3. QED
    BY <1>5, <1>t, <1>r, <2>1, <2>2, CutInv
<1>6. QED
  BY <1>1, <1>2, <1>3, <1>4, <1>5

\* The deadline and an interruption of a waiting fiber cut the request short.
LEMMA DeadlineInv == ASSUME Inv, NEW c \in Calls, deadline(c) PROVE Inv'
<1>1. calls' = [calls EXCEPT ![c] = [@ EXCEPT !.at = "settled", !.result = "failed"]]
  BY DEF deadline, Ended
<1>2. /\ client' = [client EXCEPT ![c[1]] = invalidated(client[c[1]], calls[c].worker)]
      /\ Terminate(WorkerOf(c)) /\ calls[c].at \in WaitsForWorker
      /\ UNCHANGED <<permit, lock, disk>>
  BY DEF deadline, timed
<1>3. client[c[1]] \in ClientType /\ "failed" \in Results
  BY CallTyped DEF Inv, Typed, Results
<1>4. QED
  BY <1>1, <1>2, <1>3, CutInv

\* A fiber that leaves without waiting for a worker: what it held is free.
LEMMA LeaveInv ==
    ASSUME Inv, NEW c \in Calls, calls[c].at \notin WaitsForWorker,
           NEW call \in CallType, calls' = [calls EXCEPT ![c] = call],
           \/ call.at = "idle"
           \/ call.at = "abandoned" /\ calls[c].at \in InLock /\ lock' = lock,
           \/ lock' = lock
           \/ lock = c /\ calls[c].at \in InLock /\ lock' = NoCall,
           NEW state \in ClientType, state.activeWorker = client[c[1]].activeWorker,
           client' = [client EXCEPT ![c[1]] = state],
           permit' = [permit EXCEPT ![c[1]] = IF @ = c THEN NoCall ELSE @],
           UNCHANGED <<alive, jobs, disk>>
    PROVE  Inv'
<1>t. c[1] \in Tabs /\ calls[c] \in CallType
  BY CallTyped DEF Inv
<1>1. calls'[c] = call /\ \A d \in Calls : d # c => calls'[d] = calls[d]
  BY DEF Inv, Typed
<1>2. \A t \in Tabs : client'[t].activeWorker = client[t].activeWorker
  BY <1>t DEF Inv, Typed
<1>3. \A d \in Calls : d # c => WorkerOf(d)' = WorkerOf(d)
  BY <1>1 DEF WorkerOf
<1>4. Typed'
  <2>1. permit' \in [Tabs -> Calls \union {NoCall}]
    BY <1>t DEF Inv, Typed
  <2>2. QED
    BY <1>t, <2>1 DEF Inv, Typed
<1>5. Held'
  <2>1. \A d \in Calls : d # c /\ calls[d].at \in InPermit => permit'[d[1]] = d
    BY <1>t, CallTyped DEF Inv, Typed, Held
  <2>2. \A d \in Calls : d # c /\ calls[d].at \in InLock => lock' = d
    BY Owner DEF Inv, Held
  <2>3. call.at \notin InPermit
    BY DEF InPermit
  <2>4. call.at \in InLock => lock' = c
    BY DEF Inv, Held, InLock
  <2>5. QED
    BY <1>1, <2>1, <2>2, <2>3, <2>4 DEF Held
<1>6. Live'
  <2>1. call.at \notin {"locking"} \union WaitsForWorker
    BY DEF WaitsForWorker
  <2>2. \A t \in Tabs : client'[t].activeWorker # NoWorker => <<t, client'[t].activeWorker>> \in alive'
    BY <1>2 DEF Inv, Live
  <2>3. QED
    BY <1>1, <1>2, <1>3, <2>1, <2>2, CallTyped DEF Inv, Live
<1>7. \A j \in jobs : j.call \in Calls /\ j.call # c
  BY DEF Inv, Typed, JobType, Single
<1>8. Single' /\ NoLostUpdate'
  BY <1>1, <1>3, <1>7 DEF Inv, Single, NoLostUpdate
<1>9. QED
  BY <1>4, <1>5, <1>6, <1>8 DEF Inv

\* The answer is passed on, and the lock and the permit are free.
LEMMA SettleInv == ASSUME Inv, NEW c \in Calls, settle(c) PROVE Inv'
<1> DEFINE t == c[1]
<1> DEFINE call == [calls[c] EXCEPT !.at = "idle", !.worker = NoWorker]
<1> DEFINE active == client[t].activeWorkspace
              \/ (calls[c].at = "settled" /\ calls[c].operation = "open" /\ calls[c].result = "ok")
<1> DEFINE state == [client[t] EXCEPT !.activeWorkspace = active]
<1>t. t \in Tabs /\ calls[c] \in CallType /\ client[t] \in ClientType
  BY CallTyped DEF Inv, Typed
<1>1. call \in CallType /\ call.at = "idle"
  BY <1>t DEF CallType, Stages, NoWorker
<1>2. active \in BOOLEAN
  OBVIOUS
<1> HIDE DEF active
<1>3. state \in ClientType /\ state.activeWorker = client[t].activeWorker
  BY <1>t, <1>2 DEF ClientType
<1>4. /\ calls' = [calls EXCEPT ![c] = call]
      /\ client' = [client EXCEPT ![t] = state]
  BY DEF settle, active
<1>5. /\ calls[c].at \in InLock /\ calls[c].at \notin WaitsForWorker
      /\ lock = c /\ lock' = NoCall /\ UNCHANGED <<alive, jobs, disk>>
      /\ permit' = [permit EXCEPT ![t] = IF @ = c THEN NoCall ELSE @]
  BY DEF settle, InLock, WaitsForWorker, Inv, Held
<1> HIDE DEF call, state
<1>6. QED
  BY <1>1, <1>3, <1>4, <1>5, LeaveInv

\* An interrupted fiber leaves; a lock it holds is released when it settles.
LEMMA InterruptInv == ASSUME Inv, NEW c \in Calls, interrupt(c) PROVE Inv'
<1> DEFINE t == c[1]
<1>t. t \in Tabs /\ calls[c] \in CallType /\ client[t] \in ClientType
  BY CallTyped DEF Inv, Typed
<1>0. /\ permit' = [permit EXCEPT ![t] = IF @ = c THEN NoCall ELSE @]
      /\ UNCHANGED <<lock, disk>>
  BY DEF interrupt
<1>1. CASE /\ calls[c].at \in {"queued", "locking"}
           /\ calls' = [calls EXCEPT ![c] = [@ EXCEPT !.at = "idle", !.worker = NoWorker, !.result = "failed"]]
           /\ UNCHANGED <<client, alive, jobs>>
  <2>1. [calls[c] EXCEPT !.at = "idle", !.worker = NoWorker, !.result = "failed"] \in CallType
    BY <1>t DEF CallType, Stages, Results, NoWorker
  <2>2. [calls[c] EXCEPT !.at = "idle", !.worker = NoWorker, !.result = "failed"].at = "idle"
    BY <1>t DEF CallType
  <2>3. calls[c].at \notin WaitsForWorker /\ client' = [client EXCEPT ![t] = client[t]]
    BY <1>1, <1>t DEF WaitsForWorker, Inv, Typed
  <2>4. QED
    BY <1>0, <1>1, <1>t, <2>1, <2>2, <2>3, LeaveInv
<1>2. CASE /\ calls[c].at \in WaitsForWorker
           /\ calls' = [calls EXCEPT ![c] = [@ EXCEPT !.at = "abandoned", !.result = "failed"]]
           /\ client' = [client EXCEPT ![t] = invalidated(@, calls[c].worker)]
           /\ Terminate(WorkerOf(c))
  <2>1. client' = [client EXCEPT ![t] = invalidated(client[t], calls[c].worker)] /\ "failed" \in Results
    BY <1>2 DEF Results
  <2>2. QED
    BY <1>0, <1>2, <1>t, <2>1, CutInv
<1>3. CASE /\ calls[c].at = "settled"
           /\ calls' = [calls EXCEPT ![c] = [@ EXCEPT !.at = "abandoned", !.result = "failed"]]
           /\ UNCHANGED <<client, alive, jobs>>
  <2>1. [calls[c] EXCEPT !.at = "abandoned", !.result = "failed"] \in CallType
    BY <1>t DEF CallType, Stages, Results
  <2>2. [calls[c] EXCEPT !.at = "abandoned", !.result = "failed"].at = "abandoned"
    BY <1>t DEF CallType
  <2>3. /\ calls[c].at \notin WaitsForWorker /\ calls[c].at \in InLock
        /\ client' = [client EXCEPT ![t] = client[t]]
    BY <1>3, <1>t DEF WaitsForWorker, InLock, Inv, Typed
  <2>4. QED
    BY <1>0, <1>3, <1>t, <2>1, <2>2, <2>3, LeaveInv
<1>4. QED
  BY <1>1, <1>2, <1>3 DEF interrupt

\* A reload takes the page's fibers, worker, job and lock with it, and leaves
\* the other pages alone.
LEMMA ReloadInv == ASSUME Inv, NEW t \in Tabs, reload(t) PROVE Inv'
<1> PICK created \in {NoWorker, 1} :
      /\ client' = [client EXCEPT ![t] = NewClient(created)]
      /\ alive' = {w \in alive : w[1] # t} \union {<<t, g>> : g \in {created} \ {NoWorker}}
  BY DEF reload
<1>0. /\ jobs' = {j \in jobs : j.worker[1] # t}
      /\ calls' = [c \in Calls |-> IF c[1] = t /\ calls[c].at # "idle"
                      THEN [calls[c] EXCEPT !.at = "idle", !.worker = NoWorker, !.result = "failed"] ELSE calls[c]]
      /\ permit' = [permit EXCEPT ![t] = NoCall]
      /\ lock' = IF lock # NoCall /\ lock[1] = t THEN NoCall ELSE lock
      /\ UNCHANGED disk
  BY DEF reload
<1>1. \A c \in Calls : c[1] \in Tabs /\ calls[c] \in CallType
  BY CallTyped DEF Inv
<1>2. \A c \in Calls : IF c[1] = t THEN calls'[c].at = "idle" ELSE calls'[c] = calls[c]
  BY <1>0, <1>1 DEF CallType
<1>3. \A c \in Calls : c[1] # t => WorkerOf(c)' = WorkerOf(c)
  BY <1>2 DEF WorkerOf
<1>4. created \in Nat
  BY DEF NoWorker
<1>5. Typed'
  <2>1. \A c \in Calls : [calls[c] EXCEPT !.at = "idle", !.worker = NoWorker, !.result = "failed"] \in CallType
    BY <1>1 DEF CallType, Stages, Results, NoWorker
  <2>2. calls' \in [Calls -> CallType]
    BY <1>0, <1>1, <2>1
  <2>3. NewClient(created) \in ClientType
    BY <1>4 DEF NewClient, ClientType
  <2>4. alive' \subseteq Tabs \X Nat
    BY <1>4 DEF Inv, Typed
  <2>5. QED
    BY <1>0, <2>2, <2>3, <2>4 DEF Inv, Typed
<1>6. Held'
  <2>1. \A c \in Calls : c[1] # t => permit'[c[1]] = permit[c[1]] /\ (lock = c => lock' = c)
    BY <1>0, <1>1, ClientAssumption DEF Inv, Typed
  <2>2. QED
    BY <1>2, <2>1 DEF Inv, Held, InPermit, InLock
<1>7. Live'
  <2>1. \A c \in Calls : c[1] # t /\ calls[c].at \in {"locking"} \union WaitsForWorker =>
          WorkerOf(c) \in alive' /\ client'[c[1]] = client[c[1]]
    BY <1>1 DEF Inv, Typed, Live, WorkerOf
  <2>2. client'[t].activeWorker = created
    BY DEF Inv, Typed, NewClient
  <2>3. \A u \in Tabs : client'[u].activeWorker # NoWorker => <<u, client'[u].activeWorker>> \in alive'
    BY <2>2 DEF Inv, Typed, Live
  <2>4. QED
    BY <1>2, <1>3, <2>1, <2>3 DEF Inv, Live, WaitsForWorker
<1>8. \A j \in jobs' : j \in jobs /\ j.call \in Calls /\ j.call[1] # t
  <2>1. \A j \in jobs : j.call \in Calls /\ j.worker = <<j.call[1], calls[j.call].worker>>
    BY DEF Inv, Typed, JobType, Single, WorkerOf
  <2>2. \A j \in jobs : j.worker[1] = j.call[1]
    BY <2>1
  <2>3. QED
    BY <1>0, <2>1, <2>2
<1>9. Single' /\ NoLostUpdate'
  BY <1>0, <1>2, <1>3, <1>8 DEF Inv, Single, NoLostUpdate
<1>10. QED
  BY <1>5, <1>6, <1>7, <1>9 DEF Inv

\* The worker goes on with the only job there is.
LEMMA WorkInv == ASSUME Inv, NEW j \in jobs, begin(j) \/ write(j) \/ reply(j) PROVE Inv'
<1> DEFINE c == j.call
<1>t. /\ c \in Calls /\ calls[c] \in CallType /\ c[1] \in Tabs /\ j \in JobType
      /\ calls[c].at \in WaitsForWorker /\ j.worker = WorkerOf(c) /\ jobs = {j}
  BY CallTyped, Owner DEF Inv, Typed, JobType, Single, WaitsForWorker, InLock
<1>0. UNCHANGED <<client, permit, lock, alive>>
  BY DEF begin, write, reply
<1>1. \A d \in Calls : calls'[d].at = calls[d].at /\ calls'[d].worker = calls[d].worker
  BY <1>t DEF Inv, Typed, CallType, begin, write, reply
<1>2. \A d \in Calls : WorkerOf(d)' = WorkerOf(d)
  BY <1>1 DEF WorkerOf
<1>3. Held' /\ Live'
  BY <1>0, <1>1, <1>2 DEF Inv, Held, Live
<1>4. CASE begin(j)
  <2> DEFINE k == [j EXCEPT !.phase = "running", !.seen = disk.version]
  <2>1. jobs' = {k} /\ UNCHANGED <<calls, disk>>
    BY <1>4, <1>t DEF begin
  <2>2. k \in JobType /\ k.call = c /\ k.worker = j.worker /\ k.seen = disk.version
    BY <1>t DEF Inv, Typed, JobType, Phases
  <2> HIDE DEF k
  <2>3. Typed' /\ Single' /\ NoLostUpdate'
    BY <1>0, <1>t, <1>2, <2>1, <2>2 DEF Inv, Typed, Single, NoLostUpdate
  <2>4. QED
    BY <1>3, <2>3 DEF Inv
<1>5. CASE write(j)
  <2> DEFINE k == [j EXCEPT !.phase = "done"]
  <2>1. /\ jobs' = {k} /\ disk' = [version |-> j.seen + 1, writes |-> disk.writes + 1]
        /\ calls' = [calls EXCEPT ![c].applied = @ + 1]
    BY <1>5, <1>t DEF write, Progress
  <2>2. k \in JobType /\ k.call = c /\ k.worker = j.worker /\ k.phase = "done"
    BY <1>t DEF JobType, Phases
  <2>3. j.seen = disk.version
    BY <1>5 DEF write, Inv, Single
  <2> HIDE DEF k
  <2>4. Typed'
    <3>1. [calls[c] EXCEPT !.applied = @ + 1] \in CallType
      BY <1>t DEF CallType
    <3>2. calls' \in [Calls -> CallType]
      BY <1>t, <2>1, <3>1 DEF Inv, Typed
    <3>3. disk' \in [version : Nat, writes : Nat]
      BY <2>1, <2>3 DEF Inv, Typed
    <3>4. QED
      BY <1>0, <2>1, <2>2, <3>2, <3>3 DEF Inv, Typed
  <2>5. Single'
    BY <1>t, <1>1, <1>2, <2>1, <2>2 DEF Single
  <2>6. NoLostUpdate'
    BY <2>1, <2>3 DEF Inv, NoLostUpdate
  <2>7. QED
    BY <1>3, <2>4, <2>5, <2>6 DEF Inv
<1>6. CASE reply(j)
  <2> PICK phase \in {"done", "refused", "crashed"} : Progress(j, phase)
    BY <1>6 DEF reply
  <2> DEFINE k == [j EXCEPT !.phase = phase]
  <2>1. jobs' = {k} /\ UNCHANGED <<calls, disk>>
    BY <1>6, <1>t DEF reply, Progress
  <2>2. k \in JobType /\ k.call = c /\ k.worker = j.worker /\ k.phase # "running"
    BY <1>t DEF JobType, Phases
  <2> HIDE DEF k
  <2>3. Typed' /\ Single' /\ NoLostUpdate'
    BY <1>0, <1>t, <1>2, <2>1, <2>2 DEF Inv, Typed, Single, NoLostUpdate
  <2>4. QED
    BY <1>3, <2>3 DEF Inv
<1>7. QED
  BY <1>4, <1>5, <1>6

\* A step that changes nothing.
LEMMA StutterInv == ASSUME Inv, UNCHANGED vars PROVE Inv'
  BY DEF vars, Inv, Typed, Held, Live, Single, NoLostUpdate, WorkerOf

LEMMA NextInv == Inv /\ [Next]_vars => Inv'
<1> SUFFICES ASSUME Inv, [Next]_vars PROVE Inv'
  OBVIOUS
<1>1. ASSUME NEW c \in Calls, CallStep(c) PROVE Inv'
  BY <1>1, RequestInv, AcquireInv, GrantInv, ReceiveInv, DeadlineInv, SettleInv, InterruptInv DEF
     CallStep
<1>2. ASSUME NEW t \in Tabs, reload(t) PROVE Inv'
  BY <1>2, ReloadInv
<1>3. ASSUME NEW j \in jobs, begin(j) \/ write(j) \/ reply(j) PROVE Inv'
  BY <1>3, WorkInv
<1>4. CASE rest \/ UNCHANGED vars
  BY <1>4, StutterInv DEF rest
<1>5. QED
  BY <1>1, <1>2, <1>3, <1>4 DEF Next

\* The inductive invariant holds in every behaviour.
THEOREM Invariance == Spec => []Inv
<1>1. Init => Inv
  BY InitInv
<1>2. Inv /\ [Next]_vars => Inv'
  BY NextInv
<1>3. QED
  BY <1>1, <1>2, PTL DEF Spec

\* No page overwrites what another has written since it read, whatever hangs,
\* crashes, times out, is interrupted or reloaded.
THEOREM WritesAreSerial == Spec => []NoLostUpdate
<1>1. Inv => NoLostUpdate
  BY DEF Inv
<1>2. QED
  BY <1>1, Invariance, PTL

\* A queued request never gets a worker that was recycled or terminated.
THEOREM WorkersAreLive == Spec => []WaitsForLiveWorker
<1>1. Inv => WaitsForLiveWorker
  BY DEF Inv, Live, WaitsForLiveWorker
<1>2. QED
  BY <1>1, Invariance, PTL

------------------------------------------------------------------------------
(* What callers are told.  A second invariant, carried by the first: a call    *)
(* and the job posted for it agree on how far its operation got.               *)

\* Nothing is applied before the request itself was posted, nothing is told
\* before it was answered, and what is told is what was done.
Honest(call) == call.operation = "use" =>
    /\ call.at \in {"queued", "locking", "reopening"} => call.applied = 0
    /\ call.at \in {"queued", "locking"} \union WaitsForWorker => call.result = "none"
    /\ call.result = "ok" => call.applied = 1
    /\ call.result = "refused" => call.applied = 0

\* The job is the one the call waits for, and has written if it is done.
Matches(job, call) == call.operation = "use" =>
    /\ job.operation = IF call.at = "reopening" THEN "open" ELSE "use"
    /\ call.applied = IF job.phase = "done" /\ job.operation = "use" THEN 1 ELSE 0

Answered ==
    /\ \A c \in Calls : Honest(calls[c])
    /\ \A j \in jobs : Matches(j, calls[j.call])

\* A step of one call, and of the job it waits for if there is one.
LEMMA CallAnswered ==
    ASSUME Inv, Answered, NEW c \in Calls, NEW call, calls' = [calls EXCEPT ![c] = call],
           Honest(call),
           \A j \in jobs' : (j \in jobs /\ j.call # c) \/ (j.call = c /\ Matches(j, call))
    PROVE  Answered'
<1>1. calls'[c] = call /\ \A d \in Calls : d # c => calls'[d] = calls[d]
  BY DEF Inv, Typed
<1>2. \A j \in jobs : j.call \in Calls
  BY DEF Inv, Typed, JobType
<1>3. QED
  BY <1>1, <1>2 DEF Answered

\* Outside the lock a call has no job.
LEMMA NoJob ==
    ASSUME Inv, NEW c \in Calls, calls[c].at \notin WaitsForWorker
    PROVE  \A j \in jobs : j.call # c
  BY DEF Inv, Single

LEMMA RequestAnswered == ASSUME Inv, Answered, NEW c \in Calls, request(c) PROVE Answered'
<1> PICK operation \in Operations :
      calls' = [calls EXCEPT ![c] = [@ EXCEPT !.at = "queued", !.operation = operation,
                                       !.worker = NoWorker, !.result = "none", !.applied = 0]]
  BY DEF request
<1> DEFINE call == [calls[c] EXCEPT !.at = "queued", !.operation = operation,
                                    !.worker = NoWorker, !.result = "none", !.applied = 0]
<1>1. Honest(call)
  BY CallTyped DEF Inv, CallType, Honest, WaitsForWorker
<1>2. jobs' = jobs /\ calls[c].at \notin WaitsForWorker
  BY DEF request, WaitsForWorker
<1> HIDE DEF call
<1>3. calls' = [calls EXCEPT ![c] = call]
  BY DEF call
<1>4. QED
  BY <1>1, <1>2, <1>3, NoJob, CallAnswered

LEMMA AcquireAnswered == ASSUME Inv, Answered, NEW c \in Calls, acquire(c) PROVE Answered'
<1>t. calls[c] \in CallType /\ Honest(calls[c]) /\ calls[c].at = "queued" /\ jobs' = jobs
  BY CallTyped DEF Inv, Answered, acquire
<1>1. PICK call \in {[calls[c] EXCEPT !.at = "locking", !.worker = client[c[1]].activeWorker],
                     [calls[c] EXCEPT !.at = "locking", !.worker = client[c[1]].created + 1],
                     [calls[c] EXCEPT !.at = "idle", !.result = "failed"]} :
        calls' = [calls EXCEPT ![c] = call]
  BY DEF acquire
<1>2. Honest(call)
  BY <1>t, <1>1 DEF CallType, Honest, WaitsForWorker
<1>3. calls[c].at \notin WaitsForWorker
  BY <1>t DEF WaitsForWorker
<1>4. \A j \in jobs' : j \in jobs /\ j.call # c
  BY <1>t, <1>3, NoJob
<1>5. QED
  BY <1>1, <1>2, <1>4, CallAnswered

\* The job that is posted has done nothing yet.
LEMMA GrantAnswered == ASSUME Inv, Answered, NEW c \in Calls, grant(c) PROVE Answered'
<1> DEFINE reopens == calls[c].operation # "open" /\ client[c[1]].activeWorkspace
                        /\ ~client[c[1]].workerWorkspace
           at == IF reopens THEN "reopening" ELSE "requesting"
           operation == IF reopens THEN "open" ELSE calls[c].operation
           call == [calls[c] EXCEPT !.at = at]
<1>t. calls[c] \in CallType /\ Honest(calls[c]) /\ calls[c].at = "locking"
  BY CallTyped DEF Inv, Answered, grant
<1>1. calls' = [calls EXCEPT ![c] = call] /\ jobs' = jobs \union Posted(c, operation)
  BY DEF grant
<1>2. calls[c].at \notin WaitsForWorker
  BY <1>t DEF WaitsForWorker
<1>3. \A j \in Posted(c, operation) : j.call = c /\ j.phase = "posted" /\ j.operation = operation
  BY DEF Posted
<1>4. /\ call.at = at /\ call.operation = calls[c].operation
      /\ call.applied = calls[c].applied /\ call.result = calls[c].result
  BY <1>t DEF CallType
<1>5. Honest(call)
  BY <1>t, <1>4 DEF Honest, WaitsForWorker
<1>6. \A j \in Posted(c, operation) : Matches(j, call)
  BY <1>t, <1>3, <1>4 DEF Honest, Matches
<1> HIDE DEF call, operation
<1>7. QED
  BY <1>1, <1>2, <1>3, <1>5, <1>6, NoJob, CallAnswered

\* A call whose job is gone.
LEMMA CutAnswered ==
    ASSUME Inv, Answered, NEW c \in Calls, calls[c].at \in WaitsForWorker,
           NEW call, calls' = [calls EXCEPT ![c] = call], Honest(call), Terminate(WorkerOf(c))
    PROVE  Answered'
<1>1. jobs' = {}
  BY Owner DEF Terminate, WaitsForWorker, InLock
<1>2. QED
  BY <1>1, CallAnswered

LEMMA ReceiveAnswered == ASSUME Inv, Answered, NEW c \in Calls, receive(c) PROVE Answered'
<1> PICK j \in jobs :
      /\ calls[c].at \in WaitsForWorker /\ j.call = c
      /\ \/ /\ j.phase = "done" /\ reopened(c)
            /\ calls' = [calls EXCEPT ![c].at = "requesting"]
            /\ jobs' = (jobs \ {j}) \union Posted(c, calls[c].operation)
         \/ j.phase = "done" /\ ~reopened(c) /\ Ended(c, "ok")
              /\ (Terminate(WorkerOf(c)) \/ jobs' = jobs \ {j})
         \/ j.phase = "refused" /\ Ended(c, "refused") /\ jobs' = jobs \ {j}
         \/ j.phase = "crashed" /\ Ended(c, "failed") /\ Terminate(WorkerOf(c))
  BY Zenon DEF receive
<1>t. /\ calls[c] \in CallType /\ Honest(calls[c]) /\ Matches(j, calls[c])
      /\ calls[c].at \in InLock /\ j \in JobType
  BY CallTyped DEF Inv, Typed, Answered, WaitsForWorker, InLock
<1>s. jobs = {j}
  BY <1>t, Owner
<1>1. CASE /\ j.phase = "done" /\ reopened(c)
           /\ calls' = [calls EXCEPT ![c].at = "requesting"]
           /\ jobs' = (jobs \ {j}) \union Posted(c, calls[c].operation)
  <2> DEFINE call == [calls[c] EXCEPT !.at = "requesting"]
  <2>1. /\ call.at = "requesting" /\ call.operation = calls[c].operation
        /\ call.applied = calls[c].applied /\ call.result = calls[c].result
    BY <1>t DEF CallType
  <2>2. Honest(call)
    BY <1>1, <1>t, <2>1 DEF Honest, reopened, WaitsForWorker
  <2>3. \A k \in jobs' : k.call = c /\ k.phase = "posted" /\ k.operation = calls[c].operation
    BY <1>1, <1>s DEF Posted
  <2>4. \A k \in jobs' : Matches(k, call)
    BY <1>1, <1>t, <2>1, <2>3 DEF Honest, Matches, reopened
  <2>5. calls' = [calls EXCEPT ![c] = call]
    BY <1>1
  <2> HIDE DEF call
  <2>6. QED
    BY <2>2, <2>3, <2>4, <2>5, CallAnswered
<1>2. ASSUME NEW result \in Results, Ended(c, result),
             Terminate(WorkerOf(c)) \/ jobs' = jobs \ {j},
             result = "ok" => j.phase = "done" /\ calls[c].at # "reopening",
             result = "refused" => j.phase = "refused"
      PROVE  Answered'
  <2> DEFINE call == [calls[c] EXCEPT !.at = "settled", !.result = result]
  <2>1. /\ call.at = "settled" /\ call.operation = calls[c].operation
        /\ call.applied = calls[c].applied /\ call.result = result
    BY <1>t DEF CallType
  <2>2. Honest(call)
    BY <1>2, <1>t, <2>1 DEF Honest, Matches, WaitsForWorker
  <2>3. calls' = [calls EXCEPT ![c] = call]
    BY <1>2 DEF Ended
  <2> HIDE DEF call
  <2>4. QED
    BY <1>2, <1>s, <2>2, <2>3, CutAnswered, CallAnswered
<1>3. QED
  BY <1>1, <1>2 DEF reopened, Results

LEMMA DeadlineAnswered == ASSUME Inv, Answered, NEW c \in Calls, deadline(c) PROVE Answered'
<1> DEFINE call == [calls[c] EXCEPT !.at = "settled", !.result = "failed"]
<1>1. Honest(call)
  BY CallTyped DEF Inv, CallType, Honest, WaitsForWorker
<1>2. /\ calls' = [calls EXCEPT ![c] = call] /\ calls[c].at \in WaitsForWorker
      /\ Terminate(WorkerOf(c))
  BY DEF deadline, timed, Ended
<1> HIDE DEF call
<1>3. QED
  BY <1>1, <1>2, CutAnswered

LEMMA SettleAnswered == ASSUME Inv, Answered, NEW c \in Calls, settle(c) PROVE Answered'
<1> DEFINE call == [calls[c] EXCEPT !.at = "idle", !.worker = NoWorker]
<1>1. Honest(calls[c]) /\ calls[c] \in CallType
  BY CallTyped DEF Inv, Answered
<1>2. Honest(call)
  BY <1>1 DEF CallType, Honest, WaitsForWorker
<1>3. calls' = [calls EXCEPT ![c] = call] /\ jobs' = jobs /\ calls[c].at \notin WaitsForWorker
  BY DEF settle, WaitsForWorker
<1> HIDE DEF call
<1>4. QED
  BY <1>2, <1>3, NoJob, CallAnswered

LEMMA InterruptAnswered == ASSUME Inv, Answered, NEW c \in Calls, interrupt(c) PROVE Answered'
<1>t. calls[c] \in CallType
  BY CallTyped DEF Inv
<1>1. PICK call \in {[calls[c] EXCEPT !.at = "idle", !.worker = NoWorker, !.result = "failed"],
                     [calls[c] EXCEPT !.at = "abandoned", !.result = "failed"]} :
        /\ calls' = [calls EXCEPT ![c] = call]
        /\ \/ calls[c].at \notin WaitsForWorker /\ jobs' = jobs
           \/ calls[c].at \in WaitsForWorker /\ Terminate(WorkerOf(c))
  BY DEF interrupt, WaitsForWorker
<1>2. Honest(call)
  BY <1>t, <1>1 DEF CallType, Honest, WaitsForWorker
<1>3. QED
  BY <1>1, <1>2, NoJob, CallAnswered, CutAnswered

LEMMA ReloadAnswered == ASSUME Inv, Answered, NEW t \in Tabs, reload(t) PROVE Answered'
<1>0. /\ jobs' = {j \in jobs : j.worker[1] # t}
      /\ calls' = [c \in Calls |-> IF c[1] = t /\ calls[c].at # "idle"
                      THEN [calls[c] EXCEPT !.at = "idle", !.worker = NoWorker, !.result = "failed"] ELSE calls[c]]
  BY DEF reload
<1>1. \A c \in Calls : calls[c] \in CallType /\ Honest(calls[c])
  BY CallTyped DEF Inv, Answered
<1>2. \A c \in Calls : Honest([calls[c] EXCEPT !.at = "idle", !.worker = NoWorker, !.result = "failed"])
  BY <1>1 DEF CallType, Honest, WaitsForWorker
<1>3. \A j \in jobs : j.call \in Calls /\ j.worker = <<j.call[1], calls[j.call].worker>>
  BY DEF Inv, Typed, JobType, Single, WorkerOf
<1>4. \A j \in jobs' : j \in jobs /\ calls'[j.call] = calls[j.call]
  <2>1. \A j \in jobs : j.worker[1] = j.call[1]
    BY <1>3
  <2>2. QED
    BY <1>0, <1>3, <2>1
<1>5. QED
  BY <1>0, <1>1, <1>2, <1>4 DEF Answered

\* A job that writes is the request itself, and writes once.
LEMMA WorkAnswered ==
    ASSUME Inv, Answered, NEW j \in jobs, begin(j) \/ write(j) \/ reply(j)
    PROVE  Answered'
<1> DEFINE c == j.call
<1>t. /\ c \in Calls /\ calls[c] \in CallType /\ j \in JobType /\ Honest(calls[c])
      /\ Matches(j, calls[c]) /\ calls[c].at \in WaitsForWorker
  BY CallTyped DEF Inv, Typed, JobType, Single, Answered
<1>s. jobs = {j}
  BY <1>t, Owner DEF WaitsForWorker, InLock
<1>1. CASE begin(j) \/ reply(j)
  <2>1. PICK k : /\ jobs' = {k} /\ calls' = calls
                 /\ k.call = c /\ k.operation = j.operation
                 /\ j.phase # "done" /\ (k.phase = "done" => k.operation = "open")
    <3>1. CASE begin(j)
      <4> DEFINE k == [j EXCEPT !.phase = "running", !.seen = disk.version]
      <4>1. k.call = c /\ k.operation = j.operation /\ k.phase = "running"
        BY <1>t DEF JobType
      <4>2. jobs' = {k} /\ calls' = calls /\ j.phase = "posted"
        BY <1>s, <3>1 DEF begin
      <4> HIDE DEF k
      <4>3. QED
        BY <4>1, <4>2
    <3>2. CASE reply(j)
      <4> PICK phase \in {"done", "refused", "crashed"} :
            /\ Progress(j, phase) /\ j.phase # "done"
            /\ phase = "done" => j.operation = "open"
        BY <3>2 DEF reply
      <4> DEFINE k == [j EXCEPT !.phase = phase]
      <4>1. k.call = c /\ k.operation = j.operation /\ k.phase = phase
        BY <1>t DEF JobType
      <4>2. jobs' = {k} /\ calls' = calls
        BY <1>s, <3>2 DEF reply, Progress
      <4> HIDE DEF k
      <4>3. QED
        BY <4>1, <4>2
    <3>3. QED
      BY <1>1, <3>1, <3>2
  <2>2. Matches(k, calls[c])
    BY <1>t, <2>1 DEF Matches
  <2>3. QED
    BY <1>t, <2>1, <2>2 DEF Answered
<1>2. CASE write(j)
  <2> DEFINE k == [j EXCEPT !.phase = "done"]
             call == [calls[c] EXCEPT !.applied = @ + 1]
  <2>1. jobs' = {k} /\ calls' = [calls EXCEPT ![c] = call]
    BY <1>2, <1>s DEF write, Progress
  <2>2. k.call = c /\ k.operation = "use" /\ k.phase = "done" /\ j.phase = "running"
    BY <1>2, <1>t DEF write, JobType
  <2>3. /\ call.at = calls[c].at /\ call.operation = calls[c].operation
        /\ call.applied = calls[c].applied + 1 /\ call.result = calls[c].result
    BY <1>t DEF CallType
  <2>4. calls[c].operation = "use" => calls[c].applied = 0 /\ calls[c].at # "reopening"
    BY <1>2, <1>t, <2>2 DEF Matches, write
  <2>5. Matches(k, call)
    BY <2>2, <2>3, <2>4 DEF Matches
  <2>6. Honest(call)
    BY <1>t, <2>3, <2>4 DEF Honest, WaitsForWorker
  <2> HIDE DEF k, call
  <2>7. QED
    BY <1>t, <2>1, <2>2, <2>5, <2>6, CallAnswered
<1>3. QED
  BY <1>1, <1>2

\* The second invariant holds in every behaviour.
THEOREM AnswersInvariance == Spec => []Answered
<1>1. Init => Inv /\ Answered
  <2>1. Init => Answered
    BY DEF Init, Answered, Honest
  <2>2. QED
    BY <2>1, InitInv
<1>2. (Inv /\ Answered) /\ [Next]_vars => (Inv /\ Answered)'
  <2> SUFFICES ASSUME Inv, Answered, [Next]_vars PROVE Answered'
    BY NextInv
  <2>1. ASSUME NEW c \in Calls, CallStep(c) PROVE Answered'
    BY <2>1, RequestAnswered, AcquireAnswered, GrantAnswered, ReceiveAnswered, DeadlineAnswered,
       SettleAnswered, InterruptAnswered DEF CallStep
  <2>2. ASSUME NEW t \in Tabs, reload(t) PROVE Answered'
    BY <2>2, ReloadAnswered
  <2>3. ASSUME NEW j \in jobs, begin(j) \/ write(j) \/ reply(j) PROVE Answered'
    BY <2>3, WorkAnswered
  <2>4. CASE rest \/ UNCHANGED vars
    BY <2>4 DEF rest, vars, Answered
  <2>5. QED
    BY <2>1, <2>2, <2>3, <2>4 DEF Next
<1>3. QED
  BY <1>1, <1>2, PTL DEF Spec

\* A caller who is told of success has had its operation applied once, one who
\* is told of a refusal not at all, through reopenings, retries of the lease,
\* deadlines, crashes, interruptions and reloads.
THEOREM CallersAreToldTheTruth == Spec => []AnswersAreHonest
<1>1. Answered => AnswersAreHonest
  BY DEF Answered, Honest, AnswersAreHonest
<1>2. QED
  BY <1>1, AnswersInvariance, PTL
==============================================================================
