------------------------------ MODULE GitClient ------------------------------
(* The Git client of src/git/git-workspace.ts: several pages share one         *)
(* repository in the origin's private file system.  Each page owns one worker, *)
(* sends it one request at a time, replaces it after a bounded lease, a        *)
(* deadline, a crash or an interruption, and holds a Web Lock meanwhile.       *)
(*                                                                             *)
(* An action of a page is what its JavaScript runs between two suspensions.    *)
(* The worker, its terminate() and the Web Lock are external.                  *)
EXTENDS Naturals, FiniteSets

CONSTANTS
    Tabs,                 \* the pages of the origin, each with one client
    Slots,                \* fibers of a page
    Calls,                \* the fibers of each page that call the client
    maxWorkerOperations,  \* the lease of a worker (16 in the product)
    MaxRequests,          \* bounds the requests of a behaviour
    MaxReloads,           \* bounds the reloads of pages
    NoCall                \* nobody holds the permit or the lock

ASSUME ClientAssumption ==
    /\ maxWorkerOperations \in Nat \ {0}
    /\ MaxRequests \in Nat /\ MaxReloads \in Nat
    /\ Calls \subseteq Tabs \X Slots /\ NoCall \notin Calls

VARIABLES
    calls,     \* what each fiber waits for, and how its last request ended
    client,    \* the client's variables in each page
    permit,    \* the fiber inside each page's semaphore
    lock,      \* the fiber that holds the Web Lock of the repository
    alive,     \* workers that were not terminated
    loaded,    \* workers that have opened the repository
    jobs,      \* requests posted to workers, with their progress
    disk,      \* the repository: its version and the writes it has seen
    requests, reloads  \* bounded counters

vars == <<calls, client, permit, lock, alive, loaded, jobs, disk, requests, reloads>>

NoWorker == 0
Generations == 1..(MaxRequests + 1)
Workers == Tabs \X Generations
Operations == {"open", "use"}
Stages == {"idle", "queued", "locking", "reopening", "requesting", "settled", "abandoned"}

\* How a request ended for its caller.  "failed" leaves the effect unknown.
Results == {"none", "ok", "refused", "failed"}
Phases == {"posted", "running", "done", "refused", "crashed"}

Jobs == [worker : Workers, call : Calls, operation : Operations, phase : Phases, seen : 0..MaxRequests]

CallStates == [at : Stages, operation : Operations, worker : {NoWorker} \union Generations,
               result : Results, applied : 0..1]

ClientStates == [activeWorker : {NoWorker} \union Generations, created : 0..(MaxRequests + 1),
                 workerWorkspace : BOOLEAN, activeWorkspace : BOOLEAN,
                 workerOperationCount : 0..(maxWorkerOperations - 1)]

TypeOK ==
    /\ calls \in [Calls -> CallStates]
    /\ client \in [Tabs -> ClientStates]
    /\ permit \in [Tabs -> Calls \union {NoCall}]
    /\ lock \in Calls \union {NoCall}
    /\ alive \subseteq Workers /\ loaded \subseteq Workers
    /\ jobs \subseteq Jobs
    /\ disk \in [version : 0..MaxRequests, writes : 0..MaxRequests]
    /\ requests \in 0..MaxRequests /\ reloads \in 0..MaxReloads

WaitsForWorker == {"reopening", "requesting"}

------------------------------------------------------------------------------
(* The client's state *)

\* A page starts with a worker, unless it could not be created.
NewClient(created) ==
    [activeWorker |-> created, created |-> created, workerWorkspace |-> FALSE,
     activeWorkspace |-> FALSE, workerOperationCount |-> 0]

WorkerOf(c) == <<c[1], calls[c].worker>>

\* MUTANT: the terminated worker stays the active one.
invalidated_KeepsWorker(state, generation) ==
    [state EXCEPT !.workerWorkspace = FALSE, !.workerOperationCount = 0]

\* What invalidateWorkerSync leaves of the client's variables.
invalidated(state, generation) ==
    [state EXCEPT !.activeWorker = IF @ = generation THEN NoWorker ELSE @,
                  !.workerWorkspace = FALSE, !.workerOperationCount = 0]

\* terminate(): the worker's work and its answers are dropped.
Terminate(worker) ==
    /\ alive' = alive \ {worker}
    /\ loaded' = loaded \ {worker}
    /\ jobs' = {j \in jobs : j.worker # worker}

leaseSpent(count) == count >= maxWorkerOperations

\* postMessage: a terminated worker loses it.
Posted(c, operation) ==
    IF WorkerOf(c) \in alive
      THEN {[worker |-> WorkerOf(c), call |-> c, operation |-> operation, phase |-> "posted", seen |-> 0]}
      ELSE {}

Init ==
    /\ calls = [c \in Calls |-> [at |-> "idle", operation |-> "open", worker |-> NoWorker,
                                 result |-> "none", applied |-> 0]]
    /\ client = [t \in Tabs |-> NewClient(1)]
    /\ permit = [t \in Tabs |-> NoCall] /\ lock = NoCall
    /\ alive = {<<t, 1>> : t \in Tabs} /\ loaded = {} /\ jobs = {}
    /\ disk = [version |-> 0, writes |-> 0]
    /\ requests = 0 /\ reloads = 0

------------------------------------------------------------------------------
(* A request, from its caller to its answer *)

\* A fiber calls the client and waits for the page's semaphore.  Callers in
\* src/ open the repository before anything else.
request(c) ==
    /\ calls[c].at = "idle" /\ requests < MaxRequests
    /\ \E operation \in Operations :
         /\ operation = "use" => client[c[1]].activeWorkspace
         /\ calls' = [calls EXCEPT ![c] = [@ EXCEPT !.at = "queued", !.operation = operation,
                                             !.worker = NoWorker, !.result = "none", !.applied = 0]]
    /\ requests' = requests + 1
    /\ UNCHANGED <<client, permit, lock, alive, loaded, jobs, disk, reloads>>

\* Inside the semaphore the worker is chosen, or created, and the lock asked for.
acquire(c) ==
    LET t == c[1]
        state == client[t]
        new == state.created + 1
    IN  /\ calls[c].at = "queued" /\ permit[t] = NoCall
        /\ \/ /\ state.activeWorker # NoWorker
              /\ calls' = [calls EXCEPT ![c] = [@ EXCEPT !.at = "locking", !.worker = state.activeWorker]]
              /\ permit' = [permit EXCEPT ![t] = c]
              /\ UNCHANGED <<client, alive>>
           \/ /\ state.activeWorker = NoWorker
              /\ calls' = [calls EXCEPT ![c] = [@ EXCEPT !.at = "locking", !.worker = new]]
              /\ permit' = [permit EXCEPT ![t] = c]
              /\ client' = [client EXCEPT ![t] = [@ EXCEPT !.activeWorker = new, !.created = new,
                                                            !.workerOperationCount = 0]]
              /\ alive' = alive \union {<<t, new>>}
           \/ /\ state.activeWorker = NoWorker  \* the worker could not start
              /\ calls' = [calls EXCEPT ![c] = [@ EXCEPT !.at = "idle", !.result = "failed"]]
              /\ UNCHANGED <<client, permit, alive>>
        /\ UNCHANGED <<lock, loaded, jobs, disk, requests, reloads>>

\* MUTANT: the lock keeps the fibers of one page apart only.
available_InPage(c) == lock \notin {c[1]} \X Slots

\* Nobody holds the Web Lock in its exclusive mode.
available(c) == lock = NoCall

\* The lock is granted: a worker without the repository opens it first.
grant(c) ==
    LET state == client[c[1]]
        reopens == calls[c].operation # "open" /\ state.activeWorkspace /\ ~state.workerWorkspace
    IN  /\ calls[c].at = "locking" /\ available(c)
        /\ lock' = c
        /\ calls' = [calls EXCEPT ![c].at = IF reopens THEN "reopening" ELSE "requesting"]
        /\ jobs' = jobs \union Posted(c, IF reopens THEN "open" ELSE calls[c].operation)
        /\ UNCHANGED <<client, permit, alive, loaded, disk, requests, reloads>>

\* The request is over inside the lock.
Ended(c, result) == calls' = [calls EXCEPT ![c] = [@ EXCEPT !.at = "settled", !.result = result]]

\* MUTANT: the answer to the reopening is taken for the answer to the request.
reopened_IsTheAnswer(c) == calls[c].at = "settled"

\* A worker that has just been reopened for the request.
reopened(c) == calls[c].at = "reopening"

\* The worker's answer arrives.
receive(c) ==
    \E j \in jobs :
        LET t == c[1]
            w == WorkerOf(c)
            opened == [client[t] EXCEPT !.workerWorkspace = @ \/ j.operation = "open"]
            count == opened.workerOperationCount + 1
        IN  /\ calls[c].at \in WaitsForWorker
            /\ j.call = c /\ j.worker = w
            /\ \/ /\ j.phase = "done" /\ reopened(c)
                  /\ calls' = [calls EXCEPT ![c].at = "requesting"]
                  /\ client' = [client EXCEPT ![t] = opened]
                  /\ jobs' = (jobs \ {j}) \union Posted(c, calls[c].operation)
                  /\ UNCHANGED <<alive, loaded>>
               \/ /\ j.phase = "done" /\ ~reopened(c) /\ leaseSpent(count)
                  /\ Ended(c, "ok")
                  /\ client' = [client EXCEPT ![t] = invalidated(opened, calls[c].worker)]
                  /\ Terminate(w)
               \/ /\ j.phase = "done" /\ ~reopened(c) /\ ~leaseSpent(count)
                  /\ Ended(c, "ok")
                  /\ client' = [client EXCEPT ![t] = [opened EXCEPT !.workerOperationCount = count]]
                  /\ jobs' = jobs \ {j}
                  /\ UNCHANGED <<alive, loaded>>
               \/ /\ j.phase = "refused"
                  /\ Ended(c, "refused")
                  /\ jobs' = jobs \ {j}
                  /\ UNCHANGED <<client, alive, loaded>>
               \/ /\ j.phase = "crashed"
                  /\ Ended(c, "failed")
                  /\ client' = [client EXCEPT ![t] = invalidated(@, calls[c].worker)]
                  /\ Terminate(w)
            /\ UNCHANGED <<permit, lock, disk, requests, reloads>>

\* MUTANT: the timer starts once the repository is open again.
timed_RequestOnly(c) == calls[c].at = "requesting"

\* The deadline covers the reopening and the request.
timed(c) == calls[c].at \in WaitsForWorker

\* The deadline passes: whatever the worker does is cut short.
deadline(c) ==
    /\ timed(c)
    /\ Ended(c, "failed")
    /\ client' = [client EXCEPT ![c[1]] = invalidated(@, calls[c].worker)]
    /\ Terminate(WorkerOf(c))
    /\ UNCHANGED <<permit, lock, disk, requests, reloads>>

\* The lock's callback has returned: the lock is released, then the permit,
\* and the caller resumes.  An open that succeeded is remembered.
settle(c) ==
    /\ calls[c].at \in {"settled", "abandoned"}
    /\ calls' = [calls EXCEPT ![c] = [@ EXCEPT !.at = "idle", !.worker = NoWorker]]
    /\ lock' = IF lock = c THEN NoCall ELSE lock
    /\ permit' = [permit EXCEPT ![c[1]] = IF @ = c THEN NoCall ELSE @]
    /\ client' = [client EXCEPT ![c[1]].activeWorkspace =
                    @ \/ (calls[c].at = "settled" /\ calls[c].operation = "open" /\ calls[c].result = "ok")]
    /\ UNCHANGED <<alive, loaded, jobs, disk, requests, reloads>>

\* The caller is interrupted.  The permit is released at once; a lock that was
\* granted only when its callback has ended.
interrupt(c) ==
    /\ \/ /\ calls[c].at \in {"queued", "locking"}
          /\ calls' = [calls EXCEPT ![c] = [@ EXCEPT !.at = "idle", !.worker = NoWorker, !.result = "failed"]]
          /\ UNCHANGED <<client, alive, loaded, jobs>>
       \/ /\ calls[c].at \in WaitsForWorker
          /\ calls' = [calls EXCEPT ![c] = [@ EXCEPT !.at = "abandoned", !.result = "failed"]]
          /\ client' = [client EXCEPT ![c[1]] = invalidated(@, calls[c].worker)]
          /\ Terminate(WorkerOf(c))
       \/ /\ calls[c].at = "settled"
          /\ calls' = [calls EXCEPT ![c] = [@ EXCEPT !.at = "abandoned", !.result = "failed"]]
          /\ UNCHANGED <<client, alive, loaded, jobs>>
    /\ permit' = [permit EXCEPT ![c[1]] = IF @ = c THEN NoCall ELSE @]
    /\ UNCHANGED <<lock, disk, requests, reloads>>

\* The page is reloaded: its fibers, its worker and its lock are gone.
reload(t) ==
    /\ reloads < MaxReloads /\ reloads' = reloads + 1
    /\ \E created \in {NoWorker, 1} :
         /\ client' = [client EXCEPT ![t] = NewClient(created)]
         /\ alive' = {w \in alive : w[1] # t} \union {<<t, g>> : g \in {created} \ {NoWorker}}
    /\ loaded' = {w \in loaded : w[1] # t}
    /\ jobs' = {j \in jobs : j.worker[1] # t}
    /\ calls' = [c \in Calls |->
                   IF c[1] = t /\ calls[c].at # "idle"
                     THEN [calls[c] EXCEPT !.at = "idle", !.worker = NoWorker, !.result = "failed"] ELSE calls[c]]
    /\ permit' = [permit EXCEPT ![t] = NoCall]
    /\ lock' = IF lock # NoCall /\ lock[1] = t THEN NoCall ELSE lock
    /\ UNCHANGED <<disk, requests>>

------------------------------------------------------------------------------
(* The worker: one operation at a time, read the repository, then write it *)

Progress(j, phase) == jobs' = (jobs \ {j}) \union {[j EXCEPT !.phase = phase]}

\* The operation reads the files that another page may have written.
begin(j) ==
    /\ j.phase = "posted"
    /\ j.operation = "open" \/ j.worker \in loaded
    /\ loaded' = loaded \union {j.worker}
    /\ jobs' = (jobs \ {j}) \union {[j EXCEPT !.phase = "running", !.seen = disk.version]}
    /\ UNCHANGED <<calls, client, permit, lock, alive, disk, requests, reloads>>

\* It writes what follows from what it has read.
write(j) ==
    /\ j.phase = "running" /\ j.operation = "use"
    /\ disk' = [version |-> j.seen + 1, writes |-> disk.writes + 1]
    /\ calls' = [calls EXCEPT ![j.call].applied = @ + 1]
    /\ Progress(j, "done")
    /\ UNCHANGED <<client, permit, lock, alive, loaded, requests, reloads>>

\* It writes nothing: an open, a guard that does not hold, no open repository, a crash.
reply(j) ==
    /\ \/ j.phase = "running" /\ j.operation = "open" /\ Progress(j, "done")
       \/ j.phase \in {"posted", "running"} /\ Progress(j, "refused")
       \/ j.phase = "running" /\ Progress(j, "crashed")
    /\ UNCHANGED <<calls, client, permit, lock, alive, loaded, disk, requests, reloads>>

------------------------------------------------------------------------------

CallStep(c) == request(c) \/ acquire(c) \/ grant(c) \/ receive(c) \/ deadline(c) \/ settle(c) \/ interrupt(c)

\* Nobody asks for anything.  With it a deadlock is a request that cannot go on.
rest == (\A c \in Calls : calls[c].at = "idle") /\ UNCHANGED vars

Next ==
    \/ \E c \in Calls : CallStep(c)
    \/ \E t \in Tabs : reload(t)
    \/ \E j \in jobs : begin(j) \/ write(j) \/ reply(j)
    \/ rest

\* Semaphore and Web Lock serve their waiters in order, abstracted to strong
\* fairness; a worker may hang for ever, a timer may not; what has been decided
\* is carried out.
Fairness ==
    \A c \in Calls :
        /\ SF_vars(acquire(c) \/ grant(c))
        /\ WF_vars(receive(c) \/ deadline(c) \/ settle(c))

Spec == Init /\ [][Next]_vars /\ Fairness

------------------------------------------------------------------------------
(* Properties *)

\* No write is made from a state of the repository that another page has
\* overwritten since: the lock is held as long as any worker may write.
NoLostUpdate == disk.version = disk.writes

\* A caller who is told of success has had its operation applied once, one who
\* is told of a refusal not at all; only a failure leaves it open.
AnswersAreHonest ==
    \A c \in Calls : calls[c].operation = "use" =>
        /\ calls[c].result = "ok" => calls[c].applied = 1
        /\ calls[c].result = "refused" => calls[c].applied = 0

\* No request waits for a worker that was terminated: nobody would answer it.
WaitsForLiveWorker ==
    \A c \in Calls : calls[c].at \in {"locking"} \union WaitsForWorker => WorkerOf(c) \in alive

\* Every request is answered, even if its worker hangs or others hold the lock.
EveryRequestEnds == \A c \in Calls : calls[c].at = "queued" ~> calls[c].at = "idle"
==============================================================================
