--------------------------- MODULE AgentCommandBus ---------------------------
(* The queue between the flect command of an agent's shell and the bridge that   *)
(* carries it out (axi/agent-command-bus.ts).  A request is submitted once; its  *)
(* submitter waits for the response, at most 30 seconds.                         *)
EXTENDS Naturals, Sequences

CONSTANTS
    Requests,       \* the requests the agents' shells will make
    BUS_CAPACITY,   \* 32
    NoRequest

ASSUME BusAssumption == BUS_CAPACITY \in Nat \ {0} /\ NoRequest \notin Requests

VARIABLES
    queue,      \* requests that the bridge has not taken
    pending,    \* requests whose submitter waits
    busClosed,  \* the bus was shut down
    response,   \* each request's Deferred: none, or its one answer
    told,       \* what the submitter of each request knows: none, waiting, an answer
    taken       \* the request that the bridge carries out

busVars == <<queue, pending, busClosed, response, told, taken>>

BusErrors == {"capacity", "timeout", "unavailable"}

BusTypeOK(Answers) ==
    /\ queue \in Seq(Requests) /\ Len(queue) <= BUS_CAPACITY
    /\ pending \subseteq Requests
    /\ busClosed \in BOOLEAN
    /\ response \in [Requests -> {"none"} \union BusErrors \union Answers]
    /\ told \in [Requests -> {"none", "waiting"} \union BusErrors \union Answers]
    /\ taken \in Requests \union {NoRequest}

BusInit ==
    /\ queue = <<>> /\ pending = {} /\ busClosed = FALSE /\ taken = NoRequest
    /\ response = [r \in Requests |-> "none"] /\ told = [r \in Requests |-> "none"]

\* Deferred.succeed and Deferred.fail: only the first completion counts.
completed(r, value) ==
    [response EXCEPT ![r] = IF @ = "none" THEN value ELSE @]

full == Len(queue) >= BUS_CAPACITY

submit(r) ==
    /\ told[r] = "none"
    /\ IF busClosed \/ full
       THEN /\ told' = [told EXCEPT ![r] = IF busClosed THEN "unavailable" ELSE "capacity"]
            /\ UNCHANGED <<queue, pending>>
       ELSE /\ told' = [told EXCEPT ![r] = "waiting"]
            /\ queue' = Append(queue, r) /\ pending' = pending \union {r}
    /\ UNCHANGED <<busClosed, response, taken>>

\* The submitter stops waiting: with the response, at its deadline, or interrupted.
leave(r, value) ==
    /\ told[r] = "waiting" /\ told' = [told EXCEPT ![r] = value]
    /\ pending' = pending \ {r}
    /\ UNCHANGED <<queue, busClosed, taken>>

receive(r) == response[r] # "none" /\ leave(r, response[r]) /\ UNCHANGED response

expire(r) == leave(r, "timeout") /\ response' = completed(r, "timeout")

interruptSubmit(r) == leave(r, "unavailable") /\ response' = completed(r, "unavailable")

\* takeOpen drops the requests that were answered while they were queued.
take ==
    /\ taken = NoRequest /\ ~busClosed /\ queue # <<>>
    /\ queue' = Tail(queue)
    /\ taken' = IF response[Head(queue)] = "none" THEN Head(queue) ELSE NoRequest
    /\ UNCHANGED <<pending, busClosed, response, told>>

respond(value) ==
    /\ response' = completed(taken, value) /\ taken' = NoRequest
    /\ UNCHANGED <<queue, pending, busClosed, told>>

shutdown ==
    /\ ~busClosed /\ busClosed' = TRUE
    /\ response' = [r \in Requests |->
                      IF r \in pending /\ response[r] = "none" THEN "unavailable" ELSE response[r]]
    /\ pending' = {} /\ queue' = <<>>
    /\ UNCHANGED <<told, taken>>
==============================================================================
