----------------------------- MODULE TurnService -----------------------------
(* What the agent runtime promises its callers (server/runtime.ts,              *)
(* ARCHITECTURE.md "Each protected session admits one active operation at a     *)
(* time"): a session runs one turn at a time; a turn is taken once, by an open  *)
(* session; a session that is closed ends its turn and is then disposed of.     *)
(* PiRuntime implements this, WorkspaceTurns relies on it.                      *)

CONSTANTS Sessions, Prompts, NoPrompt

VARIABLES
    service,  \* the state of each session
    turn,     \* the turn that occupies a session, or NoPrompt
    claimed,  \* its turn is being cancelled
    answer    \* what became of each prompt

turnVars == <<service, turn, claimed, answer>>

ServiceTypeOK ==
    /\ service \in [Sessions -> {"fresh", "open", "closed", "disposed"}]
    /\ turn \in [Sessions -> Prompts \union {NoPrompt}]
    /\ claimed \in [Sessions -> BOOLEAN]
    /\ answer \in [Prompts -> {"none", "taken", "refused", "ended"}]

ServiceInit ==
    /\ service = [s \in Sessions |-> "fresh"]
    /\ turn = [s \in Sessions |-> NoPrompt]
    /\ claimed = [s \in Sessions |-> FALSE]
    /\ answer = [p \in Prompts |-> "none"]

Open(s) ==
    /\ service[s] = "fresh" /\ service' = [service EXCEPT ![s] = "open"]
    /\ UNCHANGED <<turn, claimed, answer>>

Take(s, p) ==
    /\ service[s] = "open" /\ turn[s] = NoPrompt /\ answer[p] = "none"
    /\ turn' = [turn EXCEPT ![s] = p] /\ answer' = [answer EXCEPT ![p] = "taken"]
    /\ UNCHANGED <<service, claimed>>

\* Busy, or no such session.
Refuse(p) ==
    /\ answer[p] = "none" /\ answer' = [answer EXCEPT ![p] = "refused"]
    /\ UNCHANGED <<service, turn, claimed>>

\* The turn is over; one that is being cancelled keeps its session.
ended(s) == turn[s] # NoPrompt /\ answer[turn[s]] = "ended"

End(s) ==
    /\ turn[s] # NoPrompt /\ ~ended(s)
    /\ turn' = IF claimed[s] THEN turn ELSE [turn EXCEPT ![s] = NoPrompt]
    /\ answer' = [answer EXCEPT ![turn[s]] = "ended"]
    /\ UNCHANGED <<service, claimed>>

Cancel(s) ==
    /\ service[s] # "fresh" /\ turn[s] # NoPrompt /\ ~claimed[s]
    /\ claimed' = [claimed EXCEPT ![s] = TRUE]
    /\ UNCHANGED <<service, turn, answer>>

\* The cancel is over, or has failed.
Release(s) ==
    /\ claimed[s] /\ claimed' = [claimed EXCEPT ![s] = FALSE]
    /\ turn' = IF ended(s) THEN [turn EXCEPT ![s] = NoPrompt] ELSE turn
    /\ UNCHANGED <<service, answer>>

Close(s) ==
    /\ service[s] = "open" /\ service' = [service EXCEPT ![s] = "closed"]
    /\ UNCHANGED <<turn, claimed, answer>>

Dispose(s) ==
    /\ service[s] = "closed" /\ (turn[s] = NoPrompt \/ ended(s))
    /\ service' = [service EXCEPT ![s] = "disposed"]
    /\ UNCHANGED <<turn, claimed, answer>>

ServiceNext ==
    \/ \E s \in Sessions :
          Open(s) \/ End(s) \/ Cancel(s) \/ Release(s) \/ Close(s) \/ Dispose(s)
    \/ \E s \in Sessions, p \in Prompts : Take(s, p)
    \/ \E p \in Prompts : Refuse(p)

\* A closed session ends its turn and is disposed of, and a cancelled turn gives its
\* session back when it is over; an open session may work for ever.
ServiceFairness ==
    \A s \in Sessions :
        /\ WF_turnVars((service[s] = "closed" /\ End(s)) \/ Dispose(s))
        /\ WF_turnVars(ended(s) /\ Release(s))

ServiceSpec == ServiceInit /\ [][ServiceNext]_turnVars /\ ServiceFairness
==============================================================================
