---------------------- MODULE MCGitInterfaceRepository -----------------------
(* A small instance of GitInterfaceRepository for TLC. *)
EXTENDS GitInterfaceRepository

CONSTANTS d0, d1  \* two documents, d0 the compiled interface

\* Bound: where a start hands out a second identifier there was a stop or a failing request,
\* and not both.
OneDisturbance == idSequence <= 1 \/ stops + faults <= 1
==============================================================================
