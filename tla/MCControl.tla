------------------------------ MODULE MCControl ------------------------------
(* A small instance of WorkspaceControlBridge for TLC.                           *)
EXTENDS WorkspaceControlBridge, TLC

CONSTANTS command1, revocation1, another
==============================================================================
