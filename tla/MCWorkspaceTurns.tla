--------------------------- MODULE MCWorkspaceTurns ---------------------------
(* A small instance of WorkspaceTurns for TLC.                                   *)
EXTENDS WorkspaceTurns, TLC

CONSTANTS shape1, shape2, cancel1, session1, session2, document1, document2,
          request1, request2
==============================================================================
