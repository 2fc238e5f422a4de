----------------------------- MODULE MCPiRuntime -----------------------------
(* A small instance of PiRuntime for TLC.                                        *)
EXTENDS PiRuntime, TLC

CONSTANTS session1, session2, prompt1, prompt2
==============================================================================
