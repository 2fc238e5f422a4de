------------------------ MODULE MCWorkspaceActivation ------------------------
(* A small instance of WorkspaceActivation for TLC: an app of static files, one  *)
(* that is built, and one whose review blocks its activation.                    *)
EXTENDS WorkspaceActivation

CONSTANTS builtIn, plain, static, framework, demanding
==============================================================================
