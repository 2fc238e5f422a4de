---------------------- MODULE MCProductCapabilityBroker ----------------------
(* A small instance of ProductCapabilityBroker for TLC.                          *)
EXTENDS ProductCapabilityBroker

CONSTANTS workspace1, workspace2, digest1, caller1, caller2

\* The manifest permits one invocation in two units of time, the choices are one of
\* each kind, and one of them asks for more than the manifest permits.
OncePerTwo == [maxInvocations |-> 1, intervalMs |-> 2]
TwicePerTwo == [maxInvocations |-> 2, intervalMs |-> 2]
Choice(policy, duration, rate) ==
    [confirmationPolicy |-> policy, durationMs |-> duration, rateLimit |-> rate]
SmallChoices ==
    {Choice("once", Never, OncePerTwo), Choice("persistent", Never, OncePerTwo),
     Choice("workspace", 1, OncePerTwo), Choice("session", Never, TwicePerTwo)}
==============================================================================
