----------------------------- MODULE MCGitClient -----------------------------
(* A small instance of GitClient for TLC: two pages, one of them with two        *)
(* fibers that compete for its client.                                           *)
EXTENDS GitClient

CONSTANTS tab1, tab2, fiber1, fiber2

SmallCalls == {<<tab1, fiber1>>, <<tab1, fiber2>>, <<tab2, fiber1>>}
==============================================================================
