--------------------------- MODULE MCShapingKernel ---------------------------
(* A small instance of ShapingKernel for TLC. *)
EXTENDS ShapingKernel, TLC

CONSTANTS d0, d1, d2

\* Apart from the compiled interface, documents are interchangeable.
DocumentSymmetry == Permutations({d1, d2})
==============================================================================
