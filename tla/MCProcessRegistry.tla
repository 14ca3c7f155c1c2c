--------------------------- MODULE MCProcessRegistry ---------------------------
(* Small instances of ProcessRegistry for TLC. *)
EXTENDS ProcessRegistry, TLC

Symmetry == Permutations(Process) \cup Permutations(Call)

=============================================================================
