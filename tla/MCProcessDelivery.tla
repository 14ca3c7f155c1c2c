--------------------------- MODULE MCProcessDelivery ---------------------------
(* Small instances of ProcessDelivery for TLC. *)
EXTENDS ProcessDelivery, TLC

Symmetry == Permutations(Process) \cup Permutations(Call)

=============================================================================
