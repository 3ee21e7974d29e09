---------------------- MODULE MCChronicleOperations ----------------------
(* The instance of ChronicleOperations for TLC. *)
EXTENDS ChronicleOperations, TLC

Zeros == [k \in Columns |-> 0]

Twins == Permutations(Chronicles) \cup Permutations(Jobs)
=============================================================================
