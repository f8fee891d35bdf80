----------------------------- MODULE MCHostKeyPin -----------------------------
(* Instances of HostKeyPin for TLC. *)
EXTENDS HostKeyPin, TLC

Symmetry == Permutations(Keys) \cup Permutations(Probes)
=============================================================================
