------------------------------- MODULE MCBackups -------------------------------
(* Instances of Backups for TLC. *)
EXTENDS Backups, TLC

Symmetry == Permutations(Callers)

OneChannel  == <<[address |-> "a", enabled |-> TRUE]>>
TwoChannels == <<[address |-> "a", enabled |-> TRUE],
                 [address |-> "b", enabled |-> FALSE]>>
BothEnabled == <<[address |-> "a", enabled |-> TRUE],
                 [address |-> "b", enabled |-> TRUE]>>
=============================================================================
