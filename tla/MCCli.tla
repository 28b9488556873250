------------------------------- MODULE MCCli -------------------------------
(* Small instances of Cli. *)
EXTENDS Cli, TLC

MCSymmetry == Permutations(Proc) \cup Permutations(Key)
=============================================================================
