---------------------------- MODULE MCBruteForce ----------------------------
(* Small instances of BruteForce. *)
EXTENDS BruteForce, TLC

Symmetry == Permutations(Handler) \cup Permutations(Client)
=============================================================================
