-------------------------- MODULE MCNatsPublisher --------------------------
(* Small instances of NatsPublisher. *)
EXTENDS NatsPublisher, TLC

\* Events are only compared for equality; those that do not marshal are apart.
Symmetry == Permutations(Event \ Opaque)
=============================================================================
