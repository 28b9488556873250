--------------------------- MODULE MCAttestation ---------------------------
(* Small instances of Attestation. *)
EXTENDS Attestation, TLC

\* Sigils, token ids, nonces and calls are only compared for equality.
Symmetry == Permutations(Sigil) \cup Permutations(CapId)
              \cup Permutations(Nonce) \cup Permutations(Call)
=============================================================================
