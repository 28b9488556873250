------------------------------ MODULE OidcTtl ------------------------------
(***************************************************************************)
(* The lifetime of a bootstrap token, broker/oidc.go:419-430.  Seconds     *)
(* arrive as Go ints and become time.Durations, integers of the same width *)
(* that count nanoseconds, so a product may wrap around.                   *)
(***************************************************************************)
EXTENDS Integers

CONSTANTS
  Width,       \* bits of an int and of a time.Duration
  Second,      \* nanoseconds in a second
  MaxTtl,      \* MaxOIDCTTL, in seconds
  DefaultTtl   \* DefaultOIDCTTL, in seconds

ASSUME TtlAssumption ==
  /\ Width \in Nat \ {0}
  /\ {Second, MaxTtl, DefaultTtl} \subseteq Nat \ {0}
  /\ MaxTtl * Second < 2^(Width - 1)
  /\ DefaultTtl <= MaxTtl

\* A fact of arithmetic, stated for the proofs: the provers do not know powers.
ASSUME PowerAssumption == {2^Width, 2^(Width - 1)} \subseteq Nat \ {0}

\* A two's complement integer of Width bits.
Wrap(x) == ((x + 2^(Width - 1)) % 2^Width) - 2^(Width - 1)

\* time.Duration(sec) * time.Second
Duration(sec) == Wrap(sec * Second)

\* What the code computes from requested_ttl_sec and max_ttl_sec.
Ttl(requested, max) ==
  LET policy == IF max > 0 THEN Duration(max) ELSE DefaultTtl * Second
      asked  == IF requested > 0 /\ Duration(requested) < policy
                THEN Duration(requested) ELSE policy
  IN  IF asked > MaxTtl * Second THEN MaxTtl * Second ELSE asked
=============================================================================
