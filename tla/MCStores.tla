------------------------------ MODULE MCStores ------------------------------
EXTENDS Stores

CONSTANTS s1, s2, c1

MCOwner == [c \in {c1} |-> s1]
=============================================================================
