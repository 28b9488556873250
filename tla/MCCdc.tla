------------------------------- MODULE MCCdc --------------------------------
EXTENDS Cdc

=============================================================================
