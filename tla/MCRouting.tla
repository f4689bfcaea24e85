------------------------------ MODULE MCRouting ------------------------------
EXTENDS Routing

EveryState == UF
=============================================================================
