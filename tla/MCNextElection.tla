--------------------------- MODULE MCNextElection ---------------------------
EXTENDS NextElection, TLC
=============================================================================
