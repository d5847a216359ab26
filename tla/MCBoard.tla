------------------------------ MODULE MCBoard ------------------------------
EXTENDS Board
Cards == {"ana","ben"}
Stages == {"new", "won"}
Won == {"won"}
=============================================================================
