------------------------------- MODULE MCPlaces -------------------------------
EXTENDS Places, TLC
=============================================================================
