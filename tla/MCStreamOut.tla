---------------------------- MODULE MCStreamOut -----------------------------
EXTENDS StreamOut
=============================================================================
