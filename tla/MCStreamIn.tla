----------------------------- MODULE MCStreamIn -----------------------------
EXTENDS StreamIn
=============================================================================
