--------------------------- MODULE MCAgileButton ---------------------------
EXTENDS AgileButton
=============================================================================
