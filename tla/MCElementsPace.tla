--------------------------- MODULE MCElementsPace ---------------------------
EXTENDS ElementsPace
=============================================================================
