------------------------------ MODULE MCCamera ------------------------------
EXTENDS Camera
=============================================================================
