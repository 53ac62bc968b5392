------------------------------ MODULE MCItApi ------------------------------
EXTENDS ItApi
=============================================================================
