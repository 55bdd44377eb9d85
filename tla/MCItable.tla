------------------------------ MODULE MCItable ------------------------------
EXTENDS Itable

=============================================================================
