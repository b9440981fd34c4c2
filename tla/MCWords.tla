------------------------------ MODULE MCWords ------------------------------
\* Instances of Descriptors for TLC.
EXTENDS Descriptors
=============================================================================
