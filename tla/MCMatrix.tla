------------------------------- MODULE MCMatrix -------------------------------
EXTENDS MatrixSession
=============================================================================
