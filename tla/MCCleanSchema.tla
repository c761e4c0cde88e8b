--------------------------- MODULE MCCleanSchema ---------------------------
EXTENDS CleanSchema
=============================================================================
