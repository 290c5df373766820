------------------------------ MODULE MC_Cache ------------------------------
EXTENDS Cache
=============================================================================
