---------------------------- MODULE MC_TlsContext ----------------------------
EXTENDS TlsContext
=============================================================================
