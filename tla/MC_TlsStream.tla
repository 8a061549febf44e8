----------------------------- MODULE MC_TlsStream -----------------------------
EXTENDS TlsStream
=============================================================================
