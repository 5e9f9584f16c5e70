----------------------------- MODULE MCMemoryCache -----------------------------
EXTENDS MemoryCache
=============================================================================
