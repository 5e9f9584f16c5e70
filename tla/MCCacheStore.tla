----------------------------- MODULE MCCacheStore -----------------------------
EXTENDS CacheStore
=============================================================================
