------------------------------ MODULE MCPsaSync ------------------------------
\* Instances of PsaSync.tla for TLC: see MCPsa.cfg and MCPsaBreaker.cfg.
EXTENDS PsaSync
=============================================================================
