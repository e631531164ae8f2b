-------------------------- MODULE MCAgentIdentity --------------------------
\* The instance of AgentIdentity.tla for TLC: see MCIdentity.cfg.
EXTENDS AgentIdentity
=============================================================================
