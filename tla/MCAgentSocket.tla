--------------------------- MODULE MCAgentSocket ---------------------------
EXTENDS AgentSocket
=============================================================================
