----------------------------- MODULE MCAgentStream -----------------------------
EXTENDS AgentStream
=============================================================================
