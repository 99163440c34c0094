------------------------------ MODULE MCAgentLoop ------------------------------
EXTENDS AgentLoop
=============================================================================
