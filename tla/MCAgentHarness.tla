--------------------------- MODULE MCAgentHarness ---------------------------
EXTENDS AgentHarness
=============================================================================
