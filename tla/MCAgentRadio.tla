---------------------------- MODULE MCAgentRadio -----------------------------
\* Two radios onboarded by dev_init; MaxExtra things go wrong or happen besides.
EXTENDS AgentRadio
=============================================================================
