----------------------------- MODULE MCLLMCalls -----------------------------
EXTENDS LLMCalls
=============================================================================
