----------------------------- MODULE MCPipeline -----------------------------
EXTENDS Pipeline

CONSTANT d1

\* Filters that let everything pass, and filters for one of the domains.
MCAllowed == {{}, {d1}}
=============================================================================
