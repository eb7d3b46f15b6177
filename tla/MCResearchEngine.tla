--------------------------- MODULE MCResearchEngine ---------------------------
EXTENDS ResearchEngine

CONSTANTS a1, a2, a3, a4

MCArea == {a1, a2, a3, a4}
MCReadable == {a1, a2, a3}
MCGarbled == {a3}
==============================================================================
