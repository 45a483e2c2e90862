--------------------------- MODULE MCResearchTrial --------------------------
EXTENDS ResearchTrial

CONSTANTS person, speech, all

Tasks == <<person, speech>>
Numbers == <<1, 2>>
=============================================================================
