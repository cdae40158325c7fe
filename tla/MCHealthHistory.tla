--------------------------- MODULE MCHealthHistory ---------------------------
EXTENDS HealthHistory
\* Histories of 9 results hold two failure runs with a recovery run between
\* them, and a fresh failure run cut short, for thresholds 3 and 2.
MCFailureThreshold == 3
MCRecoveryThreshold == 2
MCMaxHistory == 9
=============================================================================
