--------------------------- MODULE MCStreamEpoch ---------------------------
EXTENDS StreamEpoch
=============================================================================
