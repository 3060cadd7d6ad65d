--------------------------- MODULE MCBaselineCache ---------------------------
EXTENDS BaselineCache
=============================================================================
