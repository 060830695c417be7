--------------------------- MODULE MCFetchSources ---------------------------
EXTENDS FetchSources

CONSTANTS rocBLAS, sdk, p1, p2, therock, none
=============================================================================
