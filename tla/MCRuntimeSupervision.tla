------------------------ MODULE MCRuntimeSupervision ------------------------
EXTENDS RuntimeSupervision

CONSTANTS h1, h2

TwoHelpers == <<h1, h2>>
=============================================================================
