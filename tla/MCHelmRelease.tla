----------------------------- MODULE MCHelmRelease -----------------------------
EXTENDS HelmRelease

CONSTANTS w1, w2
=============================================================================
