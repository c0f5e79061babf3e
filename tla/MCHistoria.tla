----------------------------- MODULE MCHistoria -----------------------------
\* Small instances of ChimeneaHistoria for TLC.
EXTENDS ChimeneaHistoria, MCChimenea
=============================================================================
