---------------------------- MODULE MCEmailOutbox ----------------------------
EXTENDS EmailOutbox

CONSTANTS w1, w2
=============================================================================
