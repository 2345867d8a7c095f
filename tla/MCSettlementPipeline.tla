------------------------ MODULE MCSettlementPipeline ------------------------
EXTENDS SettlementPipeline

CONSTANTS p1, http1, http2, bw, cw, rw

Rows1 == 1..1
Rows2 == 1..2
Rows3 == 1..3
SeedZero == {0}
=============================================================================
