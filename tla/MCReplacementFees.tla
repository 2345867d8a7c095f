------------------------- MODULE MCReplacementFees -------------------------
(* Small prices, where rounding matters most, and a ceiling that a restart *)
(* raises or lowers.                                                       *)
EXTENDS ReplacementFees

MCBaseFees == {0, 1, 20}
MCTipCaps == {0, 3, 40}
MCCeilings == {1, 11, 44, 60}

=============================================================================
