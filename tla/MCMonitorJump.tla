--------------------------- MODULE MCMonitorJump ---------------------------
(* Two byte values; the ROM's vector is <<b0, b0>>.                         *)
EXTENDS MonitorJump
CONSTANTS b0, b1
MCHalves    == {b0, b1}
MCRomVector == [hi |-> b0, lo |-> b0]
=============================================================================
