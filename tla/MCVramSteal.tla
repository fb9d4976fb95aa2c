--------------------------- MODULE MCVramSteal ---------------------------
(* Two cells, two byte values; steals of up to three clocks.              *)
EXTENDS VramSteal
CONSTANTS c1, c2, b0, b1
MCCell == {c1, c2}
MCByte == {b0, b1}
==========================================================================
