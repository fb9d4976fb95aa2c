----------------------------- MODULE SerialPort -----------------------------
(* The serial port that the PC's programs share: one of them has it, or       *)
(* "none".                                                                    *)

VARIABLE port
=============================================================================
