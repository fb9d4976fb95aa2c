--------------------------- MODULE MCSectorSource ---------------------------
(* Instances of SectorSource for TLC. *)
EXTENDS SectorSource

CONSTANTS s1, s2

TwoSectors == {s1, s2}
=============================================================================
