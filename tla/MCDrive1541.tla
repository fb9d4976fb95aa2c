---------------------------- MODULE MCDrive1541 ----------------------------
(* Instances of Drive1541 for TLC. *)
EXTENDS Drive1541

TwoDisks == {1, 2}
Lengths  == [d \in TwoDisks |-> IF d = 1 THEN 130 ELSE 128]
=============================================================================
