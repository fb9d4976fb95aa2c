--------------------------- MODULE MCDosChannels ---------------------------
(* Instances of DosChannels for TLC. *)
EXTENDS DosChannels

\* Disk 1 has a file of two sectors, disk 2 one of one and a looped one at the
\* place of disk 1's; disk 3 is no D64.
Files == << << [name |-> "ab", type |-> "SEQ", at |-> <<1, 0>>],
               [name |-> "a",  type |-> "PRG", at |-> <<1, 1>>] >>,
            << [name |-> "a",  type |-> "PRG", at |-> <<2, 0>>] >>,
            <<>> >>
Places == {<<1, 0>>, <<1, 1>>, <<2, 0>>}
EndAt(n) == [next |-> <<0, 0>>, used |-> n]
To(at)  == [next |-> at, used |-> 2]
Links ==
  LET one == [s \in Places |-> CASE s = <<1, 0>> -> To(<<2, 0>>)
                                [] s = <<1, 1>> -> EndAt(2)
                                [] OTHER        -> EndAt(1)]
      two == [s \in Places |-> CASE s = <<1, 0>> -> To(<<1, 1>>)
                                [] s = <<1, 1>> -> To(<<1, 0>>)
                                [] OTHER        -> EndAt(2)]
  IN  <<one, two, one>>
Patterns == [n \in {"*", "$", "#", "a", "ab", "a?", "none of the disk"} |->
               CASE n = "*" -> {"a", "ab"} [] n = "a?" -> {"ab"} [] OTHER -> {n}]
Spoken(name, type, mode) == [name |-> name, type |-> type, mode |-> mode]
Opens == {Spoken("$", "", {}), Spoken("a?", "SEQ", {"R"}), Spoken("*", "", {"W"})}
Number(n) == [n |-> n, zero |-> FALSE]
Reads == {<<Number(3), Number(0), Number(1), Number(1)>>, <<Number(9), Number(9)>>, <<Number(1)>>}
Padded == {<<Number(2), Number(0), [n |-> 1, zero |-> TRUE], [n |-> 1, zero |-> TRUE]>>}
Moves == {<<2, 1>>}
TwoFolders == {{1, 2, 3}, {}}
=============================================================================
