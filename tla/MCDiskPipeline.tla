---------------------------- MODULE MCDiskPipeline ----------------------------
(* A disk of 13 sectors with ten for files, cards of 60 blocks. *)
EXTENDS DiskPipeline

\* The two parts of a ROM leave out the I/O window and nothing else.
ASSUME
  LET rom  == [i \in 1..ROMSize |-> i % 251]
      plan == SplitRomPlan(rom)
      Starts == {plan.parts[i].addr : i \in 1..2}
  IN  /\ Starts = {40960, 61440} /\ plan.run \in Starts
      /\ plan.parts[2].data \o plan.parts[1].data = rom
      /\ \A i \in 1..2 : ~Covers(plan.parts[i], 53248)

MCZones == {[first |-> 1, last |-> 1, sectors |-> 5, base |-> 0],
            [first |-> 2, last |-> 3, sectors |-> 3, base |-> 5],
            [first |-> 4, last |-> 4, sectors |-> 2, base |-> 11]}

\* 10 CALL 2061, and three bytes of code at 2061.
Basic == <<1, 8, 11, 8, 10, 0, 156, 50, 48, 54, 49, 0, 0, 0, 96, 97, 98>>
\* 10 CALL 49152, where nothing of the program is.
Elsewhere == <<1, 8, 12, 8, 10, 0, 156, 52, 57, 49, 53, 50, 0, 0, 0>>
\* A link that points behind the program: not BASIC.
NotLines == <<1, 8, 99, 8, 10, 0, 156, 0>>

MCPrograms ==
  {[stem |-> <<"A">>, raw |-> Basic, call |-> 2061],
   [stem |-> <<"A", "B", "C">>, raw |-> NotLines, call |-> NoCall],
   [stem |-> <<"A", "B", "*">>, raw |-> <<0, 192, 7>>, call |-> NoCall],
   [stem |-> <<"C">>, raw |-> Elsewhere, call |-> NoCall],
   [stem |-> <<"B">>, raw |-> <<1, 8>>, call |-> NoCall]}

MCOther == [i \in 1..13 |-> [other |-> i]]
MCOdd == [i \in 1..3 |-> [odd |-> i]]
Name(stem, ext) == [stem |-> stem, ext |-> ext]
MCCardFiles ==
  {[name |-> Name(<<"A">>, D64), content |-> "this"],
   [name |-> Name(<<"A", "*">>, D64), content |-> "other"],
   [name |-> Name(<<"A", "B", "C">>, D64), content |-> "other"],
   [name |-> Name(<<"A", "B", "D">>, <<"T", "X", "T">>), content |-> "other"],
   [name |-> Name(<<"B">>, D64), content |-> "odd"]}

Geo16(blocks, spc, start) ==
  [blocks |-> blocks, spc |-> spc, start |-> start, fats |-> 2, reserved |-> 1]
MCGeos16 == {Geo16(60, 1, 4), Geo16(60, 2, 3), Geo16(60, 2, 0), Geo16(30, 1, 4)}
Geo32(spc, start, pad, windows) ==
  [spc |-> spc, start |-> start, pad |-> pad, windows |-> windows, fats |-> 2, reserved |-> 2]
MCGeos32 == {Geo32(1, 2, 0, FALSE), Geo32(2, 0, 3, FALSE), Geo32(4, 2, 0, TRUE)}

\* Code behind a gap; code right behind the stub; too long; not resident.
Hook(load, gap, code, at) ==
  [raw |-> load \o <<1, 2, 3, 4>> \o gap \o code, code |-> at, stub |-> 4, resident |-> code]
Code(n) == [i \in 1..n |-> 10 * n + i]
MCHooks ==
  {Hook(<<250, 191>>, <<0, 0>>, Code(4), 49152), Hook(<<1, 8>>, <<>>, Code(6), 49152),
   Hook(<<1, 8>>, <<>>, Code(7), 49152), Hook(<<1, 8>>, <<>>, Code(3), 32768)}
=============================================================================
