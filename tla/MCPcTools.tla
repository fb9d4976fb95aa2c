------------------------------- MODULE MCPcTools -------------------------------
(* The disks and cards of MCDiskPipeline; tunes on a memory of 256 cells with *)
(* pages of four; ROM images of their real size.                              *)
EXTENDS MCDiskPipeline, PcTools

Tune(stem, load, n, play) ==
  [stem |-> stem, name |-> stem, magic |-> "PSID", load |-> load, init |-> 0, play |-> play,
   start |-> 1 + (n % 2), flags |-> {1}, audible |-> TRUE,
   data |-> (IF load = 0 THEN <<24, 0>> ELSE <<>>) \o [i \in 1..n |-> 10 + i]]

\* Low, copied up; too high for a second copy; up to the bitmap and too low
\* for a player in front; load address in the data; under BASIC; interrupt
\* driven; fits but for its last page; between the windows; behind BASIC.
MCTunes ==
  <<Tune(<<"A">>, 4, 6, 5), Tune(<<"A", " ", "B">>, 32, 11, 33),
    Tune(<<"A", "B">>, 0, 5, 25), Tune(<<"B">>, 17, 18, 18), Tune(<<"B", "a">>, 84, 7, 0),
    Tune(<<"B", "A">>, 8, 9, 0), Tune(<<"C">>, 12, 9, 13), Tune(<<"C", "*">>, 60, 8, 61),
    Tune(<<"a", "b">>, 38, 9, 39),
    [Tune(<<"c", "c">>, 20, 12, 0) EXCEPT !.magic = "RSID", !.audible = FALSE],
    Tune(<<"b">>, 96, 6, 97)>>

MCCodeSize == [copy  |-> [sbc |-> 3, c64 |-> 4], place |-> [sbc |-> 2, c64 |-> 3],
               rom   |-> [poll |-> 3, irq |-> 2]]
MCOverrides == <<"c", "c">> :> [play |-> 21, song |-> 0]
MCRomBanks == [sbc |-> 80..103, c64 |-> 80..95]
MCCurated == {<<"c">>}
MCLower == [c \in {"A", "B", "C", "a", "b", "c"} |->
              CASE c = "A" -> "a" [] c = "B" -> "b" [] c = "C" -> "c" [] OTHER -> c]

Opts(target, base, basic, hz) ==
  [target |-> target, base |-> base, basic |-> basic, phi2 |-> 1000000, hz |-> hz]
MCC64Options == {Opts("c64", NoBase, TRUE, 50), Opts("c64", NoBase, TRUE, 10)}
MCWrapOptions ==
  {Opts(t, b, basic, 50) : t \in {"sbc", "c64"}, b \in {NoBase, 14, 16, 20, 24, 32}, basic \in BOOLEAN}

Rom(n, k) == [i \in 1..n |-> (i * k) % 251]
MCBootInputs ==
  {<<Part(0, Rom(16384, 3))>>, <<Part(0, Rom(12288, 3)), Part(12288, Rom(4096, 5))>>,
   <<Part(12280, Rom(16, 5)), Part(12288, HexFile(<<[offset |-> 3, value |-> 7],
                                                    [offset |-> 0, value |-> 9],
                                                    [offset |-> 3, value |-> 8]>>))>>,
   <<Part(16380, Rom(5, 3))>>}
MCEhBasicParts ==
  {[basic |-> Rom(12288, 7), kernel |-> Rom(n, 11)] : n \in {4000, 4096, 4100}}
    \cup {[basic |-> Rom(12000, 7), kernel |-> Rom(4096, 11)]}

MCLoaderFiles ==
  UNION {[1..n -> {0, 255}] : n \in 1..5} \cup {<<1, 0, 0, 0, 2, 0, 3>>, <<0, 0, 9, 200, 100, 0, 0>>}
MCLoaderOptions ==
  {[addr |-> a, fill |-> 0, minSkip |-> m, perLine |-> p, drop |-> d, start |-> s, step |-> 10] :
     a \in {49152, 65279, 65528, 65535}, m \in {1, 3}, p \in {2, 24}, d \in BOOLEAN, s \in {200, 1000, 63980}}

Table == [i \in 1..16 |-> 0]
Kern(entry, stub, first) == [entry |-> entry, stub |-> stub, first |-> first]
MCKernals == {Kern(Stock, Table, TRUE), Kern(Legacy, Table, TRUE),
              Kern(Patch, [Stub EXCEPT ![1] = 234], TRUE), Kern(<<76, 0, 192>>, Table, TRUE)}
=============================================================================
