------------------------------- MODULE FatCard -------------------------------
(***************************************************************************)
(* An SD card with disk images on it, as the three tools of tools/d64      *)
(* write it (make_fat16_d64_card.py, make_fat32_card.py,                   *)
(* make_raw_sd_d64_image.py), and the readers that have to find an image   *)
(* there: the menu of sw/c64/c64_sd_fat16_select.s, the table that the     *)
(* FAT16 tool writes for sw/c64/c64_sd_d64_select.s, fat32_reader.vhd, and *)
(* the power-up loader c64_sd_hook_boot_loader.vhd.                        *)
(*                                                                         *)
(* A card is a function from block numbers to blocks; a block is a record  *)
(* of the fields that somebody reads from it.  A file is a name            *)
(* [stem, ext] with a sequence of 256-byte sectors.                        *)
(***************************************************************************)
EXTENDS Integers, Sequences, FiniteSets, PrgParts

CONSTANTS
  FatPerBlock,    \* entries of a FAT16 in a block (256); a FAT32 has half as many
  RootPerBlock,   \* directory entries in a block (16)
  RootEntries,    \* of a FAT16 card (512)
  MinClusters, MaxClusters,   \* of a FAT16 volume (4085, 65525)
  FileSectors16,  \* the sectors of an image, the only size FAT16 takes (683)
  HookLBA,        \* where the hook image lies (8)
  HookFirst, HookNext,        \* its bytes in the first block (496) and in others (512)
  HookMax,        \* bytes of the hook's window (4096)
  NameChars, ExtChars         \* of a short name (8 and 3)

ASSUME FatAssumption ==
  /\ {FatPerBlock, RootPerBlock, RootEntries, MinClusters, MaxClusters, FileSectors16, HookLBA,
      HookFirst, HookNext, HookMax} \subseteq Nat \ {0}
  /\ FatPerBlock % 2 = 0 /\ RootEntries % RootPerBlock = 0

EOC     == 65535
D64     == <<"D", "6", "4">>
Ceil(a, b) == (a + b - 1) \div b
Field(block, f) == IF f \in DOMAIN block THEN block[f] ELSE 0

Blank  == [kind |-> "blank"]
Zeros  == [sector |-> "zeros"]
Filler == [sector |-> "ones"]
Mbr(type, start, sectors) == [kind |-> "mbr", type |-> type, start |-> start, sectors |-> sectors]
FileBlock(lo, hi) == [kind |-> "file", lo |-> lo, hi |-> hi]
FreeEntry         == [name0 |-> "free"]
DirEntry(name, first, size) ==
  [name0 |-> "used", name |-> name, attr |-> "file", first |-> first, size |-> size]

BlankCard(blocks) == [l \in 0..(blocks - 1) |-> Blank]

\* A slice assignment to the card.
Put(card, lba, blocks) ==
  [l \in DOMAIN card |-> IF l \in lba..(lba + Len(blocks) - 1) THEN blocks[l - lba + 1] ELSE card[l]]

\* Two sectors to a block, the last one filled with zeros.
Packed(sectors) ==
  [k \in 1..Ceil(Len(sectors), 2) |->
     FileBlock(sectors[2 * k - 1], IF 2 * k <= Len(sectors) THEN sectors[2 * k] ELSE Zeros)]

\* Mutant: a cluster that is not full is not counted.
Clusters_Floor(file, spc) == Len(file.sectors) \div (2 * spc)

Clusters(file, spc) == Ceil(Len(file.sectors), 2 * spc)

\* The first cluster of each file, and of the one that would come next.
FirstClusters(Count(_), n, from) ==
  LET first[i \in 1..(n + 1)] == IF i = 1 THEN from ELSE first[i - 1] + Count(i - 1)
  IN  first

\* A FAT with `roots` clusters of root directory (0 or 1) before the files.
FatBlocks(first, n, roots, spf, perBlock) ==
  LET Chained(c) == \E i \in 1..n : c \in first[i]..(first[i + 1] - 2)
      Value(c)   == IF c < 2 + roots THEN EOC
                    ELSE IF Chained(c) THEN c + 1
                    ELSE IF c < first[n + 1] THEN EOC ELSE 0
  IN  [k \in 1..spf |-> [kind |-> "fat",
                         entries |-> [e \in 0..(perBlock - 1) |-> Value((k - 1) * perBlock + e)]]]

\* Writes one after the other, a later one over an earlier one.
PutAll(card, writes) ==
  LET Hits(l) == {n \in DOMAIN writes : l - writes[n].lba \in 0..(Len(writes[n].blocks) - 1)}
      Last(l) == writes[CHOOSE n \in Hits(l) : \A m \in Hits(l) : m <= n]
  IN  [l \in DOMAIN card |->
         IF Hits(l) = {} THEN card[l] ELSE Last(l).blocks[l - Last(l).lba + 1]]

At(lba, blocks) == [lba |-> lba, blocks |-> blocks]
Fats(count, lba, blocks) ==
  [n \in 1..count |-> At(lba + (n - 1) * Len(blocks), blocks)]

-----------------------------------------------------------------------------
(* make_fat16_d64_card.py *)

\* A FAT name: what the directory keeps of a file name.
ShortName(name, Kept) ==
  LET clean(s) == SelectSeq(s, LAMBDA ch : ch \in Kept)
  IN  [stem |-> FirstN(clean(name.stem), NameChars), ext |-> FirstN(clean(name.ext), ExtChars)]

\* add_file: an image of the one size, under a name that no other file has.
Fat16Takes(files, file, Kept) ==
  /\ Len(file.sectors) = FileSectors16
  /\ \A i \in DOMAIN files : ShortName(files[i].name, Kept) # ShortName(file.name, Kept)

\* geo: [blocks, spc, start, fats, reserved] of the card; start 0 is a superfloppy.
Fat16Layout(files, geo) ==
  LET n     == Len(files)
      Count(i) == Clusters(files[i], geo.spc)
      first == FirstClusters(Count, n, 2)
      spf   == Ceil(first[n + 1], FatPerBlock)
      data  == geo.reserved + geo.fats * spf + RootEntries \div RootPerBlock
      volume == geo.blocks - geo.start
  IN  [first |-> first, spf |-> spf, root |-> geo.reserved + geo.fats * spf, data |-> data,
       volume |-> volume, needed |-> data + (first[n + 1] - 2) * geo.spc,
       clusters |-> (volume - data) \div geo.spc]

Fat16Fits(files, geo) ==
  LET lay == Fat16Layout(files, geo)
  IN  /\ lay.volume >= lay.needed
      /\ lay.clusters >= MinClusters /\ lay.clusters < MaxClusters

\* One directory entry.  Behind the root directory it tears what lies there.
PutEntry(card, root, index, entry) ==
  LET lba   == root + index \div RootPerBlock
      slots == IF card[lba].kind = "dir" THEN card[lba].slots
               ELSE [s \in 0..(RootPerBlock - 1) |-> FreeEntry]
  IN  [card EXCEPT ![lba] =
         IF @.kind = "file" THEN [kind |-> "torn"]
         ELSE [kind |-> "dir", slots |-> [slots EXCEPT ![index % RootPerBlock] = entry]]]

\* Every file's entry and then its data, file after file.
PutFiles(card, files, geo, lay, Kept) ==
  LET Entry16(i) == DirEntry(ShortName(files[i].name, Kept), lay.first[i], Len(files[i].sectors))
      Data16(i)  == geo.start + lay.data + (lay.first[i] - 2) * geo.spc
      put[i \in 0..Len(files)] ==
        IF i = 0 THEN card
        ELSE Put(PutEntry(put[i - 1], geo.start + lay.root, i - 1, Entry16(i)),
                 Data16(i), Packed(files[i].sectors))
  IN  put[Len(files)]

Bpb16(geo, lay) ==
  [kind |-> "bpb", spc |-> geo.spc, reserved |-> geo.reserved, fats |-> geo.fats,
   roots |-> RootEntries, spf |-> lay.spf, sectors |-> lay.volume]

Fat16Card(files, geo, Kept) ==
  LET lay  == Fat16Layout(files, geo)
      fat  == FatBlocks(lay.first, Len(files), 0, lay.spf, FatPerBlock)
      bare == PutAll(BlankCard(geo.blocks),
                     (IF geo.start = 0 THEN <<>> ELSE <<At(0, <<Mbr(6, geo.start, lay.volume)>>)>>)
                     \o <<At(geo.start, <<Bpb16(geo, lay)>>)>>
                     \o Fats(geo.fats, geo.start + geo.reserved, fat))
  IN  PutFiles(bare, files, geo, lay, Kept)

\* The start block of each file: meta, and write_selector_table from it.
SelectorTable(files, geo) ==
  LET lay == Fat16Layout(files, geo)
  IN  [i \in DOMAIN files |-> geo.start + lay.data + (lay.first[i] - 2) * geo.spc]

\* --hook-image: the resident code of a program, in front of the partition.
HookCode(raw, map) ==
  LET high == {i \in DOMAIN map.segments : map.segments[i].address >= 49152}
      last == map.segments[CHOOSE i \in high : \A j \in high : j <= i]
  IN  IF map = NoMap THEN Refused
      ELSE IF high = {} \/ last.size > HookMax THEN Refused
      ELSE <<Part(last.address, Slice(raw, last.offset, last.size))>>

HookBlocks(part) ==
  LET head == FirstN(part.data, HookFirst)
      rest == HexLines(SubSeq(part.data, HookFirst + 1, Len(part.data)), HookNext)
  IN  <<[kind |-> "hook", load |-> part.addr, length |-> Len(part.data), code |-> head]>>
      \o [k \in DOMAIN rest |-> [kind |-> "code", code |-> rest[k]]]

HookFits(part, geo) == geo.start # 0 /\ HookLBA + Len(HookBlocks(part)) <= geo.start

-----------------------------------------------------------------------------
(* make_fat32_card.py: no file is refused, the root directory is one cluster. *)

LfnShortName(name) ==
  [stem |-> FirstN(name.stem, NameChars), ext |-> FirstN(name.ext, ExtChars)]

\* What a card from Windows holds: a label, a long name in two parts, a system
\* directory, and an image that was deleted.
Other(name0, ext, attr) ==
  [name0 |-> name0, name |-> [stem |-> <<>>, ext |-> ext], attr |-> attr, first |-> 0, size |-> 0]
WindowsEntries ==
  <<Other("used", <<>>, "label"), Other("used", <<>>, "lfn"), Other("used", <<>>, "lfn"),
    Other("used", <<>>, "dir"), Other("deleted", D64, "file")>>

\* These, and geo.pad entries that name no image, come first.
Fat32Layout(files, geo) ==
  LET n     == Len(files)
      Count(i) == IF Clusters(files[i], geo.spc) = 0 THEN 1 ELSE Clusters(files[i], geo.spc)
      first == FirstClusters(Count, n, 3)
      spf   == Ceil(first[n + 1], FatPerBlock \div 2)
      data  == geo.reserved + geo.fats * spf
  IN  [first |-> first, spf |-> spf, data |-> data, volume |-> data + (first[n + 1] - 2) * geo.spc]

\* The directory grows with its entries, and what does not fit in its cluster
\* lies where the first file's data comes next.
Fat32Root(files, geo, lay) ==
  LET entries == (IF geo.windows THEN WindowsEntries ELSE <<>>)
                 \o [i \in 1..geo.pad |-> Other("used", <<>>, "file")]
                 \o [i \in DOMAIN files |->
                       DirEntry(LfnShortName(files[i].name), lay.first[i], Len(files[i].sectors))]
      blocks  == LET b == Ceil(Len(entries), RootPerBlock) IN IF b > geo.spc THEN b ELSE geo.spc
      Entry(k) == IF k <= Len(entries) THEN entries[k] ELSE FreeEntry
  IN  [b \in 1..blocks |->
         [kind |-> "dir", slots |-> [s \in 0..(RootPerBlock - 1) |-> Entry((b - 1) * RootPerBlock + s + 1)]]]

Fat32Card(files, geo) ==
  LET lay  == Fat32Layout(files, geo)
      fat  == FatBlocks(lay.first, Len(files), 1, lay.spf, FatPerBlock \div 2)
      bpb  == [kind |-> "bpb", spc |-> geo.spc, reserved |-> geo.reserved, fats |-> geo.fats,
               spf32 |-> lay.spf, root |-> 2, sectors |-> lay.volume]
      Cluster(c) == geo.start + lay.data + (c - 2) * geo.spc
  IN  PutAll(BlankCard(geo.start + lay.volume),
             (IF geo.start = 0 THEN <<>> ELSE <<At(0, <<Mbr(12, geo.start, lay.volume)>>)>>)
             \o <<At(geo.start, <<bpb>>)>>
             \o Fats(geo.fats, geo.start + geo.reserved, fat)
             \o <<At(Cluster(2), Fat32Root(files, geo, lay))>>
             \o [i \in DOMAIN files |-> At(Cluster(lay.first[i]), Packed(files[i].sectors))])

-----------------------------------------------------------------------------
(* make_raw_sd_d64_image.py: a sector to a block. *)

RawFits(sectors, blocks) == Len(sectors) = FileSectors16 /\ blocks >= FileSectors16
RawCard(sectors, blocks) ==
  [l \in 0..(blocks - 1) |-> IF l < Len(sectors) THEN FileBlock(sectors[l + 1], Filler)
                             ELSE FileBlock(Filler, Filler)]

-----------------------------------------------------------------------------
(* The readers. *)

NoCard == [error |-> TRUE]
Half(block, half) == IF half \in DOMAIN block THEN block[half] ELSE Zeros
Block(card, lba)  == IF lba \in DOMAIN card THEN card[lba] ELSE Blank

\* What a drive reads of the image it was given a start block for.
PackedSectors(card, lba, size) ==
  [i \in 1..size |->
     LET block == Block(card, lba + (i - 1) \div 2)
     IN  Half(block, IF i % 2 = 1 THEN "lo" ELSE "hi")]

RawSectors(card, size) == [i \in 1..size |-> Half(Block(card, i - 1), "lo")]

FatEntry(card, fatLba, perBlock, c) ==
  LET block == Block(card, fatLba + c \div perBlock)
  IN  IF block.kind = "fat" THEN block.entries[c % perBlock] ELSE 0

\* A file of `count` clusters from c on that lie one behind the other.
Contiguous(card, fatLba, perBlock, c, count) ==
  \A k \in 0..(count - 2) : FatEntry(card, fatLba, perBlock, c + k) = c + k + 1

\* The directory slots from a block on, as far as the first never-used one.
SlotsOf(card, lba, blocks) ==
  LET all == [k \in 0..(blocks * RootPerBlock - 1) |->
                LET b == Block(card, lba + k \div RootPerBlock)
                IN  IF b.kind = "dir" THEN b.slots[k % RootPerBlock] ELSE FreeEntry]
      used == {k \in DOMAIN all : \A j \in 0..k : all[j].name0 # "free"}
  IN  [k \in 1..Cardinality(used) |-> all[k - 1]]

\* An entry that is not deleted, of no attribute the reader skips.
IsImage(e, skipped) == e.name0 # "deleted" /\ e.attr \notin skipped /\ e.name.ext = D64

\* find_partition, parse_vbr and scan_root_dir of the FAT16 menu.
Fat16Menu(card) ==
  LET part == IF Field(card[0], "type") \in {4, 6, 14} THEN card[0].start ELSE 0
      bpb  == Block(card, part)
      fat  == part + Field(bpb, "reserved")
      root == fat + Field(bpb, "fats") * Field(bpb, "spf")
      data == root + Field(bpb, "roots") \div RootPerBlock
      hits == SelectSeq(SlotsOf(card, root, Field(bpb, "roots") \div RootPerBlock),
                        LAMBDA e : IsImage(e, {"label", "lfn", "dir"}))
  IN  IF Field(bpb, "spc") = 0 \/ Field(bpb, "fats") = 0 THEN <<>>
      ELSE [i \in DOMAIN hits |->
              [name |-> hits[i].name, lba |-> data + (hits[i].first - 2) * bpb.spc,
               whole |-> Contiguous(card, fat, FatPerBlock, hits[i].first,
                                    Ceil(hits[i].size, 2 * bpb.spc))]]

\* fat32_reader: the first image of the root directory's first cluster, if
\* its chain is contiguous and ends where its size says.
Fat32Mount(card) ==
  LET part == IF card[0].kind = "bpb" THEN 0 ELSE Field(card[0], "start")
      bpb  == Block(card, part)
      fat  == part + Field(bpb, "reserved")
      data == fat + Field(bpb, "fats") * Field(bpb, "spf32")
      root == data + (Field(bpb, "root") - 2) * bpb.spc
      hits == SelectSeq(SlotsOf(card, root, bpb.spc), LAMBDA e : IsImage(e, {"lfn"}))
      count == Ceil(hits[1].size, 2 * bpb.spc)
  IN  IF hits = <<>> THEN NoCard
      ELSE IF \/ ~Contiguous(card, fat, FatPerBlock \div 2, hits[1].first, count)
              \/ FatEntry(card, fat, FatPerBlock \div 2, hits[1].first + count - 1) # EOC
      THEN NoCard
      ELSE [lba |-> data + (hits[1].first - 2) * bpb.spc, size |-> hits[1].size]

\* The power-up loader: the header's block and as many more as the length needs.
BootLoad(card) ==
  LET head   == Block(card, HookLBA)
      length == Field(head, "length")
      codeFrom[lba \in Nat] == IF Block(card, lba).kind # "code" THEN <<>>
                               ELSE card[lba].code \o codeFrom[lba + 1]
      code == head.code \o codeFrom[HookLBA + 1]
  IN  IF head.kind # "hook" \/ length \notin 1..HookMax \/ Len(code) < length THEN Refused
      ELSE <<Part(head.load, SubSeq(code, 1, length))>>
=============================================================================
