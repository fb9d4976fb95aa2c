------------------------------- MODULE D64Image -------------------------------
(***************************************************************************)
(* A 1541 disk image as the tools of tools/d64 write and read it:          *)
(* D64Builder (create_test_d64.py, driven by pack_d64.py), the directory   *)
(* lister and the extractor, and the place of a sector in an image file.   *)
(*                                                                         *)
(* An image is a function from blocks <<track, sector>> to sectors.  A     *)
(* sector is its link (bytes 0 and 1) with what follows: the bytes of a    *)
(* file, the slots of a directory sector, or the BAM.  The geometry, the   *)
(* bytes of a sector and the length of a name are parameters; the tools    *)
(* use RealZones, 254 bytes, 7 entries and 16 characters.                  *)
(***************************************************************************)
EXTENDS Integers, Sequences, FiniteSets, PrgParts

CONSTANTS
  Zones,      \* tracks first..last of `sectors` sectors, the first at index `base`
  DirTrack,   \* the track of BAM and directory
  Chunk,      \* bytes of a file in a sector
  PerSector,  \* entries that the builder puts in a directory sector
  NameLen,    \* characters of a name
  Plain       \* the characters that pack_d64.py keeps

RealZones == {[first |-> 1, last |-> 17, sectors |-> 21, base |-> 0],
              [first |-> 18, last |-> 24, sectors |-> 19, base |-> 357],
              [first |-> 25, last |-> 30, sectors |-> 18, base |-> 490],
              [first |-> 31, last |-> 35, sectors |-> 17, base |-> 598]}

Tracks(zones) == UNION {z.first..z.last : z \in zones}
ZoneOf(zones, t) == CHOOSE z \in zones : t \in z.first..z.last
SectorsPerTrack(zones, t) == IF t \in Tracks(zones) THEN ZoneOf(zones, t).sectors ELSE 0
BlocksOf(zones) ==
  UNION {{<<t, s>> : s \in 0..(SectorsPerTrack(zones, t) - 1)} : t \in Tracks(zones)}

NoBlock == -1
SectorIndex(zones, b) ==
  IF b[2] \notin 0..(SectorsPerTrack(zones, b[1]) - 1) THEN NoBlock
  ELSE LET z == ZoneOf(zones, b[1]) IN z.base + (b[1] - z.first) * z.sectors + b[2]

\* Two sectors to a block of the card.
SdLocation(zones, b) == [block |-> SectorIndex(zones, b) \div 2, half |-> SectorIndex(zones, b) % 2]

\* The sectors of an image file lie in it one after the other, none twice, and
\* on a raw card no two of them share half a block.
LayoutOk(zones) ==
  /\ {SectorIndex(zones, b) : b \in BlocksOf(zones)} = 0..(Cardinality(BlocksOf(zones)) - 1)
  /\ Cardinality({SdLocation(zones, b) : b \in BlocksOf(zones)}) = Cardinality(BlocksOf(zones))

ASSUME RealLayout == LayoutOk(RealZones) /\ Cardinality(BlocksOf(RealZones)) = 683
ASSUME ZonesAssumption == LayoutOk(Zones) /\ DirTrack \in Tracks(Zones)

Blocks     == BlocksOf(Zones)
ImageSize  == Cardinality(Blocks)
BlockAt(i) == CHOOSE b \in Blocks : SectorIndex(Zones, b) = i

-----------------------------------------------------------------------------
(* The builder: next free sector of each track, sectors written, entries. *)

Link         == Nat \X Nat
End          == <<0, 0>>
Zero         == [link |-> End, data |-> <<>>]
FreeSlot     == [type |-> 0]

\* d64_name and petscii_name: what the disk can spell, cut to its length.
DiskName(stem) ==
  FirstN([i \in DOMAIN stem |-> IF stem[i] \in Plain THEN stem[i] ELSE "_"], NameLen)

NewDisk == [next |-> [t \in Tracks(Zones) |-> 0], written |-> <<>>, dir |-> <<>>]
DiskFull == [next |-> <<>>, written |-> <<>>, dir |-> <<>>]

\* The first n blocks off the directory track that are not handed out, in order.
FreeBlocks(disk, n) ==
  LET free     == {b \in Blocks : b[1] # DirTrack /\ b[2] >= disk.next[b[1]]}
      Before(b) == {c \in free : SectorIndex(Zones, c) < SectorIndex(Zones, b)}
  IN  [k \in 1..Lesser(n, Cardinality(free)) |->
         CHOOSE b \in free : Cardinality(Before(b)) = k - 1]

\* The sectors of a file: each links to the next, the last to its last byte.
FileSectors(blocks, chunks) ==
  [k \in DOMAIN chunks |->
     [at |-> blocks[k],
      sector |-> [link |-> IF k < Len(chunks) THEN blocks[k + 1] ELSE <<0, Len(chunks[k]) + 1>>,
                  data |-> chunks[k]]]]

Entry(name, first, count) ==
  [type |-> 130, first |-> first, name |-> name, blocks |-> count]

\* add_prg: body is the program with its load address.
AddPrg(disk, name, body) ==
  LET chunks == HexLines(body, Chunk)
      blocks == FreeBlocks(disk, Len(chunks))
      mine   == {blocks[k] : k \in DOMAIN blocks}
  IN  IF Len(blocks) < Len(chunks) THEN DiskFull
      ELSE [next    |-> [t \in DOMAIN disk.next |->
                           disk.next[t] + Cardinality({b \in mine : b[1] = t})],
            written |-> disk.written \o FileSectors(blocks, chunks),
            dir     |-> Append(disk.dir, Entry(name, blocks[1], Len(chunks)))]

\* _write_directory: PerSector entries in each sector, from sector 1 on.
DirSectors(disk) ==
  LET groups == IF disk.dir = <<>> THEN <<<<>>>> ELSE HexLines(disk.dir, PerSector)
      At(k)  == <<DirTrack, disk.next[DirTrack] + k - 1>>
  IN  [k \in DOMAIN groups |->
         [at |-> At(k),
          sector |-> [link |-> IF k < Len(groups) THEN At(k + 1) ELSE <<0, 255>>,
                      slots |-> [j \in 1..8 |-> IF j <= Len(groups[k]) THEN groups[k][j]
                                                ELSE FreeSlot]]]]

\* _write_bam: a bit for each sector that nothing was handed.
Bam(next, first) ==
  [link |-> first, free |-> {b \in Blocks : b[2] >= next[b[1]]}]

\* Mutant: the BAM is made before the directory has its sectors.
Build_BamFirst(disk) ==
  LET reserved == [disk EXCEPT !.next[DirTrack] = 1]
      dirs     == DirSectors(reserved)
      bam      == [at |-> <<DirTrack, 0>>, sector |-> Bam(reserved.next, dirs[1].at)]
      all      == Append(disk.written \o dirs, bam)
      Writes(b) == {i \in DOMAIN all : all[i].at = b}
  IN  IF Len(dirs) >= SectorsPerTrack(Zones, DirTrack) THEN DiskFull
      ELSE [b \in Blocks |->
              IF Writes(b) = {} THEN Zero
              ELSE all[CHOOSE i \in Writes(b) : \A j \in Writes(b) : j <= i].sector]

\* build: the BAM's sector is taken before the directory is placed.
Build(disk) ==
  LET reserved == [disk EXCEPT !.next[DirTrack] = 1]
      dirs     == DirSectors(reserved)
      next     == [reserved.next EXCEPT ![DirTrack] = 1 + Len(dirs)]
      bam      == [at |-> <<DirTrack, 0>>, sector |-> Bam(next, dirs[1].at)]
      all      == Append(disk.written \o dirs, bam)
      Writes(b) == {i \in DOMAIN all : all[i].at = b}
  IN  IF next[DirTrack] > SectorsPerTrack(Zones, DirTrack) THEN DiskFull
      ELSE [b \in Blocks |->
              IF Writes(b) = {} THEN Zero
              ELSE all[CHOOSE i \in Writes(b) : \A j \in Writes(b) : j <= i].sector]

-----------------------------------------------------------------------------
(* The readers. *)

Slots(sector) == IF "slots" \in DOMAIN sector THEN sector.slots ELSE <<>>
Data(sector)  == IF "data" \in DOMAIN sector THEN sector.data ELSE <<>>
BrokenDir     == <<FreeSlot>>
BrokenFile    == <<-1>>

\* iter_entries: the entries of a directory chain that does not loop.
Entries(image) ==
  LET entriesFrom[at \in Link, seen \in SUBSET Blocks] ==
        IF at[1] = 0 THEN <<>>
        ELSE IF at \in seen \/ at \notin Blocks THEN BrokenDir
             ELSE LET rest == entriesFrom[image[at].link, seen \cup {at}]
                  IN  IF rest = BrokenDir THEN BrokenDir
                      ELSE SelectSeq(Slots(image[at]), LAMBDA e : e.type # 0) \o rest
  IN  entriesFrom[<<DirTrack, 1>>, {}]

\* follow_chain: up to one pass over the whole disk.
Chain(image, first) ==
  LET chainFrom[at \in Link, count \in 0..ImageSize] ==
        IF count >= ImageSize \/ at \notin Blocks THEN BrokenFile
        ELSE LET sector == image[at]
                 rest   == chainFrom[sector.link, count + 1]
             IN  IF sector.link[1] = 0
                 THEN IF sector.link[2] < 2 THEN <<>> ELSE FirstN(Data(sector), sector.link[2] - 1)
                 ELSE IF rest = BrokenFile THEN BrokenFile ELSE Data(sector) \o rest
  IN  chainFrom[first, 0]

Contains(name, text) ==
  \E i \in 0..(Len(name) - Len(text)) : SubSeq(name, i + 1, i + Len(text)) = text

\* find_file and extract: the first entry of that name.
NoFile == <<-2>>
Extract(image, name) ==
  LET entries == Entries(image)
      hits    == {i \in DOMAIN entries : entries[i].name = name}
  IN  IF entries = BrokenDir \/ hits = {} THEN NoFile
      ELSE Chain(image, entries[Least(hits)].first)

\* select_prg of c64_d64_prg_loader.py: the first program, the one of that
\* name, or the only one with the text in its name.
SelectPrg(entries, wanted) ==
  LET prgs  == {i \in DOMAIN entries : entries[i].type % 8 = 2}
      named == {i \in prgs : entries[i].name = wanted}
      with  == {i \in prgs : Contains(entries[i].name, wanted)}
  IN  IF wanted = <<>> /\ prgs # {} THEN Least(prgs)
      ELSE IF named # {} THEN Least(named)
      ELSE IF Cardinality(with) = 1 THEN Least(with)
      ELSE 0

\* load_entries, select_prg and write_prg: the program that is uploaded.
LoaderPrg(image, wanted) ==
  LET entries == Entries(image)
      chosen  == SelectPrg(entries, wanted)
      body    == Chain(image, entries[chosen].first)
  IN  IF entries = BrokenDir THEN NoFile
      ELSE IF chosen = 0 THEN NoFile
      ELSE IF Len(body) < 3 THEN NoFile ELSE body

\* The blocks that a chain occupies.
ChainBlocks(image, first) ==
  LET blocksFrom[at \in Link, seen \in SUBSET Blocks] ==
        IF at[1] = 0 \/ at \in seen \/ at \notin Blocks THEN seen
        ELSE blocksFrom[image[at].link, seen \cup {at}]
  IN  blocksFrom[first, {}]
=============================================================================
