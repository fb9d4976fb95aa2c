----------------------------- MODULE DiskPipeline -----------------------------
(***************************************************************************)
(* From a program on the PC to the card a drive reads: pack_d64.py puts    *)
(* programs on an image, one of the card tools puts images on a card, and  *)
(* the FAT16 tool can put the hook in front of the partition.  The run of  *)
(* a tool is an action, or for the two that take a list, an action per     *)
(* element; the tool that gives up leaves the state "refused".             *)
(***************************************************************************)
EXTENDS D64Image, FatCard

CONSTANTS
  Programs,     \* [stem, raw, call]: programs, and the address their BASIC lines call
  MaxPrograms,
  CardFiles,    \* [name, content]: the files a card can be given
  OtherImage,   \* the sectors of another disk
  OddFile,      \* the sectors of a file of another size
  MaxFiles,
  Geos16, Geos32, RawSizes,   \* the options of the card tools
  Hooks,        \* [raw, code, stub, resident]: hook programs, where their code
                \* goes, the sizes of their stubs, the code itself
  KeptChars     \* characters of a FAT16 short name

VARIABLES
  stage,    \* "pack", "files", "card", "refused"
  packed,   \* programs packed so far
  disk,     \* the builder
  image,    \* the image that was written
  files,    \* files for the card
  card, kind, geo,   \* the card, the tool that wrote it and its options
  hook      \* what was embedded as the hook

vars == <<stage, packed, disk, image, files, card, kind, geo, hook>>

NoImage == <<>>

Init ==
  /\ stage = "pack" /\ packed = <<>> /\ disk = NewDisk /\ image = NoImage /\ files = <<>>
  /\ card = <<>> /\ kind = "none" /\ geo = <<>> /\ hook = Refused

Refuse == stage' = "refused" /\ UNCHANGED <<packed, disk, image, files, card, kind, geo, hook>>

\* pack_d64.main for one program.
Pack(prg) ==
  LET next == AddPrg(disk, DiskName(prg.stem), prg.raw)
  IN  /\ stage = "pack" /\ Len(packed) < MaxPrograms
      /\ IF Len(prg.raw) < 3 \/ next = DiskFull THEN Refuse
         ELSE /\ packed' = Append(packed, prg) /\ disk' = next
              /\ UNCHANGED <<stage, image, files, card, kind, geo, hook>>

WriteImage ==
  /\ stage = "pack" /\ packed # <<>>
  /\ IF Build(disk) = DiskFull THEN Refuse
     ELSE /\ image' = Build(disk) /\ stage' = "files"
          /\ UNCHANGED <<packed, disk, files, card, kind, geo, hook>>

\* The file of an image: its sectors in their order.
FileOf(img) == [i \in 1..ImageSize |-> img[BlockAt(i - 1)]]
SectorsOf(content) ==
  [this |-> FileOf(image), other |-> OtherImage, odd |-> OddFile][content]

\* A file on the command line of a card tool.
AddFile(file) ==
  /\ stage = "files" /\ Len(files) < MaxFiles
  /\ files' = Append(files, [name |-> file.name, sectors |-> SectorsOf(file.content)])
  /\ UNCHANGED <<stage, packed, disk, image, card, kind, geo, hook>>

WriteCard(tool, options, blocks) ==
  /\ stage' = "card" /\ kind' = tool /\ geo' = options /\ card' = blocks
  /\ UNCHANGED <<packed, disk, image, files, hook>>

\* make_fat16_d64_card: each file in turn, then the card.
TakenByFat16 ==
  \A i \in DOMAIN files : Fat16Takes(SubSeq(files, 1, i - 1), files[i], KeptChars)

Make16(options) ==
  /\ stage = "files" /\ files # <<>>
  /\ IF TakenByFat16 /\ Fat16Fits(files, options)
     THEN WriteCard("fat16", options, Fat16Card(files, options, KeptChars)) ELSE Refuse

Make32(options) ==
  /\ stage = "files" /\ files # <<>>
  /\ WriteCard("fat32", options, Fat32Card(files, options))

\* make_raw_sd_d64_image, or the Convert button of d64_to_sd_image_gui.
MakeRaw(blocks) ==
  /\ stage = "files" /\ Len(files) = 1
  /\ IF RawFits(files[1].sectors, blocks)
     THEN WriteCard("raw", <<>>, RawCard(files[1].sectors, blocks)) ELSE Refuse

\* --hook-image, of a hook program with the sidecar made for it.
EmbedHook(prg) ==
  LET code == HookCode(prg.raw, BuildSegmentMap(prg.raw, prg.code, prg.stub))
  IN  /\ stage = "card" /\ kind = "fat16" /\ hook = Refused
      /\ IF code = Refused THEN Refuse
         ELSE IF ~HookFits(code[1], geo) THEN Refuse
         ELSE /\ card' = Put(card, HookLBA, HookBlocks(code[1])) /\ hook' = code
              /\ UNCHANGED <<stage, packed, disk, image, files, kind, geo>>

Next ==
  \/ \E prg \in Programs : Pack(prg)
  \/ WriteImage
  \/ \E file \in CardFiles : AddFile(file)
  \/ \E options \in Geos16 : Make16(options)
  \/ \E options \in Geos32 : Make32(options)
  \/ \E blocks \in RawSizes : MakeRaw(blocks)
  \/ \E prg \in Hooks : EmbedHook(prg)

Spec == Init /\ [][Next]_vars

-----------------------------------------------------------------------------
(* Properties *)

\* extract_prg.py gets a packed program back byte for byte, also when others
\* were packed after it and whatever its length is against the sector's.  Of
\* programs whose names the disk cannot tell apart it gets the first.
ExtractReadsPacked ==
  image # NoImage =>
    \A i \in DOMAIN packed :
      LET name == DiskName(packed[i].stem)
      IN  (\A j \in 1..(i - 1) : DiskName(packed[j].stem) # name)
            => Extract(image, name) = packed[i].raw

\* The sectors of BAM, directory and files are in no two chains, and the BAM
\* has free exactly what is in none: D64Drive and the 1541 allocate by it.
DiskConsistent ==
  image # NoImage =>
    LET bam     == {<<DirTrack, 0>>}
        entries == Entries(image)
        chains  == [i \in 0..Len(entries) |->
                      IF i = 0 THEN ChainBlocks(image, <<DirTrack, 1>>)
                      ELSE ChainBlocks(image, entries[i].first)]
    IN  /\ Len(entries) = Len(packed)
        /\ \A i \in DOMAIN chains :
             /\ chains[i] \cap bam = {} /\ chains[i] # {}
             /\ i > 0 => Cardinality(chains[i]) = entries[i].blocks
             /\ \A j \in DOMAIN chains : j # i => chains[i] \cap chains[j] = {}
        /\ image[<<DirTrack, 0>>].free = Blocks \ (bam \cup UNION {chains[i] : i \in DOMAIN chains})

\* A disk image reads back as it was packed, and says of itself what is free.
DiskReadsBack == ExtractReadsPacked /\ DiskConsistent

Images == SelectSeq(files, LAMBDA f : LfnShortName(f.name).ext = D64)
Read(lba, file) == PackedSectors(card, lba, Len(file.sectors)) = file.sectors

\* Every file of a FAT16 card that its root directory has room for: the menu
\* of the C64 lists it, finds its chain in one piece, and mounts it at the
\* block where its image starts, the one that the table has too.
MenuMountsImages ==
  (kind = "fat16" /\ stage = "card" /\ Len(files) <= RootEntries) =>
    LET menu   == Fat16Menu(card)
        listed == SelectSeq(files, LAMBDA f : ShortName(f.name, KeptChars).ext = D64)
        table  == SelectorTable(files, geo)
    IN  /\ Len(menu) = Len(listed)
        /\ \A i \in DOMAIN menu : menu[i].whole /\ Read(menu[i].lba, listed[i])
        /\ \A i \in DOMAIN files : Read(table[i], files[i])

\* fat32_reader mounts the first image of a FAT32 card and reads its sectors,
\* unless entries before it fill the cluster of the root directory, and then
\* it mounts nothing.  A raw card has every sector in a block of its own.
ReaderMountsFirst ==
  /\ (kind = "fat32" /\ stage = "card" /\ Images # <<>>) =>
       LET mount == Fat32Mount(card)
           place == Least({i \in DOMAIN files : files[i] = Images[1]})
                    + geo.pad + IF geo.windows THEN Len(WindowsEntries) ELSE 0
       IN  IF place <= geo.spc * RootPerBlock
           THEN mount # NoCard /\ mount.size = Len(Images[1].sectors) /\ Read(mount.lba, Images[1])
           ELSE mount = NoCard
  /\ (kind = "raw" /\ stage = "card") => RawSectors(card, ImageSize) = files[1].sectors

\* The bytes of a program at the addresses it is for.
Memory(raw) ==
  [a \in LoadAddr(raw)..(LoadAddr(raw) + Len(raw) - 3) |-> Payload(raw)[a - LoadAddr(raw) + 1]]

\* What the power-up loader finds on a card with a hook is the code of a hook
\* program, behind its gap or not, under the address it is linked for.
HookBoots ==
  (hook # Refused /\ stage = "card") =>
    /\ BootLoad(card) = hook
    /\ \E prg \in Hooks : hook = <<Part(prg.code, prg.resident)>>

\* What each reader of a card - menu, reader, table, power-up loader - finds on it
\* is what its builder meant.
CardsServe == MenuMountsImages /\ ReaderMountsFirst /\ HookBoots

\* The parts that an uploader makes of a packed program put its own bytes
\* where they belong: all of them, or the BASIC lines and the code that they
\* CALL, which is then what --run starts.
PlansPlaceProgram ==
  \A i \in DOMAIN packed :
    LET raw   == packed[i].raw
        plan  == PrgPlan(raw)
        image2 == ImageOf(plan.parts)
        whole == Memory(raw)
    IN  /\ ImageOf(C64Plan(raw, NoMap, FALSE)) = whole
        /\ \A a \in DOMAIN image2 : a \in DOMAIN whole /\ image2[a] = whole[a]
        /\ {LoadAddr(raw), LoadAddr(raw) + Len(raw) - 3, plan.run} \subseteq DOMAIN image2
        /\ packed[i].call # NoCall => plan.run = packed[i].call
=============================================================================
