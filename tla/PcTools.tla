------------------------------- MODULE PcTools -------------------------------
(***************************************************************************)
(* The tools on the PC that turn files into files.  A behaviour is one     *)
(* job: "cards" is DiskPipeline; "disks", "c64" and "roms" take the tunes  *)
(* of a directory one after the other (build_sid_disks.py,                 *)
(* build_c64_sid_prgs.py, build_all_sid_roms.py); "wrap" is one call of    *)
(* build_sid_prg.py with any options; "boot" makes a boot card, "listing"  *)
(* a BASIC loader; "kernal" patches a KERNAL ROM again and again.          *)
(***************************************************************************)
EXTENDS DiskPipeline, SidWrap, RomTools

CONSTANTS
  TuneList,     \* the tunes there are, in the order of their names
  MaxTunes,
  Alnum, Lower, \* characters of a ROM's name; a character's lower case
  Curated,      \* names of ROMs made by hand
  WrapOptions, C64Options,
  FilesPerDisk, \* --max-files
  UsableBlocks,
  BootInputs, EhBasicParts, LoaderFiles, LoaderOptions,
  Kernals

\* A ROM that nobody patched with this tool yet is a first one.
ASSUME KernalsAssumption == \A k \in Kernals : k.first = TRUE

VARIABLES
  job,
  todo,      \* tunes not yet taken
  options,   \* of the job
  made,      \* programs built, in order
  builder,   \* the disk that is being filled: its builder, files and blocks
  shelf,     \* disks written, with the programs put on them
  roms,      \* name |-> ROM image
  result,    \* of the jobs that have one
  kernal, backup, careless   \* the ROM, its .orig; was --no-backup ever given?

toolVars == <<job, todo, options, made, builder, shelf, roms, result, kernal, backup, careless>>
allVars  == <<vars, toolVars>>

NoBackup == [first |-> FALSE]
Nothing  == [kind |-> "none"]
EmptyDisk == [disk |-> NewDisk, files |-> <<>>, used |-> 0]
DiskOptions == [target |-> "sbc", base |-> NoBase, basic |-> FALSE, phi2 |-> 1000000, hz |-> 50]

Directories ==
  {SelectSeq(TuneList, LAMBDA t : t \in S) :
     S \in {S \in SUBSET {TuneList[i] : i \in DOMAIN TuneList} : Cardinality(S) \in 1..MaxTunes}}

JobInit(name) ==
  CASE name \in {"disks", "roms"} -> todo \in Directories /\ options = DiskOptions /\ kernal = Nothing
    [] name = "c64"  -> todo \in Directories /\ options \in C64Options /\ kernal = Nothing
    [] name = "wrap" -> todo \in {<<TuneList[i]>> : i \in DOMAIN TuneList}
                        /\ options \in WrapOptions /\ kernal = Nothing
    [] name = "kernal" -> todo = <<>> /\ options = DiskOptions /\ kernal \in Kernals
    [] OTHER -> todo = <<>> /\ options = DiskOptions /\ kernal = Nothing

AllInit ==
  /\ Init
  /\ job \in {"cards", "disks", "c64", "roms", "wrap", "boot", "listing", "kernal"}
  /\ JobInit(job)
  /\ made = <<>> /\ builder = EmptyDisk /\ shelf = <<>> /\ roms = <<>>
  /\ result = Nothing /\ backup = NoBackup /\ careless = FALSE

-----------------------------------------------------------------------------
(* The jobs that take tunes. *)

\* sanitize: runs of other characters become one "_", none at an end.
Sanitize(stem) ==
  LET good == {i \in DOMAIN stem : stem[i] \in Alnum}
      kept == {i \in DOMAIN stem : /\ \E j \in good : j <= i
                                   /\ \E j \in good : i <= j
                                   /\ i \in good \/ i - 1 \in good}
      Nth(k) == CHOOSE i \in kept : Cardinality({j \in kept : j < i}) = k - 1
  IN  IF good = {} THEN <<"tune">>
      ELSE [k \in 1..Cardinality(kept) |->
              IF Nth(k) \in good THEN Lower[stem[Nth(k)]] ELSE "_"]

Take == /\ todo # <<>> /\ todo' = Tail(todo)
        /\ UNCHANGED <<job, options, result, kernal, backup, careless>>

\* The tune is made into a program, or passed over.
MakeProgram(sid) ==
  LET prg == BuildSidPrg(sid, options)
  IN  made' = IF prg = NoProgram THEN made
              ELSE Append(made, [stem |-> sid.stem, info |-> ParsePayload(sid), prg |-> prg])

\* build_sid_disks.py parses a tune without its name, so that no override applies.
ForDisk(sid) == ParsePayload([sid EXCEPT !.name = <<>>])

\* It asks convertible_base first, and has tunes it leaves out.
ConvertForDisk ==
  LET sid == todo[1] IN
    /\ job = "disks" /\ Take
    /\ IF \/ Sanitize(sid.stem) \in Curated \/ ForDisk(sid) = Unsupported
          \/ ConvertibleBase(ForDisk(sid)) = NoCall
       THEN UNCHANGED made
       ELSE MakeProgram(sid)
    /\ UNCHANGED <<builder, shelf, roms>>

\* build_c64_sid_prgs.py, and build_sid_prg.py by itself.
ConvertForC64 ==
  /\ job \in {"c64", "wrap"} /\ Take
  /\ MakeProgram(todo[1])
  /\ UNCHANGED <<builder, shelf, roms>>

\* Mutant: the count of a disk's blocks leaves out the load address.
PrgBlocks_NoAddress(raw) == Greater(1, Ceiling(Len(raw) - 2, Chunk))

PrgBlocks(raw) == Greater(1, Ceiling(Len(raw), Chunk))

Flushed ==
  IF builder.files = <<>> THEN shelf
  ELSE Append(shelf, [image |-> Build(builder.disk), files |-> builder.files])

Distributed == Len(builder.files) + Cardinality(UNION {{<<k, i>> : i \in DOMAIN shelf[k].files} : k \in DOMAIN shelf})

\* The next program, on this disk or, when it is full, on a new one.
Distribute ==
  LET item   == made[Distributed + 1]
      blocks == PrgBlocks(item.prg.raw)
      full   == Len(builder.files) >= FilesPerDisk \/ builder.used + blocks > UsableBlocks
      now    == IF full /\ builder.files # <<>> THEN EmptyDisk ELSE builder
  IN  /\ job = "disks" /\ todo = <<>> /\ Distributed < Len(made)
      /\ now.disk # DiskFull
      /\ shelf' = IF full THEN Flushed ELSE shelf
      /\ builder' = [disk  |-> AddPrg(now.disk, DiskName(item.stem), item.prg.raw),
                     files |-> Append(now.files, item), used |-> now.used + blocks]
      /\ UNCHANGED <<job, todo, options, made, roms, result, kernal, backup, careless>>

\* The last disk.
FlushLast ==
  /\ job = "disks" /\ todo = <<>> /\ Distributed = Len(made) /\ builder.files # <<>>
  /\ builder.disk # DiskFull
  /\ shelf' = Flushed /\ builder' = EmptyDisk
  /\ UNCHANGED <<job, todo, options, made, roms, result, kernal, backup, careless>>

\* build_all_sid_roms.py: the ROMs that were made by hand are left alone, a tune
\* that the emulator does not hear is passed over; the linker may give up.
BuildRom ==
  LET sid == todo[1]  info == ParsePayload(sid) IN
    /\ job = "roms" /\ Take
    /\ IF Sanitize(sid.stem) \in Curated \/ info = Unsupported \/ ~sid.audible
       THEN UNCHANGED <<made, roms>>
       ELSE IF RomImage(info) = NoProgram THEN UNCHANGED <<made, roms>>
       ELSE /\ roms' = (Sanitize(sid.stem) :> [info |-> info, rom |-> RomImage(info)]) @@ roms
            /\ made' = Append(made, [stem |-> sid.stem, info |-> info])
    /\ UNCHANGED <<builder, shelf>>

-----------------------------------------------------------------------------
(* The jobs of RomTools. *)

Finish(value) ==
  /\ result = Nothing /\ result' = value
  /\ UNCHANGED <<job, todo, options, made, builder, shelf, roms, kernal, backup, careless>>

MakeBootCard(inputs) ==
  LET payload == BuildPayload(inputs)
  IN  Finish([kind |-> "boot", inputs |-> inputs, payload |-> payload])

\* build_fpga_ehbasic.py: the rom and its boot card.
MakeEhBasic(parts) ==
  LET rom == EhBasicImage(parts.basic, parts.kernel)
  IN  /\ rom # Refused
      /\ Finish([kind |-> "boot", inputs |-> <<Part(0, rom)>>, payload |-> BuildPayload(<<Part(0, rom)>>)])

MakeListing(file, opts) ==
  Finish([kind |-> "listing", file |-> file, opts |-> opts, listing |-> SparseLoader(file, opts)])

\* Mutant: a backup that is there is written again.
PatchKernal_Overwrite(elsewhere, noBackup) ==
  LET done == kernal.entry = Patch /\ kernal.stub = Stub
      able == kernal.entry \in {Stock, Legacy, Patch}
      new  == [entry |-> Patch, stub |-> Stub, first |-> FALSE]
  IN  /\ job = "kernal" /\ able
      /\ careless' = (careless \/ noBackup)
      /\ IF elsewhere
         THEN /\ result' = [kind |-> "kernal", rom |-> new] /\ UNCHANGED <<kernal, backup>>
         ELSE /\ kernal' = IF done THEN kernal ELSE new
              /\ backup' = IF noBackup THEN backup ELSE kernal
              /\ UNCHANGED result
      /\ UNCHANGED <<job, todo, options, made, builder, shelf, roms>>

\* main: in place with a backup of the first ROM patched, or to another file.
\* It gives up on a ROM whose LOAD entry it does not know.
PatchKernal(elsewhere, noBackup) ==
  LET done == kernal.entry = Patch /\ kernal.stub = Stub
      able == kernal.entry \in {Stock, Legacy, Patch}
      new  == [entry |-> Patch, stub |-> Stub, first |-> FALSE]
  IN  /\ job = "kernal" /\ able
      /\ careless' = (careless \/ noBackup)
      /\ IF elsewhere
         THEN /\ result' = [kind |-> "kernal", rom |-> new] /\ UNCHANGED <<kernal, backup>>
         ELSE /\ kernal' = IF done THEN kernal ELSE new
              /\ backup' = IF done \/ noBackup \/ backup # NoBackup THEN backup ELSE kernal
              /\ UNCHANGED result
      /\ UNCHANGED <<job, todo, options, made, builder, shelf, roms>>

ToolNext ==
  \/ ConvertForDisk \/ ConvertForC64 \/ Distribute \/ FlushLast \/ BuildRom
  \/ job = "boot" /\ \E inputs \in BootInputs : MakeBootCard(inputs)
  \/ job = "boot" /\ \E parts \in EhBasicParts : MakeEhBasic(parts)
  \/ job = "listing" /\ \E file \in LoaderFiles, opts \in LoaderOptions : MakeListing(file, opts)
  \/ \E elsewhere, noBackup \in BOOLEAN : PatchKernal(elsewhere, noBackup)

AllNext ==
  \/ job = "cards" /\ Next /\ UNCHANGED toolVars
  \/ ToolNext /\ UNCHANGED vars

AllSpec == AllInit /\ [][AllNext]_allVars

-----------------------------------------------------------------------------
(* Properties *)

\* The tunes that a program can play: there is a play routine to call, the
\* tune is not under a ROM of the target, and it starts with its first song or
\* stays in place.
Playable(info) ==
  /\ info.play # 0
  /\ (info.load..(PadEnd(info) - 1)) \cap RomBanks[options.target] = {}
  /\ info.song = 0 \/ ~CopyUpFits(info, IF options.base = NoBase THEN AutoBase(info) ELSE options.base)

\* The newest program, in memory as plan puts it there.
Sounds(plan) ==
  LET newest == made[Len(made)]
      memory == Loaded(SelectSeq(plan, LAMBDA p : p.addr # 43))
  IN  newest.prg.program.play # 0
        /\ Plays(memory, newest.prg.program, newest.info, RomBanks[options.target])

\* A program made of a tune plays it if the tune is Playable, and no other does:
\* put into memory by the C64 loader with the sidecar made for it, or as one
\* block from a disk, the CPU finds the tune at its own address when init is
\* called with the file's song, the player is whole, and each tick calls the
\* play routine.  Nothing of it lies in the bitmap.  With a BASIC line it is one
\* line, and BASIC's variables start behind it all.
TunesPlay ==
  (job \in {"disks", "c64", "wrap"} /\ made # <<>>) =>
      LET newest == made[Len(made)]
          prg   == newest.prg
          plain == C64Plan(prg.raw, NoMap, options.basic)
          mapped == C64Plan(prg.raw, prg.map, options.basic)
          parts == {p \in {mapped[j] : j \in DOMAIN mapped} : p.addr # 43}
          lines == ParseBasic(BasicLoad, Payload(prg.raw))
      IN  /\ plain # Refused /\ mapped # Refused
          /\ \A plan \in {plain, mapped} : Sounds(plan) <=> Playable(newest.info)
          /\ \A p \in parts : p.addr + Len(p.data) <= VicBitmap
          /\ options.basic =>
               /\ lines # NotBasic /\ lines.lines = 1 /\ BasicLoad + lines.end <= prg.entry
               /\ \A p \in parts : p.addr + Len(p.data) <= BasicEnd(prg.raw, prg.map)

\* convertible_base of build_sid_disks.py "mirrors build_sid_prg.py": it knows
\* the entry of each program that build_sid_prg.py makes, and says no to the
\* tunes that this refuses.
BasesAgree ==
  job = "disks" =>
    \A i \in DOMAIN todo \cap {1} :
      LET info == ForDisk(todo[i])
      IN  info # Unsupported => ConvertibleBase(info) = BuildSidPrg(todo[i], DiskOptions).entry

\* No disk of build_sid_disks.py gets more than it holds, and when all are
\* written each program is on one, where the D64 loader finds it by its name
\* unless the disk has another of that name before it.
ShelfComplete ==
  job = "disks" =>
    /\ builder.disk # DiskFull
    /\ \A k \in DOMAIN shelf :
         LET progs == shelf[k].files  image2 == shelf[k].image
             NameOf(i) == DiskName(progs[i].stem)
         IN  /\ image2 # DiskFull /\ Len(progs) \in 1..FilesPerDisk
             /\ \A i \in DOMAIN progs :
                  (\A j \in 1..(i - 1) : NameOf(j) # NameOf(i))
                    => LoaderPrg(image2, NameOf(i)) = progs[i].prg.raw
             /\ LoaderPrg(image2, <<>>) = progs[1].prg.raw
             /\ \A i \in DOMAIN progs : \A text \in {FirstN(NameOf(i), 1)} :
                  LET got == LoaderPrg(image2, text)
                  IN  got # NoFile =>
                        \E j \in DOMAIN progs :
                          /\ got = progs[j].prg.raw /\ Contains(NameOf(j), text)
                          /\ NameOf(j) = text \/ \A l \in DOMAIN progs \ {j} : ~Contains(NameOf(l), text)
    /\ (todo = <<>> /\ Distributed = Len(made) /\ builder.files = <<>>) =>
         Concat([k \in DOMAIN shelf |-> shelf[k].files]) = made

\* Each ROM of build_all_sid_roms.py plays the tune of its name from reset on:
\* the tune is where it belongs, player and tune fit their windows, song and play
\* routine are the file's (none: init's own interrupt plays).  A ROM that was
\* made by hand is never written.
RomsPlay ==
  \A name \in DOMAIN roms :
    LET rom == roms[name].rom  info == roms[name].info
    IN  /\ name \notin Curated
        /\ Plays(Loaded(rom.parts), rom, info, {})
        /\ \A j \in DOMAIN rom.parts :
             LET from == rom.parts[j].addr  to == from + Len(rom.parts[j].data)
             IN  (from >= WindowLo /\ to <= WindowHi) \/ from = PlayerROM
        /\ info.mode = "low" => PadEnd(info) <= VicBitmap
        /\ \E i \in DOMAIN made : Sanitize(made[i].stem) = name /\ made[i].info = info

\* However a tune is wrapped - program, disk or ROM - it is the tune that plays,
\* but for the programs of tunes that are not Playable; and the tools that pass
\* it on know where it begins.
EveryTunePlays == TunesPlay /\ BasesAgree /\ RomsPlay

\* A ROM that boots from the card is the one that --split-rom uploads: the CPU
\* sees the same bytes in both windows, those of the last file for each offset.
BootIsUpload ==
  (result.kind = "boot" /\ result.payload # Refused) =>
    LET rom  == RomLoad(BootCard(result.payload))
        plan == SplitRomPlan(result.payload).parts
    IN  /\ rom # NoRom
        /\ \A a \in 0..(RAMEnd - 1) :
             /\ Covered(plan, a) <=> InWindow(a)
             /\ InWindow(a) => rom[RomOffset(a)] = ByteAt(plan, a)
        /\ \A a \in DOMAIN rom :
             rom[a] = IF Covered(result.inputs, a) THEN ByteAt(result.inputs, a) ELSE NOP

\* The BASIC loader that is written for a file, run in memory full of the
\* filler, ends in SYS with every byte of the file in memory, but for the
\* vectors if they are dropped, and no byte anywhere else; it never stops with
\* a checksum error, whatever addresses and bytes there are.  Left out are the
\* listings whose DATA lines have the number of one of the program's own lines,
\* which then replace each other (--line-start up to 220).
SparseLoads ==
  (result.kind = "listing" /\ result.listing # NoListing) =>
    LET opts   == result.opts
        memory == RunLoader(result.listing, <<>>)
        whole  == ImageOf(<<Part(opts.addr, result.file)>>)
    IN  result.listing.lines \cap ProgramLines = {} =>
          /\ memory.ends = "sys"
          /\ \A a \in DOMAIN memory.memory : a \in DOMAIN whole /\ memory.memory[a] = whole[a]
                                              /\ ~(opts.drop /\ a >= VectorStart)
          /\ \A a \in DOMAIN whole \ DOMAIN memory.memory :
               whole[a] = opts.fill \/ (opts.drop /\ a >= VectorStart)

\* From a patched KERNAL a LOAD gets into the hook when the hook is there and
\* into the stock routine when it is not, with the LOAD/VERIFY flag in A and the
\* stack as they were.  The ROM from before the first patch is not lost unless
\* somebody asked for no backup.
KernalKept ==
  job = "kernal" =>
    /\ kernal.entry = Patch /\ kernal.stub = Stub =>
         \A sign \in {HookSign, 0, 255}, a \in {0, 1} :
           LoadCall(kernal, sign, a) =
             [pc |-> IF sign = HookSign THEN 49158 ELSE 62622, a |-> a, stack |-> <<>>]
    /\ backup # NoBackup => backup.first
    /\ careless \/ kernal.first \/ backup # NoBackup

\* The song a file starts with is the one that its program plays.
StartSongPlays == \A i \in DOMAIN made : job # "roms" => made[i].prg.program.song = made[i].info.song

\* What build_sid_disks.py and roms/test_d64/README.md say of the tunes it leaves out.
SkippedAsDocumented ==
  job = "disks" =>
    \A i \in DOMAIN made : made[i].info.play # 0 /\ made[i].info.load < WindowLo
=============================================================================
