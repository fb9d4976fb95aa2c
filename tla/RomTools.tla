------------------------------- MODULE RomTools -------------------------------
(***************************************************************************)
(* The other ways to get code into the machines: make_sd_boot_image.py and *)
(* the raw-sector loader that reads its cards (sd_rom_loader.v), with      *)
(* build_fpga_ehbasic.py that makes the 16 KB image for it;                *)
(* bin_to_basic_loader_checksums.py and the BASIC program that it writes;  *)
(* patch_c64_kernal_load_vector.py and the code that it puts into the      *)
(* KERNAL.                                                                 *)
(***************************************************************************)
EXTENDS Integers, Sequences, FiniteSets, TLC, PrgParts

NOP == 234
SectorSize == 512
KernelSize == 4096
EhBasicSize == 12288

Times(value, n) == [i \in 1..n |-> value]
Most(S) == CHOOSE n \in S : \A m \in S : m <= n

-----------------------------------------------------------------------------
(* The boot card. *)

\* read_rom_file of a .hex file: a later line over an earlier one, NOP between.
HexFile(lines) ==
  LET offsets == {lines[i].offset : i \in DOMAIN lines}
      LastFor(o) == Most({i \in DOMAIN lines : lines[i].offset = o})
  IN  IF lines = <<>> THEN <<>>
      ELSE [i \in 1..(Most(offsets) + 1) |->
              IF i - 1 \in offsets THEN lines[LastFor(i - 1)].value ELSE NOP]

\* build_payload: the files at their offsets, a later one over an earlier one.
BuildPayload(inputs) ==
  IF \E i \in DOMAIN inputs : inputs[i].addr < 0 \/ inputs[i].addr + Len(inputs[i].data) > ROMSize
  THEN Refused
  ELSE [i \in 1..ROMSize |-> IF Covered(inputs, i - 1) THEN ByteAt(inputs, i - 1) ELSE NOP]

\* build_header and main: the header's sector, then the payload.  The loader
\* does not look at the checksum.
BootCard(payload) ==
  [header  |-> [magic |-> "SBCROM01", load |-> 49152, length |-> Len(payload)],
   sectors |-> HexLines(payload, SectorSize)]

NoRom == <<>>

\* Mutant: the first payload sector is sector 0.
RomLoad_SectorZero(card) ==
  LET sectors == <<Times(0, SectorSize)>> \o card.sectors
  IN  IF card.header # [magic |-> "SBCROM01", load |-> 49152, length |-> ROMSize] THEN NoRom
      ELSE [a \in 0..(ROMSize - 1) |-> sectors[a \div SectorSize + 1][(a % SectorSize) + 1]]

\* sd_rom_loader: the shadow ROM that 32 sectors make, or boot_error.
RomLoad(card) ==
  IF card.header # [magic |-> "SBCROM01", load |-> 49152, length |-> ROMSize] THEN NoRom
  ELSE [a \in 0..(ROMSize - 1) |-> card.sectors[a \div SectorSize + 1][(a % SectorSize) + 1]]

\* rom_offset, and the two windows that the CPU has.
RomOffset(a) == IF a >= 61440 THEN a - 49152 ELSE a - 40960
InWindow(a)  == (a >= 40960 /\ a <= 53247) \/ (a >= 61440 /\ a <= 65535)

\* build_fpga_ehbasic.py: BASIC of one size, the kernel cut or filled to its.
EhBasicImage(basic, kernel) ==
  IF Len(basic) # EhBasicSize THEN Refused
  ELSE basic \o FirstN(kernel \o Times(NOP, KernelSize), KernelSize)

-----------------------------------------------------------------------------
(* The BASIC loader: records of DATA and a program that POKEs them. *)

VectorStart == 65530

MaybeDropVectors(data, addr) ==
  IF addr + Len(data) <= VectorStart THEN data
  ELSE IF addr >= VectorStart THEN <<>> ELSE FirstN(data, VectorStart - addr)

\* Bytes that lie in no long run of the filler.
Kept(data, fill, minSkip) ==
  LET InLongRun(i) ==
        \E lo \in 1..i : /\ lo + minSkip - 1 <= Len(data)
                         /\ i <= lo + minSkip - 1
                         /\ \A j \in lo..(lo + minSkip - 1) : data[j] = fill
  IN  {i \in DOMAIN data : ~InLongRun(i)}

\* split_sparse_runs: what is kept, run by run.
SparseRuns(data, addr, fill, minSkip) ==
  LET kept   == Kept(data, fill, minSkip)
      starts == {i \in kept : i - 1 \notin kept}
      EndOf(i) == Least({j \in kept : j >= i /\ j + 1 \notin kept})
      Nth(k) == CHOOSE i \in starts : Cardinality({j \in starts : j < i}) = k - 1
  IN  [k \in 1..Cardinality(starts) |->
         Part(addr + Nth(k) - 1, SubSeq(data, Nth(k), EndOf(Nth(k))))]

\* chunk_runs
ChunkRuns(runs, perLine) ==
  LET Lines(run) == [k \in DOMAIN HexLines(run.data, perLine) |->
                       Part(run.addr + (k - 1) * perLine, HexLines(run.data, perLine)[k])]
      chunks[i \in 0..Len(runs)] == IF i = 0 THEN <<>> ELSE chunks[i - 1] \o Lines(runs[i])
  IN  chunks[Len(runs)]

SumOf(values) ==
  LET sum[i \in 0..Len(values)] == IF i = 0 THEN 0 ELSE sum[i - 1] + values[i] IN sum[Len(values)]
Checksum(values) == SumOf(values) % 256

Record(chunk) ==
  LET values == <<chunk.addr % 256, chunk.addr \div 256, Len(chunk.data)>> \o chunk.data
  IN  Append(values, Checksum(values))

Concat(seqs) ==
  LET all[i \in 0..Len(seqs)] == IF i = 0 THEN <<>> ELSE all[i - 1] \o seqs[i] IN all[Len(seqs)]

NoListing    == [records |-> 0]
ProgramLines == {1, 2, 3} \cup {10 * k : k \in 1..22}
LastLine     == 63999

\* main: how many records and bytes line 10 says, the numbers of the DATA
\* lines, and what is in them, the total last.
SparseLoader(file, options) ==
  LET data    == IF options.drop THEN MaybeDropVectors(file, options.addr) ELSE file
      chunks  == ChunkRuns(SparseRuns(data, options.addr, options.fill, options.minSkip), options.perLine)
      records == [i \in DOMAIN chunks |-> Record(chunks[i])]
      bytes   == Concat([i \in DOMAIN chunks |-> chunks[i].data])
      LineOf(i) == options.start + (i - 1) * options.step
  IN  IF \/ file = <<>> \/ options.addr + Len(file) > RAMEnd \/ options.perLine \notin 1..24
         \/ options.minSkip < 1 \/ options.step <= 0 \/ chunks = <<>>
         \/ LineOf(Len(chunks) + 1) > LastLine
      THEN NoListing
      ELSE [records |-> Len(chunks), bytes |-> Len(bytes),
            lines   |-> {LineOf(i) : i \in 1..(Len(chunks) + 1)},
            stream  |-> Append(Concat(records), Checksum(bytes))]

\* Mutant: a sum of 256 is left.
Byte255_Late(c) == IF c > 256 THEN c - 256 ELSE c

\* Lines 90 and 100; lines 50 and 60 do it twice to the first three values.
Byte255(c)  == IF c > 255 THEN c - 256 ELSE c
StartSum(c) == Byte255(Byte255(c))

\* The program, from RUN to SYS or STOP.  DATA lines that have taken the
\* number of one of its own lines break it.
RunLoader(listing, memory) ==
  LET stream == listing.stream
      Poked(at, m) == LET count == stream[at + 2]
                          base  == stream[at] + 256 * stream[at + 1]
                          poke[j \in 0..count] ==
                            IF j = 0
                            THEN [memory |-> m.memory, sum |-> m.sum,
                                  check |-> StartSum(stream[at] + stream[at + 1] + count)]
                            ELSE LET b == stream[at + 2 + j] IN
                                 [memory |-> (base + j - 1 :> b) @@ poke[j - 1].memory,
                                  sum    |-> Byte255(poke[j - 1].sum + b),
                                  check  |-> Byte255(poke[j - 1].check + b)]
                      IN  [memory |-> poke[count].memory, sum |-> poke[count].sum,
                           ok |-> m.ok /\ poke[count].check = stream[at + 3 + count],
                           at |-> at + 4 + count, count |-> m.count + count]
      run[r \in 0..listing.records] ==
        IF r = 0 THEN [memory |-> memory, sum |-> 0, ok |-> TRUE, at |-> 1, count |-> 0]
        ELSE IF run[r - 1].ok THEN Poked(run[r - 1].at, run[r - 1]) ELSE run[r - 1]
      last == run[listing.records]
  IN  [memory |-> last.memory,
       ends   |-> IF listing.lines \cap ProgramLines # {} THEN "broken"
                  ELSE IF last.ok /\ last.count = listing.bytes /\ last.sum = stream[last.at]
                  THEN "sys" ELSE "stop"]

-----------------------------------------------------------------------------
(* The KERNAL: the three bytes at $FFD5 and the sixteen at $ECB9. *)

Stock  == <<76, 158, 244>>    \* JMP $F49E
Legacy == <<108, 48, 3>>      \* JMP ($0330)
Patch  == <<76, 185, 236>>    \* JMP $ECB9

\* PHA; if $C000 holds the hook's first byte PLA, JMP $C006, else PLA, JMP $F49E.
Stub == <<72, 173, 0, 192, 201, 44, 208, 4, 104, 76, 6, 192, 104, 76, 158, 244>>

LoadEntry == 65493
StubAddr  == 60601
HookSign  == 44

RomByte(rom, a) ==
  IF a \in LoadEntry..(LoadEntry + 2) THEN rom.entry[a - LoadEntry + 1]
  ELSE IF a \in StubAddr..(StubAddr + 15) THEN rom.stub[a - StubAddr + 1]
  ELSE NOP
InRom(a) == a \in (LoadEntry..(LoadEntry + 2)) \cup (StubAddr..(StubAddr + 15))

\* One instruction of those that the two places hold; $C000 reads as sign.
Exec(rom, sign, cpu) ==
  LET op      == RomByte(rom, cpu.pc)
      operand == RomByte(rom, cpu.pc + 1) + 256 * RomByte(rom, cpu.pc + 2)
  IN  CASE ~InRom(cpu.pc) -> cpu
        [] InRom(cpu.pc) /\ op = 76  -> [cpu EXCEPT !.pc = operand]
        [] InRom(cpu.pc) /\ op = 72  -> [cpu EXCEPT !.pc = @ + 1, !.stack = <<cpu.a>> \o @]
        [] InRom(cpu.pc) /\ op = 173 -> [cpu EXCEPT !.pc = @ + 3, !.a = sign]
        [] InRom(cpu.pc) /\ op = 201 ->
             [cpu EXCEPT !.pc = @ + 2, !.z = cpu.a = RomByte(rom, cpu.pc + 1)]
        [] InRom(cpu.pc) /\ op = 208 ->
             [cpu EXCEPT !.pc = @ + 2 + IF cpu.z THEN 0 ELSE RomByte(rom, cpu.pc + 1)]
        [] InRom(cpu.pc) /\ op = 104 ->
             [cpu EXCEPT !.pc = @ + 1, !.a = Head(cpu.stack), !.stack = Tail(@)]
        [] OTHER -> [cpu EXCEPT !.pc = @ + 1]

\* Where a LOAD gets to, with what in A and on the stack.
LoadCall(rom, sign, a) ==
  LET run[n \in 0..9] ==
        IF n = 0 THEN [pc |-> LoadEntry, a |-> a, stack |-> <<>>, z |-> FALSE]
        ELSE Exec(rom, sign, run[n - 1])
  IN  [pc |-> run[9].pc, a |-> run[9].a, stack |-> run[9].stack]
=============================================================================
