------------------------------- MODULE SidWrap -------------------------------
(***************************************************************************)
(* Music files made into programs: tools/build_native_sid_rom.py (the      *)
(* header of a PSID file, the ROM image around a tune) and                 *)
(* tools/build_sid_prg.py (the program in RAM, with its sidecar for the    *)
(* C64 loader), and the code that both emit, run as far as the tune's      *)
(* first note.  A tune is its header and its data; a player is its code's  *)
(* place and length, and what it does.  The addresses are parameters; the  *)
(* tools use $0200, $2000, $6000, $A000-$CFFF, $0801 and pages of 256.     *)
(***************************************************************************)
EXTENDS Integers, Sequences, PrgParts

CONSTANTS
  PageSize, LowLoad,      \* a page; the lowest load address
  RamFloor, VicBitmap,    \* where programs may be: RAM_TOP is VicBitmap too
  WindowLo, WindowHi,     \* the ROM window, up to and without WindowHi
  PlayerROM,              \* the second part of the ROM
  RomPayloadMax, RomSize, \* the most the tool takes, the most that there is
  BasicLoad,
  StubEstimate,           \* bytes of code that the tool reckons with
  CodeSize,               \* bytes of code that it emits, by layout and target
  PlayerReserve,          \* bytes for the code in front of a tune in place
  Overrides,              \* name |-> [play, song]
  RomBanks                \* target |-> addresses where its CPU reads a ROM

Unsupported == [mode |-> "none"]
NoBase == -1
Fill(value, n) == [i \in 1..n |-> value]
Ceiling(n, m)  == (n + m - 1) \div m
Greater(a, b)  == IF a > b THEN a ELSE b

Digits10(n) ==
  LET digits[k \in 0..n] == (IF k < 10 THEN <<>> ELSE digits[k \div 10]) \o <<48 + (k % 10)>>
  IN  digits[n]

-----------------------------------------------------------------------------
(* The header: sid = [name, magic, load, init, play, start, flags, data]. *)

\* parse_payload.  A load address of 0 is in front of the data; the payload is
\* filled up to whole pages before it is asked whether it fits.
ParsePayload(sid) ==
  LET body  == IF sid.load = 0 THEN SubSeq(sid.data, 3, Len(sid.data)) ELSE sid.data
      load  == IF sid.load = 0 THEN Word(sid.data, 1) ELSE sid.load
      pages == Ceiling(Len(body), PageSize)
      top   == load + pages * PageSize
      page  == load >= WindowLo /\ top <= WindowHi
      entry == IF sid.name \in DOMAIN Overrides THEN Overrides[sid.name]
               ELSE [play |-> sid.play, song |-> IF sid.start > 0 THEN sid.start - 1 ELSE 0]
  IN  IF \/ sid.magic \notin {"PSID", "RSID"} \/ load < LowLoad
         \/ ~page /\ (top > VicBitmap \/ pages * PageSize > RomPayloadMax)
      THEN Unsupported
      ELSE [mode |-> IF page THEN "page" ELSE "low", load |-> load,
            init |-> IF sid.init = 0 THEN load ELSE sid.init,
            play |-> entry.play, song |-> entry.song,
            pages |-> pages, body |-> body \o Fill(0, pages * PageSize - Len(body)),
            cia |-> Lesser(entry.song, 31) \in sid.flags]

PadEnd(info) == info.load + Len(info.body)

-----------------------------------------------------------------------------
(* Where the program goes. *)

\* The page behind the tune, or the floor.
AutoBase(info) ==
  IF info.load < VicBitmap THEN Greater(RamFloor, Ceiling(PadEnd(info), PageSize) * PageSize)
  ELSE RamFloor

Apart(info, base) == PadEnd(info) <= base \/ info.load >= VicBitmap
CopyUpFits(info, base) ==
  Apart(info, base) /\ base + StubEstimate + Len(info.body) <= VicBitmap

InPlaceEntry(info) == info.load - PlayerReserve
InPlaceFits(info)  == PadEnd(info) <= VicBitmap /\ InPlaceEntry(info) >= RamFloor

\* convertible_base of build_sid_disks.py, which is to agree with Layout.
ConvertibleBase(info) ==
  IF CopyUpFits(info, AutoBase(info)) THEN AutoBase(info)
  ELSE IF InPlaceFits(info) THEN InPlaceEntry(info)
  ELSE NoCall

\* A player's code, and what it does: copy the payload, call init with a song,
\* then jsr play at a rate.  A program is code and payload from entry on.
PlayerCode(layout, target) == [i \in 1..CodeSize[layout][target] |-> 200 + (i % 50)]
NoRate == 0
NoProgram == [entry |-> NoCall]

\* cia_timer_period: the timer counts period + 1 cycles of PHI2; a half is
\* rounded to the even number.
TimerPeriod(phi2, hz) ==
  LET cycles == phi2 \div hz  rest == 2 * (phi2 % hz)
      up     == rest > hz \/ (rest = hz /\ cycles % 2 = 1)
  IN  IF hz <= 0 THEN NoRate ELSE cycles + (IF up THEN 1 ELSE 0) - 1
RateOk(options) ==
  options.target = "c64" => TimerPeriod(options.phi2, options.hz) \in 1..65535

\* render_asm and make_cfg: the linker gives up at the bitmap.  The song is 0,
\* whatever the file says.
CopyUpProgram(info, base, options) ==
  LET code == PlayerCode("copy", options.target)
  IN  IF base + Len(code) + Len(info.body) > VicBitmap THEN NoProgram
      ELSE [entry |-> base, payload |-> code \o info.body, copies |-> TRUE,
            code |-> base..(base + Len(code) - 1), song |-> 0, play |-> info.play]

\* render_inplace_asm and make_inplace_cfg: code, filled up, then the payload.
InPlaceProgram(info, options) ==
  LET code == PlayerCode("place", options.target)
  IN  IF Len(code) > PlayerReserve THEN NoProgram
      ELSE [entry |-> InPlaceEntry(info),
            payload |-> code \o Fill(0, PlayerReserve - Len(code)) \o info.body, copies |-> FALSE,
            code |-> InPlaceEntry(info)..(InPlaceEntry(info) + Len(code) - 1),
            song |-> info.song, play |-> info.play]

\* Mutant: a base that the user chose is taken as it is.
Layout_AnyBase(info, options) ==
  LET base == IF options.base = NoBase THEN AutoBase(info) ELSE options.base
  IN  IF ~RateOk(options) THEN NoProgram
      ELSE IF CopyUpFits(info, base) \/ options.base # NoBase
      THEN CopyUpProgram(info, base, options)
      ELSE IF InPlaceFits(info) THEN InPlaceProgram(info, options)
      ELSE NoProgram

\* What main of build_sid_prg.py decides; it gives up on the rate last.
Layout(info, options) ==
  LET base == IF options.base = NoBase THEN AutoBase(info) ELSE options.base
  IN  IF ~RateOk(options) THEN NoProgram
      ELSE IF CopyUpFits(info, base) THEN CopyUpProgram(info, base, options)
      ELSE IF options.base = NoBase /\ InPlaceFits(info) THEN InPlaceProgram(info, options)
      ELSE NoProgram

-----------------------------------------------------------------------------
(* The file, and its sidecar. *)

\* 10 SYS entry, and the end of a program.
BasicStub(entry) ==
  LET text == Digits10(entry)
      next == BasicLoad + 6 + Len(text)
  IN  <<next % 256, next \div 256, 10, 0, 158>> \o text \o <<0, 0, 0>>

Address(a) == <<a % 256, a \div 256>>

\* make_prg: the payload alone, or behind a BASIC line and the gap between them.
MakePrg(entry, payload, basicRun) ==
  LET stub == BasicStub(entry)
      gap  == entry - BasicLoad - Len(stub)
  IN  IF ~basicRun
      THEN [raw |-> Address(entry) \o payload,
            segments |-> <<[address |-> entry, offset |-> 2, size |-> Len(payload)]>>]
      ELSE IF gap < 0 THEN [raw |-> Refused, segments |-> <<>>]
      ELSE [raw |-> Address(BasicLoad) \o stub \o Fill(0, gap) \o payload,
            segments |-> <<[address |-> BasicLoad, offset |-> 2, size |-> Len(stub)],
                           [address |-> entry, offset |-> 2 + entry - BasicLoad,
                            size |-> Len(payload)]>>]

\* write_segment_map
SidSegmentMap(prg, cia) ==
  [prg_size |-> Len(prg.raw), load_address |-> LoadAddr(prg.raw), segments |-> prg.segments,
   basic_end |-> LoadAddr(prg.raw) + Len(prg.raw) - 2, cia |-> cia]

\* build_sid_prg.main: the program with its file and sidecar, or NoProgram.
BuildSidPrg(sid, options) ==
  LET info    == ParsePayload(sid)
      program == Layout(info, options)
      prg     == MakePrg(program.entry, program.payload, options.basic)
  IN  IF info = Unsupported THEN NoProgram
      ELSE IF program = NoProgram THEN NoProgram
      ELSE IF prg.raw = Refused THEN NoProgram
      ELSE [program |-> program, raw |-> prg.raw, map |-> SidSegmentMap(prg, info.cia),
            entry |-> program.entry]

-----------------------------------------------------------------------------
(* The ROM image. *)

\* _render_low with soundsid.cfg, _render_page with sid_page.cfg: the cells of
\* the image, the address in the reset vector, the length of the player.
RomImage(info) ==
  LET code == PlayerCode("rom", IF info.play = 0 THEN "irq" ELSE "poll")
      low  == info.mode = "low"
      data == IF low THEN WindowLo + Len(code) ELSE info.load
      at   == IF low THEN WindowLo ELSE PlayerROM
  IN  IF low /\ Len(code) + Len(info.body) > RomSize THEN NoProgram
      ELSE [parts |-> <<Part(at, code), Part(data, info.body)>>, entry |-> at,
            copies |-> low, code |-> at..(at + Len(code) - 1),
            payload |-> code \o info.body, song |-> info.song, play |-> info.play]

-----------------------------------------------------------------------------
(* The player runs. *)

Cells == 0..(PlayerROM + 2 * PageSize)
Loaded(parts) ==
  LET image == ImageOf(parts) IN [a \in Cells |-> IF a \in DOMAIN image THEN image[a] ELSE 255]

\* Byte after byte from behind the code to the tune's address.
Copied(memory, from, to, n) ==
  LET copy[k \in 0..n] ==
        IF k = 0 THEN memory
        ELSE LET then == copy[k - 1] IN [then EXCEPT ![to + k - 1] = then[from + k - 1]]
  IN  copy[n]

\* Memory when init is called.
AtInit(memory, program, info) ==
  IF program.copies
  THEN Copied(memory, program.entry + Len(program.payload) - Len(info.body), info.load, Len(info.body))
  ELSE memory

\* What the CPU reads: no player switches a ROM off, on the C64 BASIC stays on.
Hidden == -1
Seen(memory, banks) == [a \in Cells |-> IF a \in banks THEN Hidden ELSE memory[a]]

Holds(memory, address, data) == \A i \in DOMAIN data : memory[address + i - 1] = data[i]

\* The CPU finds the tune at its address and the player where that was linked;
\* init gets the song the file starts with, and the play routine is the file's.
Plays(memory, program, info, banks) ==
  LET then == Seen(AtInit(memory, program, info), banks)
  IN  /\ Holds(then, info.load, info.body)
      /\ \A a \in program.code : then[a] = program.payload[a - program.entry + 1]
      /\ program.song = info.song /\ program.play = info.play
=============================================================================
