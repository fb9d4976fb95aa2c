------------------------------- MODULE PrgParts -------------------------------
(***************************************************************************)
(* What the upload tools send: a program file cut into the parts that are  *)
(* written one after the other.  tools/c64_uart_prg_loader.py,             *)
(* tools/upload_monitor_hex.py, tools/build_c64_v1541_segment_map.py and   *)
(* tools/c64_d64_prg_loader.py.  A file is a sequence of bytes, a part an  *)
(* address with the bytes that go there; a tool that refuses a file before *)
(* it opens the port has the plan Refused.                                 *)
(***************************************************************************)
EXTENDS Integers, Sequences

Byte    == 0..255
RAMEnd  == 65536
Refused == <<>>
NoMap   == <<>>
Part(address, data) == [addr |-> address, data |-> data]

Word(data, i)  == data[i] + 256 * data[i + 1]
Slice(data, offset, size) == SubSeq(data, offset + 1, offset + size)
Least(S)    == CHOOSE n \in S : \A m \in S : n <= m
Lesser(a, b) == IF a < b THEN a ELSE b
FirstN(s, n) == SubSeq(s, 1, Lesser(n, Len(s)))

LoadAddr(raw) == Word(raw, 1)
Payload(raw)  == SubSeq(raw, 3, Len(raw))

\* The lines of a part: at most perLine bytes each.
HexLines(data, perLine) ==
  [k \in 1..((Len(data) + perLine - 1) \div perLine) |->
     SubSeq(data, (k - 1) * perLine + 1, Lesser(k * perLine, Len(data)))]

-----------------------------------------------------------------------------
(* The C64 loader: the PRG or its segments, then the BASIC pointers. *)

LoadPrgOk(raw) == Len(raw) >= 3 /\ LoadAddr(raw) + Len(raw) - 2 <= RAMEnd

SegmentMapOk(raw, map) ==
  /\ map.prg_size = Len(raw) /\ map.load_address = LoadAddr(raw)
  /\ \A i \in DOMAIN map.segments :
       LET s == map.segments[i] IN
         /\ s.address \in 0..(RAMEnd - 1) /\ s.size >= 0 /\ s.address + s.size <= RAMEnd
         /\ s.offset >= 0 /\ s.offset + s.size <= Len(raw)
  /\ \E i \in DOMAIN map.segments : map.segments[i].size # 0

SegmentParts(raw, map) ==
  LET used == SelectSeq(map.segments, LAMBDA s : s.size # 0)
  IN  [i \in DOMAIN used |-> Part(used[i].address, Slice(raw, used[i].offset, used[i].size))]

\* TXTTAB, VARTAB, ARYTAB and STREND.  An end of RAMEnd has no high byte:
\* bytes() raises, when the program is already in memory.
BasicPointers(load, end) ==
  LET Lo(a) == a % 256  Hi(a) == a \div 256
  IN  <<Lo(load), Hi(load), Lo(end), Hi(end), Lo(end), Hi(end), Lo(end), Hi(end)>>

BasicEnd(raw, map) ==
  IF map # NoMap THEN map.basic_end
  ELSE LoadAddr(raw) + Len(raw) - 2

\* `map` is NoMap, or the sidecar; basic is --basic or auto_basic at $0801.
C64Plan(raw, map, basic) ==
  IF ~LoadPrgOk(raw) \/ (map # NoMap /\ ~SegmentMapOk(raw, map)) THEN Refused
  ELSE (IF map = NoMap THEN <<Part(LoadAddr(raw), Payload(raw))>> ELSE SegmentParts(raw, map))
       \o IF basic
          THEN <<Part(43, BasicPointers(LoadAddr(raw), BasicEnd(raw, map)))>> ELSE <<>>

\* The sidecar that build_c64_v1541_segment_map.py writes for a loader whose
\* code is behind a gap (sparse) or right behind its stub (compact).
CodeOffset(raw, code, stub) ==
  LET sparse == 2 + (code - LoadAddr(raw))
  IN  IF sparse \in 2..(Len(raw) - 1) THEN sparse
      ELSE IF 2 + stub < Len(raw) THEN 2 + stub ELSE 0

BuildSegmentMap(raw, code, stub) ==
  LET offset == CodeOffset(raw, code, stub)
  IN  IF Len(raw) < 2 + stub \/ offset = 0 THEN NoMap
      ELSE [prg_size |-> Len(raw), load_address |-> LoadAddr(raw),
            basic_end |-> LoadAddr(raw) + stub,
            segments |->
              <<[address |-> LoadAddr(raw), offset |-> 2, size |-> stub],
                [address |-> code, offset |-> offset, size |-> Len(raw) - offset]>>]

-----------------------------------------------------------------------------
(* The SBC uploader: a PRG whose BASIC part CALLs its machine code. *)

CALL   == 156
SPACE  == 32
Digits == 48..57
NoCall == -1

\* Decimal value of a sequence of digits.
Decimal(digits) ==
  LET value[i \in 0..Len(digits)] ==
        IF i = 0 THEN 0 ELSE 10 * value[i - 1] + digits[i] - 48
  IN  value[Len(digits)]

\* The first position from p on whose byte is not in S.
SkipOver(line, p, S) ==
  Least({i \in p..(Len(line) + 1) : i = Len(line) + 1 \/ line[i] \notin S})

BasicCall(line) ==
  LET From(p) == SkipOver(line, p + 1, {SPACE})
      To(p)   == SkipOver(line, From(p), Digits)
      calls   == {p \in DOMAIN line : line[p] = CALL /\ From(p) < To(p)}
  IN  IF calls = {} THEN NoCall
      ELSE Decimal(SubSeq(line, From(Least(calls)), To(Least(calls)) - 1))

NotBasic == [end |-> 0, call |-> NoCall, lines |-> 0]

\* parse_basic_loader from offset pos: each line's link must lie behind the
\* line, so the walk gets ahead with every line.
ParseBasic(load, data) ==
  LET parse[pos \in 0..Len(data)] ==
        IF pos + 2 > Len(data) THEN NotBasic
        ELSE LET link    == Word(data, pos + 1)
                 lineEnd == SkipOver(data, pos + 5, 1..255) - 1
                 rest    == parse[link - load]
                 call    == BasicCall(SubSeq(data, pos + 5, lineEnd))
             IN  IF link = 0 THEN [end |-> pos + 2, call |-> NoCall, lines |-> 0]
                 ELSE IF \/ link <= load + pos \/ link > load + Len(data)
                         \/ pos + 4 > Len(data)
                         \/ lineEnd >= Len(data) \/ lineEnd >= link - load
                         \/ rest = NotBasic
                      THEN NotBasic
                      ELSE [end |-> rest.end, lines |-> rest.lines + 1,
                            call |-> IF call # NoCall THEN call ELSE rest.call]
  IN  parse[0]

\* Mutant: a CALL out of the program is not noticed.
PrgPlan_AnyCall(raw) ==
  LET load   == LoadAddr(raw)
      data   == Payload(raw)
      basic  == ParseBasic(load, data)
      whole  == [parts |-> <<Part(load, data)>>, run |-> load]
  IN  IF Len(raw) < 3 THEN [parts |-> Refused, run |-> 0]
      ELSE IF basic = NotBasic \/ basic.lines = 0 \/ basic.call <= load \/ basic.end > basic.call - load
           THEN whole
           ELSE [parts |-> <<Part(load, Slice(data, 0, basic.end)),
                             Part(basic.call, SubSeq(data, basic.call - load + 1, Len(data)))>>,
                 run   |-> basic.call]

\* prg_segments: the parts and the address that --run starts.
PrgPlan(raw) ==
  LET load   == LoadAddr(raw)
      data   == Payload(raw)
      basic  == ParseBasic(load, data)
      whole  == [parts |-> <<Part(load, data)>>, run |-> load]
  IN  IF Len(raw) < 3 THEN [parts |-> Refused, run |-> 0]
      ELSE IF \/ basic = NotBasic \/ basic.lines = 0 \/ basic.call = NoCall
              \/ basic.call <= load \/ basic.call >= load + Len(data)
              \/ basic.end > basic.call - load
           THEN whole
           ELSE [parts |-> <<Part(load, Slice(data, 0, basic.end)),
                             Part(basic.call, SubSeq(data, basic.call - load + 1, Len(data)))>>,
                 run   |-> basic.call]

ROMSize == 16384

\* --split-rom: the image around the I/O window, the high part first.
SplitRomPlan(data) ==
  IF Len(data) # ROMSize THEN [parts |-> Refused, run |-> 0]
  ELSE [parts |-> <<Part(61440, Slice(data, 12288, 4096)), Part(40960, Slice(data, 0, 12288))>>,
        run   |-> 40960]

\* Without a format option: one part, but not 16 KB across the I/O window.
BinaryPlan(data, address) ==
  IF data = <<>> \/ (address = 49152 /\ Len(data) = ROMSize)
  THEN [parts |-> Refused, run |-> 0]
  ELSE [parts |-> <<Part(address, data)>>, run |-> address]

-----------------------------------------------------------------------------
(* What a plan leaves in memory. *)

Covers(part, a) == a \in part.addr..(part.addr + Len(part.data) - 1)

Covered(parts, a) == \E i \in DOMAIN parts : Covers(parts[i], a)

\* The byte at an address, a later part over an earlier one.
ByteAt(parts, a) ==
  LET last == CHOOSE i \in DOMAIN parts :
                /\ Covers(parts[i], a)
                /\ \A j \in (i + 1)..Len(parts) : ~Covers(parts[j], a)
  IN  parts[last].data[a - parts[last].addr + 1]

ImageOf(parts) ==
  [a \in UNION {p.addr..(p.addr + Len(p.data) - 1) : p \in {parts[i] : i \in DOMAIN parts}}
     |-> ByteAt(parts, a)]
=============================================================================
