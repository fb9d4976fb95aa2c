---------------------------- MODULE PcToolsProofs ----------------------------
(***************************************************************************)
(* Proofs about the tools on the PC.                                       *)
(***************************************************************************)
EXTENDS PcTools, SequenceTheorems, TLAPS

-----------------------------------------------------------------------------
(* The patched KERNAL: ten instructions from the LOAD entry on. *)

IsPatched(rom) == rom.entry = Patch /\ rom.stub = Stub

Cpu(p, a, s, z) == [pc |-> p, a |-> a, stack |-> s, z |-> z]
Runs(rom, sign, a, run) ==
  run = [n \in 0..9 |-> IF n = 0 THEN [pc |-> LoadEntry, a |-> a, stack |-> <<>>, z |-> FALSE]
                        ELSE Exec(rom, sign, run[n - 1])]

LEMMA CallUnfolds ==
  ASSUME NEW rom, NEW sign, NEW a
  PROVE  LET run == CHOOSE run : Runs(rom, sign, a, run)
         IN  LoadCall(rom, sign, a) = [pc |-> run[9].pc, a |-> run[9].a, stack |-> run[9].stack]
BY DEF LoadCall, Runs

\* Where the two jumps of the stub go.
HookLoad  == 49158
StockLoad == 62622

LEMMA PatchedBytes ==
  ASSUME NEW rom, IsPatched(rom)
  PROVE  /\ RomByte(rom, LoadEntry) = 76
         /\ RomByte(rom, LoadEntry + 1) + 256 * RomByte(rom, LoadEntry + 2) = StubAddr
         /\ RomByte(rom, StubAddr) = 72 /\ RomByte(rom, StubAddr + 1) = 173
         /\ RomByte(rom, StubAddr + 4) = 201 /\ RomByte(rom, StubAddr + 5) = 44
         /\ RomByte(rom, StubAddr + 6) = 208 /\ RomByte(rom, StubAddr + 7) = 4
         /\ RomByte(rom, StubAddr + 8) = 104 /\ RomByte(rom, StubAddr + 9) = 76
         /\ RomByte(rom, StubAddr + 10) + 256 * RomByte(rom, StubAddr + 11) = HookLoad
         /\ RomByte(rom, StubAddr + 12) = 104 /\ RomByte(rom, StubAddr + 13) = 76
         /\ RomByte(rom, StubAddr + 14) + 256 * RomByte(rom, StubAddr + 15) = StockLoad
         /\ InRom(LoadEntry)
         /\ \A k \in {0, 1, 4, 6, 8, 9, 12, 13} : InRom(StubAddr + k)
         /\ ~InRom(HookLoad) /\ ~InRom(StockLoad)
BY DEF IsPatched, RomByte, InRom, LoadEntry, StubAddr, Patch, Stub, HookLoad, StockLoad

LEMMA Addresses == LoadEntry \in Nat /\ StubAddr \in Nat
BY DEF LoadEntry, StubAddr

LEMMA CpuIs ==
  ASSUME NEW r, NEW p, NEW a, NEW s, NEW z, r \in [pc : {p}, a : {a}, stack : {s}, z : {z}]
  PROVE  r = Cpu(p, a, s, z)
BY DEF Cpu

Pushed(a, s) == <<a>> \o s
Top(s)  == Head(s)
Rest(s) == Tail(s)

\* What one instruction makes of the CPU; the next place is given by name.
LEMMA StepJump ==
  ASSUME NEW rom, NEW sign, NEW p, NEW a, NEW s, NEW z, NEW q, InRom(p), RomByte(rom, p) = 76,
         q = RomByte(rom, p + 1) + 256 * RomByte(rom, p + 2)
  PROVE  Exec(rom, sign, Cpu(p, a, s, z)) = Cpu(q, a, s, z)
BY DEF Exec, Cpu

LEMMA StepPush ==
  ASSUME NEW rom, NEW sign, NEW p, NEW a, NEW s, NEW z, NEW q, NEW t,
         InRom(p), RomByte(rom, p) = 72, q = p + 1, t = Pushed(a, s)
  PROVE  Exec(rom, sign, Cpu(p, a, s, z)) = Cpu(q, a, t, z)
<1> DEFINE cpu == Cpu(p, a, s, z)
           next == [cpu EXCEPT !.pc = @ + 1, !.stack = <<cpu.a>> \o @]
<1>1. cpu.pc = p /\ cpu.a = a
  BY DEF Cpu
<1>2. next \in [pc : {p + 1}, a : {a}, stack : {<<a>> \o s}, z : {z}]
  BY DEF Cpu
<1> HIDE DEF cpu, next
<1>3. Exec(rom, sign, cpu) = next
  BY <1>1 DEF Exec, next
<1>4. next \in [pc : {q}, a : {a}, stack : {t}, z : {z}]
  BY <1>2, Zenon DEF Pushed
<1>5. next = Cpu(q, a, t, z)
  BY ONLY <1>4, CpuIs
<1> QED
  BY ONLY <1>3, <1>5 DEF cpu

LEMMA StepLoad ==
  ASSUME NEW rom, NEW sign, NEW p, NEW a, NEW s, NEW z, NEW q, InRom(p), RomByte(rom, p) = 173,
         q = p + 3
  PROVE  Exec(rom, sign, Cpu(p, a, s, z)) = Cpu(q, sign, s, z)
<1> DEFINE cpu == Cpu(p, a, s, z)
           next == [cpu EXCEPT !.pc = @ + 3, !.a = sign]
<1>1. cpu.pc = p /\ cpu.a = a
  BY DEF Cpu
<1>2. next \in [pc : {q}, a : {sign}, stack : {s}, z : {z}]
  BY DEF Cpu
<1> HIDE DEF cpu, next
<1>3. Exec(rom, sign, cpu) = next
  BY <1>1 DEF Exec, next
<1>4. next = Cpu(q, sign, s, z)
  BY ONLY <1>2, CpuIs
<1> QED
  BY ONLY <1>3, <1>4 DEF cpu

LEMMA StepCompare ==
  ASSUME NEW rom, NEW sign, NEW p, NEW a, NEW s, NEW z, NEW q, NEW same,
         InRom(p), RomByte(rom, p) = 201, q = p + 2, same = (a = RomByte(rom, p + 1))
  PROVE  Exec(rom, sign, Cpu(p, a, s, z)) = Cpu(q, a, s, same)
<1> DEFINE cpu == Cpu(p, a, s, z)
           next == [cpu EXCEPT !.pc = @ + 2, !.z = cpu.a = RomByte(rom, cpu.pc + 1)]
<1>1. cpu.pc = p /\ cpu.a = a
  BY DEF Cpu
<1>2. next \in [pc : {q}, a : {a}, stack : {s}, z : {same}]
  BY DEF Cpu
<1> HIDE DEF cpu, next
<1>3. Exec(rom, sign, cpu) = next
  BY <1>1 DEF Exec, next
<1>4. next = Cpu(q, a, s, same)
  BY ONLY <1>2, CpuIs
<1> QED
  BY ONLY <1>3, <1>4 DEF cpu

LEMMA StepBranch ==
  ASSUME NEW rom, NEW sign, NEW p, NEW a, NEW s, NEW z \in BOOLEAN, NEW q, InRom(p),
         RomByte(rom, p) = 208, q = p + 2 + IF z THEN 0 ELSE RomByte(rom, p + 1)
  PROVE  Exec(rom, sign, Cpu(p, a, s, z)) = Cpu(q, a, s, z)
<1>1. Exec(rom, sign, Cpu(p, a, s, z)) \in [pc : {q}, a : {a}, stack : {s}, z : {z}]
  BY DEF Exec, Cpu
<1> QED
  BY <1>1, CpuIs

LEMMA StepPull ==
  ASSUME NEW rom, NEW sign, NEW p, NEW a, NEW s, NEW z, NEW q, NEW h, NEW t,
         InRom(p), RomByte(rom, p) = 104, q = p + 1, h = Top(s), t = Rest(s)
  PROVE  Exec(rom, sign, Cpu(p, a, s, z)) = Cpu(q, h, t, z)
<1> DEFINE cpu == Cpu(p, a, s, z)
           next == [cpu EXCEPT !.pc = @ + 1, !.a = Head(cpu.stack), !.stack = Tail(@)]
<1>1. cpu.pc = p /\ cpu.a = a
  BY DEF Cpu
<1>2. next \in [pc : {p + 1}, a : {Head(s)}, stack : {Tail(s)}, z : {z}]
  BY DEF Cpu
<1> HIDE DEF cpu, next
<1>3. Exec(rom, sign, cpu) = next
  BY <1>1 DEF Exec, next
<1>4. next \in [pc : {q}, a : {h}, stack : {t}, z : {z}]
  BY <1>2, Zenon DEF Top, Rest
<1>5. next = Cpu(q, h, t, z)
  BY ONLY <1>4, CpuIs
<1> QED
  BY ONLY <1>3, <1>5 DEF cpu

LEMMA StepOutside ==
  ASSUME NEW rom, NEW sign, NEW p, NEW a, NEW s, NEW z, ~InRom(p)
  PROVE  Exec(rom, sign, Cpu(p, a, s, z)) = Cpu(p, a, s, z)
BY DEF Exec, Cpu

\* Where a LOAD gets to in a patched ROM.
LEMMA PatchedCall ==
  ASSUME NEW rom, IsPatched(rom), NEW sign, NEW a
  PROVE  LoadCall(rom, sign, a) =
           [pc |-> IF sign = HookSign THEN HookLoad ELSE StockLoad, a |-> a, stack |-> <<>>]
<1> DEFINE hooked == sign = HookSign
           none == <<>>  no == FALSE
           one  == <<a>>
           b(k) == StubAddr + k
           leave == IF hooked THEN b(8) ELSE b(12)
           jump  == IF hooked THEN b(9) ELSE b(13)
           last  == IF hooked THEN HookLoad ELSE StockLoad
           c0 == Cpu(LoadEntry, a, none, no)
           c1 == Cpu(StubAddr, a, none, no)
           c2 == Cpu(b(1), a, one, no)
           c3 == Cpu(b(4), sign, one, no)
           c4 == Cpu(b(6), sign, one, hooked)
           c5 == Cpu(leave, sign, one, hooked)
           c6 == Cpu(jump, a, none, hooked)
           c7 == Cpu(last, a, none, hooked)
           E(c) == Exec(rom, sign, c)
<1> USE Addresses
<1>h. hooked \in BOOLEAN /\ HookSign = 44
  BY DEF HookSign
<1>s1. one = Pushed(a, none)
  BY DEF Pushed
<1>s2. a = Top(one) /\ none = Rest(one)
  BY DEF Top, Rest
<1>b1. b(1) = StubAddr + 1 /\ b(4) = b(1) + 3 /\ b(6) = b(4) + 2
  OBVIOUS
<1>b2. leave = b(6) + 2 + IF hooked THEN 0 ELSE 4
  OBVIOUS
<1>b3. jump = leave + 1
  OBVIOUS
<1> HIDE DEF none, one, hooked, no
<1>1. E(c0) = c1
  <2>1. /\ InRom(LoadEntry) /\ RomByte(rom, LoadEntry) = 76
        /\ StubAddr = RomByte(rom, LoadEntry + 1) + 256 * RomByte(rom, LoadEntry + 2)
    BY PatchedBytes
  <2> QED
    BY ONLY <2>1, StepJump
<1>2. E(c1) = c2
  <2>1. InRom(StubAddr) /\ RomByte(rom, StubAddr) = 72
    <3>1. StubAddr + 0 = StubAddr
      OBVIOUS
    <3> QED
      BY <3>1, PatchedBytes
  <2> HIDE DEF b
  <2> QED
    BY ONLY <2>1, <1>s1, <1>b1, StepPush
<1>3. E(c2) = c3
  <2>1. InRom(b(1)) /\ RomByte(rom, b(1)) = 173
    BY PatchedBytes
  <2> HIDE DEF b
  <2> QED
    BY ONLY <2>1, <1>b1, StepLoad
<1>4. E(c3) = c4
  <2>1. InRom(b(4)) /\ RomByte(rom, b(4)) = 201 /\ RomByte(rom, b(4) + 1) = HookSign
    <3>1. b(4) + 1 = StubAddr + 5
      OBVIOUS
    <3> QED
      BY <1>h, <3>1, PatchedBytes
  <2>2. hooked = (sign = RomByte(rom, b(4) + 1))
    BY <2>1 DEF hooked
  <2> HIDE DEF b
  <2> QED
    BY ONLY <2>1, <2>2, <1>b1, StepCompare
<1>5. E(c4) = c5
  <2>1. InRom(b(6)) /\ RomByte(rom, b(6)) = 208 /\ RomByte(rom, b(6) + 1) = 4
    <3>1. b(6) + 1 = StubAddr + 7
      OBVIOUS
    <3> QED
      BY <3>1, PatchedBytes
  <2>2. leave = b(6) + 2 + IF hooked THEN 0 ELSE RomByte(rom, b(6) + 1)
    BY ONLY <2>1, <1>b2
  <2> HIDE DEF b, leave
  <2> QED
    BY ONLY <2>1, <2>2, <1>h, StepBranch
<1>6. E(c5) = c6
  <2>1. InRom(leave) /\ RomByte(rom, leave) = 104
    BY PatchedBytes
  <2> HIDE DEF b, leave, jump
  <2> QED
    BY ONLY <2>1, <1>s2, <1>b3, StepPull
<1>7. E(c6) = c7
  <2>1. /\ InRom(jump) /\ RomByte(rom, jump) = 76
        /\ last = RomByte(rom, jump + 1) + 256 * RomByte(rom, jump + 2)
    <3>1. b(9) + 1 = StubAddr + 10 /\ b(9) + 2 = StubAddr + 11
          /\ b(13) + 1 = StubAddr + 14 /\ b(13) + 2 = StubAddr + 15
      OBVIOUS
    <3>2. CASE hooked
      BY ONLY <3>1, <3>2, IsPatched(rom), PatchedBytes
    <3>3. CASE ~hooked
      BY ONLY <3>1, <3>3, IsPatched(rom), PatchedBytes
    <3> QED
      BY <3>2, <3>3
  <2> HIDE DEF b, jump, last
  <2> QED
    BY ONLY <2>1, StepJump
<1>8. E(c7) = c7
  <2>1. ~InRom(last)
    BY PatchedBytes
  <2> HIDE DEF b, last
  <2> QED
    BY ONLY <2>1, StepOutside
<1>9. c0 = [pc |-> LoadEntry, a |-> a, stack |-> <<>>, z |-> FALSE]
  BY DEF Cpu, none, no
<1>10. c7.pc = last /\ c7.a = a /\ c7.stack = <<>>
  BY DEF Cpu, none
<1>17. last = IF sign = HookSign THEN HookLoad ELSE StockLoad
  BY DEF hooked
<1> HIDE DEF c0, c1, c2, c3, c4, c5, c6, c7, E, last, jump, leave, b
<1> DEFINE w == [n \in 0..9 |-> CASE n = 0 -> c0 [] n = 1 -> c1 [] n = 2 -> c2 [] n = 3 -> c3
                                 [] n = 4 -> c4 [] n = 5 -> c5 [] n = 6 -> c6 [] OTHER -> c7]
<1>11. w = [n \in 0..9 |-> IF n = 0 THEN c0 ELSE E(w[n - 1])]
  BY ONLY <1>1, <1>2, <1>3, <1>4, <1>5, <1>6, <1>7, <1>8
<1>12. Runs(rom, sign, a, w)
  BY ONLY <1>9, <1>11 DEF Runs, E
<1> HIDE DEF w
<1> DEFINE run == CHOOSE run : Runs(rom, sign, a, run)
<1>13. Runs(rom, sign, a, run)
  BY ONLY <1>12, Zenon
<1> HIDE DEF run
<1>14. /\ run[0] = c0
       /\ \A n \in 1..9 : run[n] = E(run[n - 1])
  <2>1. run = [n \in 0..9 |-> IF n = 0 THEN c0 ELSE E(run[n - 1])]
    BY ONLY <1>9, <1>13, Zenon DEF Runs, E
  <2> QED
    BY ONLY <2>1
<1>15. run[9] = c7
  BY ONLY <1>1, <1>2, <1>3, <1>4, <1>5, <1>6, <1>7, <1>8, <1>14
<1>16. LoadCall(rom, sign, a) = [pc |-> run[9].pc, a |-> run[9].a, stack |-> run[9].stack]
  BY ONLY CallUnfolds DEF run
<1> QED
  BY ONLY <1>10, <1>15, <1>16, <1>17

-----------------------------------------------------------------------------
(* The KERNAL and its backup. *)

\* A ROM is the one from before the first patch or has the patch and the stub.
KernalInv ==
  job = "kernal" =>
    /\ kernal.first = TRUE \/ IsPatched(kernal)
    /\ backup # NoBackup => backup.first = TRUE
    /\ careless = TRUE \/ kernal.first = TRUE \/ backup # NoBackup

kernalVars == <<job, kernal, backup, careless>>

LEMMA OthersKeepKernal ==
  ASSUME [AllNext]_allVars
  PROVE  \/ UNCHANGED kernalVars
         \/ \E elsewhere, noBackup \in BOOLEAN : PatchKernal(elsewhere, noBackup)
<1> USE DEF kernalVars
<1>1. CASE UNCHANGED allVars \/ (job = "cards" /\ Next /\ UNCHANGED toolVars)
  BY <1>1 DEF allVars, toolVars
<1>2. CASE ToolNext
  <2>1. CASE ConvertForDisk \/ ConvertForC64 \/ BuildRom
    BY <2>1 DEF ConvertForDisk, ConvertForC64, BuildRom, Take
  <2>2. CASE Distribute \/ FlushLast
    BY <2>2 DEF Distribute, FlushLast
  <2>3. ASSUME NEW inputs \in BootInputs, MakeBootCard(inputs) PROVE UNCHANGED kernalVars
    BY <2>3 DEF MakeBootCard, Finish
  <2>4. ASSUME NEW parts \in EhBasicParts, MakeEhBasic(parts) PROVE UNCHANGED kernalVars
    BY <2>4 DEF MakeEhBasic, Finish
  <2>5. ASSUME NEW file \in LoaderFiles, NEW opts \in LoaderOptions, MakeListing(file, opts)
        PROVE  UNCHANGED kernalVars
    BY <2>5 DEF MakeListing, Finish
  <2> QED
    BY <1>2, <2>1, <2>2, <2>3, <2>4, <2>5 DEF ToolNext
<1> QED
  BY <1>1, <1>2 DEF AllNext

LEMMA KernalStarts == ASSUME AllInit PROVE KernalInv
<1>1. job = "kernal" => kernal \in Kernals
  BY DEF AllInit, JobInit
<1>2. backup = NoBackup
  BY DEF AllInit
<1> QED
  BY <1>1, <1>2, KernalsAssumption DEF KernalInv

LEMMA KernalPatched ==
  ASSUME KernalInv, NEW elsewhere \in BOOLEAN, NEW noBackup \in BOOLEAN,
         PatchKernal(elsewhere, noBackup)
  PROVE  KernalInv'
<1> DEFINE new == [entry |-> Patch, stub |-> Stub, first |-> FALSE]
<1>1. /\ job = "kernal" /\ job' = job /\ careless' = (careless \/ noBackup)
      /\ elsewhere => kernal' = kernal /\ backup' = backup
      /\ ~elsewhere => /\ kernal' = IF IsPatched(kernal) THEN kernal ELSE new
                       /\ backup' = IF IsPatched(kernal) \/ noBackup \/ backup # NoBackup
                                    THEN backup ELSE kernal
  BY DEF PatchKernal, IsPatched
<1>2. IsPatched(new) /\ NoBackup.first = FALSE
  BY DEF IsPatched, NoBackup
<1> HIDE DEF new
<1>3. CASE elsewhere
  BY <1>1, <1>3 DEF KernalInv
<1>4. CASE ~elsewhere /\ IsPatched(kernal)
  BY <1>1, <1>4 DEF KernalInv
<1>5. CASE ~elsewhere /\ ~IsPatched(kernal)
  <2>1. kernal.first = TRUE /\ kernal' = new
    BY <1>1, <1>5 DEF KernalInv
  <2>2. IsPatched(kernal')
    BY <1>2, <2>1
  <2>3. CASE noBackup
    BY <1>1, <1>5, <2>2, <2>3 DEF KernalInv
  <2>4. CASE ~noBackup /\ backup # NoBackup
    BY <1>1, <1>5, <2>2, <2>4 DEF KernalInv
  <2>5. CASE ~noBackup /\ backup = NoBackup
    <3>1. backup' = kernal /\ kernal # NoBackup
      BY <1>1, <1>2, <1>5, <2>1, <2>5
    <3> QED
      BY <1>1, <2>1, <2>2, <3>1 DEF KernalInv, NoBackup
  <2> QED
    BY <2>3, <2>4, <2>5
<1> QED
  BY <1>3, <1>4, <1>5

LEMMA KernalStep == ASSUME KernalInv, [AllNext]_allVars PROVE KernalInv'
<1>1. CASE UNCHANGED kernalVars
  BY <1>1 DEF KernalInv, kernalVars, IsPatched
<1>2. CASE \E elsewhere, noBackup \in BOOLEAN : PatchKernal(elsewhere, noBackup)
  BY <1>2, KernalPatched
<1> QED
  BY <1>1, <1>2, OthersKeepKernal

LEMMA KernalIsKept == ASSUME KernalInv PROVE KernalKept
<1>1. ASSUME IsPatched(kernal), NEW sign \in {HookSign, 0, 255}, NEW a \in {0, 1}
      PROVE  LoadCall(kernal, sign, a) =
               [pc |-> IF sign = HookSign THEN 49158 ELSE 62622, a |-> a, stack |-> <<>>]
  BY <1>1, PatchedCall DEF HookLoad, StockLoad
<1> QED
  BY <1>1 DEF KernalInv, KernalKept, IsPatched

\* Whatever KERNALs there are and however often one is patched, in place or to
\* another file: a LOAD gets where it should, and the ROM from before the first
\* patch is kept unless somebody asked for no backup.
THEOREM KernalIsSafe == AllSpec => []KernalKept
<1> USE DEF AllSpec
<1>1. AllInit => KernalInv
  BY KernalStarts
<1>2. KernalInv /\ [AllNext]_allVars => KernalInv'
  BY KernalStep
<1>3. KernalInv => KernalKept
  BY KernalIsKept
<1> QED
  BY <1>1, <1>2, <1>3, PTL

-----------------------------------------------------------------------------
(* The boot card and the upload of the same image. *)

LEMMA Sizes == ROMSize \in Nat /\ ROMSize >= 16384 /\ ROMSize <= 16384 /\ SectorSize = 512
BY DEF ROMSize, SectorSize

\* An image, its bytes and its length.
BytesOf(payload) == {payload[i] : i \in 1..ROMSize}

LEMMA PayloadIs ==
  ASSUME NEW inputs, NEW payload, payload = BuildPayload(inputs), payload # Refused
  PROVE  /\ payload \in Seq(BytesOf(payload))
         /\ Len(payload) = ROMSize
         /\ \A i \in 1..ROMSize :
              payload[i] = IF Covered(inputs, i - 1) THEN ByteAt(inputs, i - 1) ELSE NOP
<1> DEFINE S == BytesOf(payload)
<1>1. payload = [i \in 1..ROMSize |-> IF Covered(inputs, i - 1) THEN ByteAt(inputs, i - 1) ELSE NOP]
  BY DEF BuildPayload
<1>2. DOMAIN payload = 1..ROMSize /\ payload = [i \in 1..ROMSize |-> payload[i]]
  BY <1>1
<1>3. payload \in [1..ROMSize -> S]
  BY ONLY <1>2 DEF BytesOf
<1>4. payload \in Seq(S) /\ Len(payload) = ROMSize
  <2>1. ROMSize \in Nat
    BY Sizes
  <2> QED
    BY ONLY <1>2, <1>3, <2>1, SeqDef, LenProperties
<1>5. \A i \in 1..ROMSize :
        payload[i] = IF Covered(inputs, i - 1) THEN ByteAt(inputs, i - 1) ELSE NOP
  BY <1>1
<1> QED
  BY <1>4, <1>5

\* A byte of a line, with the line's length.
LEMMA LineByte ==
  ASSUME NEW S, NEW data \in Seq(S), NEW k \in Nat \ {0}, NEW j \in 1..SectorSize,
         SectorSize * (k - 1) + j <= Len(data)
  PROVE  HexLines(data, SectorSize)[k][j] = data[SectorSize * (k - 1) + j]
<1> DEFINE len == Len(data)
           w   == SectorSize
           from == (k - 1) * w + 1
           to   == Lesser(k * w, len)
<1>1. w = 512 /\ len \in Nat
  BY Sizes
<1>2. k \in 1..((len + w - 1) \div w)
  <2> HIDE DEF len, w
  <2> QED
    BY <1>1 DEF len, w
<1>3. from \in Nat \ {0} /\ to \in Nat /\ to <= len /\ from + j - 1 <= to /\ from + j - 1 = w * (k - 1) + j
  <2>1. k * w \in Nat
    BY <1>1
  <2>2. to = k * w \/ to = len
    BY DEF Lesser
  <2> QED
    BY <1>1, <2>1, <2>2 DEF Lesser
<1>4. HexLines(data, SectorSize)[k] = SubSeq(data, from, to)
  BY <1>2 DEF HexLines
<1> HIDE DEF from, to
<1>5. SubSeq(data, from, to)[j] = data[from + j - 1]
  BY ONLY <1>3, <1>1, data \in Seq(S), j \in 1..SectorSize
<1> QED
  BY <1>3, <1>4, <1>5

\* A loader that takes a card of an image has the image.
LEMMA BootLoads ==
  ASSUME NEW S, NEW payload \in Seq(S), Len(payload) = ROMSize
  PROVE  RomLoad(BootCard(payload)) = [a \in 0..(ROMSize - 1) |-> payload[a + 1]]
<1> DEFINE sdCard == BootCard(payload)
<1>1. sdCard.header = [magic |-> "SBCROM01", load |-> 49152, length |-> ROMSize]
  BY DEF BootCard
<1>2. sdCard.sectors = HexLines(payload, SectorSize)
  BY DEF BootCard
<1> HIDE DEF sdCard
<1>3. RomLoad(sdCard) = [a \in 0..(ROMSize - 1) |->
                         HexLines(payload, SectorSize)[a \div SectorSize + 1][(a % SectorSize) + 1]]
  BY ONLY <1>1, <1>2 DEF RomLoad
<1>4. ASSUME NEW a \in 0..(ROMSize - 1)
      PROVE  HexLines(payload, SectorSize)[a \div SectorSize + 1][(a % SectorSize) + 1] = payload[a + 1]
  <2> DEFINE k == a \div SectorSize + 1
             j == (a % SectorSize) + 1
  <2>1. /\ k \in Nat \ {0} /\ j \in 1..SectorSize
        /\ SectorSize * (k - 1) + j = a + 1 /\ a + 1 <= ROMSize
    <3>1. a \in Nat /\ a < ROMSize /\ ROMSize \in Nat
      BY Sizes
    <3>2. /\ a \div SectorSize \in Nat /\ a % SectorSize >= 0 /\ a % SectorSize < SectorSize
          /\ SectorSize * (a \div SectorSize) + (a % SectorSize) = a
          /\ a % SectorSize \in Nat
      BY ONLY <3>1, Sizes
    <3> QED
      BY ONLY <3>1, <3>2, Sizes
  <2> HIDE DEF k, j
  <2>2. HexLines(payload, SectorSize)[k][j] = payload[SectorSize * (k - 1) + j]
    BY <2>1, LineByte
  <2> QED
    BY ONLY <2>1, <2>2 DEF k, j
<1> QED
  BY <1>3, <1>4 DEF sdCard

\* A slice that lies in the file.
LEMMA Cut ==
  ASSUME NEW S, NEW data \in Seq(S), NEW o \in Nat, NEW n \in Nat, o + n <= Len(data)
  PROVE  Len(Slice(data, o, n)) = n /\ \A i \in 1..n : Slice(data, o, n)[i] = data[o + i]
BY DEF Slice

\* The two parts of --split-rom are the two windows.
LEMMA SplitIs ==
  ASSUME NEW S, NEW payload \in Seq(S), Len(payload) = ROMSize
  PROVE  LET plan == SplitRomPlan(payload).parts IN
         \A a \in 0..(RAMEnd - 1) :
           /\ Covered(plan, a) <=> InWindow(a)
           /\ InWindow(a) => /\ RomOffset(a) \in 0..(ROMSize - 1)
                             /\ ByteAt(plan, a) = payload[RomOffset(a) + 1]
<1> DEFINE high == Slice(payload, 12288, 4096)
           low  == Slice(payload, 0, 12288)
           plan == SplitRomPlan(payload).parts
<1>1. plan = <<Part(61440, high), Part(40960, low)>>
  BY DEF SplitRomPlan
<1> DEFINE H == 4096
           L == 12288
<1>0. H \in Nat /\ L \in Nat /\ H >= 4096 /\ H <= 4096 /\ L >= 12288 /\ L <= 12288
  OBVIOUS
<1>2. Len(high) = H /\ \A i \in 1..H : high[i] = payload[L + i]
  <2>1. high = Slice(payload, L, H)
    OBVIOUS
  <2> HIDE DEF H, L, high
  <2>2. L + H <= Len(payload)
    BY <1>0, Sizes
  <2> QED
    BY ONLY <1>0, <2>1, <2>2, payload \in Seq(S), Cut
<1>3. Len(low) = L /\ \A i \in 1..L : low[i] = payload[i]
  <2>1. low = Slice(payload, 0, L)
    OBVIOUS
  <2> HIDE DEF L, low
  <2>2. 0 + L <= Len(payload) /\ 0 \in Nat
    BY <1>0, Sizes
  <2>3. Len(low) = L /\ \A i \in 1..L : low[i] = payload[0 + i]
    BY ONLY <1>0, <2>1, <2>2, payload \in Seq(S), Cut
  <2> QED
    BY ONLY <1>0, <2>3
<1> HIDE DEF H, L
<1> HIDE DEF high, low
<1> DEFINE one == Part(61440, high)
           two == Part(40960, low)
<1>4. one.addr = 61440 /\ one.data = high /\ two.addr = 40960 /\ two.data = low
  BY DEF Part
<1> HIDE DEF one, two, plan
<1> SUFFICES ASSUME NEW a \in 0..(RAMEnd - 1)
             PROVE  /\ Covered(plan, a) <=> InWindow(a)
                    /\ InWindow(a) => /\ RomOffset(a) \in 0..(ROMSize - 1)
                                      /\ ByteAt(plan, a) = payload[RomOffset(a) + 1]
  BY DEF plan
<1>5. a \in Int /\ 0 <= a /\ a <= 65535
  BY DEF RAMEnd
<1>6. Covers(one, a) <=> a >= 61440 /\ a <= 65535
  BY ONLY <1>0, <1>2, <1>4, <1>5 DEF Covers
<1>7. Covers(two, a) <=> a >= 40960 /\ a <= 53247
  BY ONLY <1>0, <1>3, <1>4, <1>5 DEF Covers
<1>8. plan = <<one, two>> /\ DOMAIN plan = {1, 2} /\ Len(plan) = 2 /\ plan[1] = one /\ plan[2] = two
  BY <1>1 DEF one, two
<1>9. Covered(plan, a) <=> InWindow(a)
  BY ONLY <1>5, <1>6, <1>7, <1>8 DEF Covered, InWindow
<1> DEFINE OnTop(i) == Covers(plan[i], a) /\ \A j \in (i + 1)..Len(plan) : ~Covers(plan[j], a)
           top == CHOOSE i \in DOMAIN plan : OnTop(i)
<1>10. ByteAt(plan, a) = plan[top].data[a - plan[top].addr + 1]
  BY DEF ByteAt
<1>11. ASSUME InWindow(a) PROVE top \in {1, 2} /\ Covers(plan[top], a)
  <2>1. \E i \in DOMAIN plan : OnTop(i)
    <3>1. CASE Covers(two, a)
      BY ONLY <1>8, <3>1
    <3>2. CASE ~Covers(two, a)
      <4>1. Covers(one, a)
        BY <1>5, <1>6, <1>7, <1>11, <3>2 DEF InWindow
      <4>2. \A j \in (1 + 1)..Len(plan) : j = 2
        BY ONLY <1>8
      <4> QED
        BY ONLY <1>8, <3>2, <4>1, <4>2
    <3> QED
      BY <3>1, <3>2
  <2> QED
    BY <1>8, <2>1
<1> HIDE DEF top
<1>12. ASSUME InWindow(a)
       PROVE  /\ RomOffset(a) \in 0..(ROMSize - 1)
              /\ ByteAt(plan, a) = payload[RomOffset(a) + 1]
  <2>1. CASE top = 1
    <3>1. a >= 61440 /\ a <= 65535
      BY <1>6, <1>8, <1>11, <1>12, <2>1
    <3>2. ByteAt(plan, a) = high[a - 61440 + 1]
      BY ONLY <1>4, <1>8, <1>10, <2>1
    <3>3. a - 61440 + 1 \in 1..H /\ L + (a - 61440 + 1) = RomOffset(a) + 1
      BY ONLY <1>0, <1>5, <3>1 DEF RomOffset
    <3>4. RomOffset(a) \in 0..(ROMSize - 1)
      BY ONLY <1>0, <1>5, <3>1, Sizes DEF RomOffset
    <3> QED
      BY ONLY <1>2, <3>2, <3>3, <3>4
  <2>2. CASE top = 2
    <3>1. a >= 40960 /\ a <= 53247
      BY <1>7, <1>8, <1>11, <1>12, <2>2
    <3>2. ByteAt(plan, a) = low[a - 40960 + 1]
      BY ONLY <1>4, <1>8, <1>10, <2>2
    <3>3. a - 40960 + 1 \in 1..L /\ a - 40960 + 1 = RomOffset(a) + 1
      BY ONLY <1>0, <1>5, <3>1 DEF RomOffset
    <3>4. RomOffset(a) \in 0..(ROMSize - 1)
      BY ONLY <1>0, <1>5, <3>1, Sizes DEF RomOffset
    <3> QED
      BY ONLY <1>3, <3>2, <3>3, <3>4
  <2> QED
    BY <1>11, <1>12, <2>1, <2>2
<1> QED
  BY <1>9, <1>12

\* The result of a "boot" job is what build_payload makes of the inputs.
BootInv == result.kind = "boot" => result.payload = BuildPayload(result.inputs)

LEMMA BootStep == ASSUME BootInv, [AllNext]_allVars PROVE BootInv'
<1>1. CASE UNCHANGED allVars \/ (job = "cards" /\ Next /\ UNCHANGED toolVars)
  BY <1>1 DEF allVars, toolVars, BootInv
<1>2. CASE ToolNext
  <2>1. CASE ConvertForDisk \/ ConvertForC64 \/ BuildRom
    BY <2>1 DEF ConvertForDisk, ConvertForC64, BuildRom, Take, BootInv
  <2>2. CASE Distribute \/ FlushLast
    BY <2>2 DEF Distribute, FlushLast, BootInv
  <2>3. ASSUME NEW inputs \in BootInputs, MakeBootCard(inputs) PROVE BootInv'
    BY <2>3 DEF MakeBootCard, Finish, BootInv
  <2>4. ASSUME NEW parts \in EhBasicParts, MakeEhBasic(parts) PROVE BootInv'
    BY <2>4 DEF MakeEhBasic, Finish, BootInv
  <2>5. ASSUME NEW file \in LoaderFiles, NEW opts \in LoaderOptions, MakeListing(file, opts)
        PROVE  BootInv'
    BY <2>5 DEF MakeListing, Finish, BootInv
  <2>6. ASSUME NEW elsewhere \in BOOLEAN, NEW noBackup \in BOOLEAN,
               PatchKernal(elsewhere, noBackup)
        PROVE  BootInv'
    BY <2>6 DEF PatchKernal, BootInv
  <2> QED
    BY <1>2, <2>1, <2>2, <2>3, <2>4, <2>5, <2>6 DEF ToolNext
<1> QED
  BY <1>1, <1>2 DEF AllNext

LEMMA BootIsRight == ASSUME BootInv PROVE BootIsUpload
<1> SUFFICES ASSUME result.kind = "boot", result.payload # Refused
             PROVE  LET rom  == RomLoad(BootCard(result.payload))
                        plan == SplitRomPlan(result.payload).parts
                    IN  /\ rom # NoRom
                        /\ \A a \in 0..(RAMEnd - 1) :
                             /\ Covered(plan, a) <=> InWindow(a)
                             /\ InWindow(a) => rom[RomOffset(a)] = ByteAt(plan, a)
                        /\ \A a \in DOMAIN rom :
                             rom[a] = IF Covered(result.inputs, a) THEN ByteAt(result.inputs, a) ELSE NOP
  BY DEF BootIsUpload
<1> DEFINE payload == result.payload
           inputs  == result.inputs
           rom     == RomLoad(BootCard(payload))
           plan    == SplitRomPlan(payload).parts
           S       == BytesOf(payload)
<1>1. payload = BuildPayload(inputs) /\ payload # Refused
  BY DEF BootInv
<1>2. /\ payload \in Seq(S) /\ Len(payload) = ROMSize
      /\ \A i \in 1..ROMSize :
           payload[i] = IF Covered(inputs, i - 1) THEN ByteAt(inputs, i - 1) ELSE NOP
  <2> HIDE DEF payload, inputs
  <2> QED
    BY ONLY <1>1, PayloadIs
<1> HIDE DEF payload, inputs, S
<1>3. rom = [a \in 0..(ROMSize - 1) |-> payload[a + 1]]
  BY <1>2, BootLoads
<1>4. \A a \in 0..(RAMEnd - 1) :
        /\ Covered(plan, a) <=> InWindow(a)
        /\ InWindow(a) => /\ RomOffset(a) \in 0..(ROMSize - 1)
                          /\ ByteAt(plan, a) = payload[RomOffset(a) + 1]
  BY <1>2, SplitIs
<1> HIDE DEF rom, plan
<1>5. rom # NoRom
  <2>1. 0 \in 0..(ROMSize - 1)
    BY Sizes
  <2>2. 0 \in DOMAIN rom
    BY ONLY <1>3, <2>1
  <2> QED
    BY <2>2 DEF NoRom
<1>6. \A a \in 0..(RAMEnd - 1) :
        /\ Covered(plan, a) <=> InWindow(a)
        /\ InWindow(a) => rom[RomOffset(a)] = ByteAt(plan, a)
  BY ONLY <1>3, <1>4
<1>7. ASSUME NEW a \in DOMAIN rom
      PROVE  rom[a] = IF Covered(inputs, a) THEN ByteAt(inputs, a) ELSE NOP
  <2>1. a \in 0..(ROMSize - 1) /\ rom[a] = payload[a + 1]
    BY ONLY <1>3, <1>7
  <2>2. a + 1 \in 1..ROMSize /\ a + 1 - 1 = a
    BY ONLY <2>1, Sizes
  <2> QED
    BY ONLY <1>2, <2>1, <2>2
<1> QED
  BY <1>5, <1>6, <1>7 DEF rom, plan, payload, inputs

\* Whatever files an image is made of, at whatever offsets: the card boots to the
\* bytes that --split-rom uploads, and those are the last file's for each offset.
THEOREM BootIsUploaded == AllSpec => []BootIsUpload
<1> USE DEF AllSpec
<1>1. AllInit => BootInv
  BY DEF AllInit, Nothing, BootInv
<1>2. BootInv /\ [AllNext]_allVars => BootInv'
  BY BootStep
<1>3. BootInv => BootIsUpload
  BY BootIsRight
<1> QED
  BY <1>1, <1>2, <1>3, PTL
=============================================================================
