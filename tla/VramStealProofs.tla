-------------------------- MODULE VramStealProofs --------------------------
(***************************************************************************)
(* The safety invariants of VramSteal hold for every set of cells and      *)
(* bytes and for steals and gaps of every length.                          *)
(***************************************************************************)
EXTENDS VramSteal, TLAPS

\* While it accesses the VRAM the monitor holds a quiet CPU and nothing is
\* deferred: hold came at least one clock before the first request.
MonitorAlone == mon # MonIdle => monitor_hold /\ ~cpu_enable /\ latch = NoWrite

\* In reset the T65 drives no VRAM cycle.
ResetQuiet == cpu_reset => cpu = ElsewhereRead

\* A deferred write belongs to the write cycle that is ending, or to the one
\* before the read RDY keeps waiting.
LatchOwner ==
  latch # NoWrite =>
    \/ /\ VramWrite /\ cpu_enable
       /\ latch = [addr |-> cpu.addr, data |-> cpu.data]
    \/ cpu.op = "read" /\ (cpu.addr = Elsewhere \/ ExecFromVram)

\* In the second clock of a VRAM read that no steal touched, the output
\* register holds the byte read.
ReadArrived ==
  VramRead /\ cpu_enable /\ ~vic_stealing_d /\ ~ExecFromVram =>
    vram_dout = vram[cpu.addr]

\* So it does for the monitor.
MonReadArrived ==
  mon.st = "M_VRAM_RD_READY" => vram_dout = vram[mon.addr]

IInv == /\ TypeOK /\ MonitorAlone /\ ResetQuiet /\ LatchOwner
        /\ ReadArrived /\ MonReadArrived /\ Coherent

USE BlankAssumption, MarkerAssumption, StealAssumption, ProgramAssumption

----------------------------------------------------------------------------
(* The types.                                                              *)

LEMMA MuxType ==
  ASSUME TypeOK, MonitorAlone
  PROVE  /\ vram_addr_mux \subseteq Cell
         /\ vram_we_mux => vram_din_mux \in Byte
<1>1. MonOwnsAddr => mon.addr \in Cell /\ mon.data \in Byte
  BY DEF MonOwnsAddr, TypeOK, MonIdle, MonAccess
<1>2. CommitNow => latch.addr \in Cell /\ latch.data \in Byte
  BY DEF CommitNow, TypeOK, Write
<1>3. vic_stealing /\ ~vic_fetch_bitmap => vic \in Cell
  BY DEF vic_stealing, vic_fetch_bitmap, TypeOK, Fetch
<1>4. vram_addr_mux \subseteq Cell
  BY <1>1, <1>2, <1>3 DEF vram_addr_mux, CpuCells
<1>5. vram_we => cpu.data \in Byte
  BY DEF vram_we, VramWrite, TypeOK, BusCycle
<1>6. MonOwnsWrite => mon.data \in Byte
  BY <1>1 DEF MonOwnsWrite, MonOwnsAddr
<1> QED
  BY <1>2, <1>4, <1>5, <1>6 DEF vram_we_mux, vram_din_mux

LEMMA TypeStep ==
  ASSUME TypeOK, MonitorAlone, Next
  PROVE  TypeOK'
<1>1. cpu_reset' \in BOOLEAN /\ cpu_enable' \in BOOLEAN
  BY DEF Next, ResetLine, EnableClock, TypeOK
<1>2. cpu' \in BusCycle
  BY DEF Next, CpuClock, T65Reset, T65NextCycle, T65Waits, ElsewhereRead,
         BusCycle, TypeOK
<1>3. /\ vic' \in Fetch \cup {NoSteal} /\ vic_stealing_d' \in BOOLEAN
      /\ clocks' \in 0 .. (IF vic' = NoSteal THEN MinGap ELSE MaxSteal)
  BY DEF Next, VicClock, StealStarts, StealLasts, StealEnds, GapLasts, Fetch,
         vic_stealing, TypeOK
<1>4. latch' \in Write \cup {NoWrite}
  <2>1. vram_we => [addr |-> cpu.addr, data |-> cpu.data] \in Write
    BY DEF vram_we, VramWrite, TypeOK, BusCycle, Write
  <2> QED
    BY <2>1 DEF Next, LatchClock, LatchDrops, LatchCommits, LatchCaptures,
                LatchKeeps, TypeOK
<1>5. vram' \in [Cell -> Byte] /\ vram_dout' \in Byte
  BY MuxType DEF Next, VramClock, TypeOK
<1>6. mon' \in MonAccess \cup {MonIdle}
  <2>1. CASE MonRests \/ MonReady
    BY <2>1 DEF MonRests, MonReady, TypeOK
  <2>2. CASE MonRequests
    BY <2>2 DEF MonRequests, MonAccess, Write
  <2>3. CASE MonRdWait \/ MonRdReady \/ MonWrWait
    <3>1. mon \in MonAccess
      BY <2>3 DEF MonRdWait, MonRdReady, MonWrWait, MonIdle, TypeOK
    <3> QED
      BY <2>3, <3>1 DEF MonRdWait, MonRdReady, MonWrWait, MonAccess, TypeOK
  <2> QED
    BY <2>1, <2>2, <2>3 DEF Next, MonClock
<1>7. monitor_hold' \in BOOLEAN
  BY DEF Next, HoldLine, HoldRises, HoldLasts, HoldFalls, TypeOK
<1>8. intent' \in [Cell -> Byte] /\ lost' \subseteq Cell
  <2>1. MonOwnsWrite => mon.addr \in Cell /\ mon.data \in Byte
    BY DEF MonOwnsWrite, TypeOK, MonIdle, MonAccess
  <2>2. CpuStores => cpu.addr \in Cell /\ cpu.data \in Byte
    BY DEF CpuStores, VramWrite, TypeOK, BusCycle
  <2>3. Drops => latch.addr \in Cell
    BY DEF Drops, TypeOK, Write
  <2>4. lost' \subseteq lost \cup (IF Drops THEN {latch.addr} ELSE {})
    BY DEF Next, ProgramOrder
  <2> QED
    BY <2>1, <2>2, <2>3, <2>4 DEF Next, ProgramOrder, Put, TypeOK
<1> QED
  BY <1>1, <1>2, <1>3, <1>4, <1>5, <1>6, <1>7, <1>8 DEF TypeOK

----------------------------------------------------------------------------
(* Who owns the port and the latch.                                        *)

LEMMA MonitorAloneStep ==
  ASSUME IInv, Next
  PROVE  MonitorAlone'
<1> SUFFICES ASSUME mon' # MonIdle
             PROVE  monitor_hold' /\ ~cpu_enable' /\ latch' = NoWrite
  BY DEF MonitorAlone
<1>1. monitor_hold
  <2>1. CASE mon = MonIdle
    BY <2>1 DEF Next, MonClock, MonRests, MonRequests, MonRdWait, MonRdReady,
                MonWrWait, MonReady, MonIdle
  <2>2. CASE mon # MonIdle
    BY <2>2 DEF IInv, MonitorAlone
  <2> QED
    BY <2>1, <2>2
<1>2. monitor_hold'
  BY <1>1 DEF Next, HoldLine, HoldRises, HoldLasts, HoldFalls
<1>3. ~cpu_enable' /\ latch' = NoWrite
  BY <1>1 DEF Next, EnableClock, LatchClock, LatchDrops, LatchCommits,
              LatchCaptures, LatchKeeps
<1> QED
  BY <1>2, <1>3

LEMMA ResetQuietStep ==
  ASSUME Next
  PROVE  ResetQuiet'
BY DEF Next, CpuClock, T65Reset, T65NextCycle, T65Waits, ResetQuiet

LEMMA LatchOwnerStep ==
  ASSUME IInv, Next
  PROVE  LatchOwner'
<1> SUFFICES ASSUME latch' # NoWrite
             PROVE  \/ /\ VramWrite' /\ cpu_enable'
                       /\ latch' = [addr |-> cpu'.addr, data |-> cpu'.data]
                    \/ cpu'.op = "read" /\ (cpu'.addr = Elsewhere \/ ExecFromVram)
  BY DEF LatchOwner
<1>1. CASE T65Reset
  BY <1>1 DEF T65Reset, ElsewhereRead
<1>2. CASE LatchCaptures /\ ~T65Reset
  <2>1. cpu' = cpu
    BY <1>2 DEF Next, CpuClock, T65NextCycle, T65Waits, T65Latches, LatchCaptures,
                vram_we
  <2>2. cpu_enable'
    BY <1>2 DEF Next, EnableClock, LatchCaptures, vram_we
  <2> QED
    BY <1>2, <2>1, <2>2 DEF LatchCaptures, vram_we, VramWrite
<1>3. CASE LatchKeeps /\ ~T65Reset
  <2>1. latch # NoWrite /\ LatchOwner
    BY <1>3 DEF LatchKeeps, IInv
  <2>2. CASE VramWrite /\ cpu_enable
    <3>1. T65NextCycle
      BY <1>3, <2>2 DEF Next, CpuClock, T65Waits, T65Latches, VramWrite,
                        ElsewhereRead
    <3> QED
      BY <2>2, <3>1 DEF T65NextCycle, MayFollow, VramWrite
  <2>3. CASE cpu.op = "read" /\ (cpu.addr = Elsewhere \/ ExecFromVram)
    <3>1. cpu' = cpu
      BY <1>3, <2>1, <2>3 DEF Next, CpuClock, T65NextCycle, T65Waits, T65Latches,
                              cpu_rdy
    <3> QED
      BY <2>3, <3>1
  <2> QED
    BY <2>1, <2>2, <2>3 DEF LatchOwner
<1> QED
  BY <1>1, <1>2, <1>3 DEF Next, LatchClock, LatchDrops, LatchCommits

----------------------------------------------------------------------------
(* What the port holds.                                                    *)

LEMMA ReadArrivedStep ==
  ASSUME IInv, Next
  PROVE  ReadArrived'
<1> SUFFICES ASSUME VramRead', cpu_enable', ~vic_stealing_d', ~ExecFromVram
             PROVE  vram_dout' = vram'[cpu'.addr]
  BY DEF ReadArrived
<1>1. ~cpu_enable /\ ~cpu_reset /\ ~monitor_hold /\ ~vic_stealing
  BY DEF Next, EnableClock, VicClock, IInv, TypeOK
<1>2. cpu' = cpu
  BY <1>1 DEF Next, CpuClock, T65Reset, T65NextCycle, T65Waits, T65Latches,
              ElsewhereRead, VramRead
<1>3. latch = NoWrite
  BY <1>1, <1>2 DEF IInv, LatchOwner, VramRead, VramWrite
<1>4. vram_addr_mux = {cpu.addr} /\ ~vram_we_mux
  BY <1>1, <1>2, <1>3 DEF vram_addr_mux, vram_we_mux, MonOwnsAddr, MonOwnsWrite,
     CommitNow, CpuCells, vram_we, VramRead, VramWrite
<1> QED
  BY <1>2, <1>4 DEF Next, VramClock

LEMMA MonReadArrivedStep ==
  ASSUME IInv, Next
  PROVE  MonReadArrived'
<1> SUFFICES ASSUME mon'.st = "M_VRAM_RD_READY"
             PROVE  vram_dout' = vram'[mon'.addr]
  BY DEF MonReadArrived
<1>1. MonRdWait
  <2>1. ~MonRests /\ ~MonReady
    BY DEF MonRests, MonReady, MonIdle
  <2>2. ~MonRequests
    BY DEF MonRequests
  <2>3. CASE MonRdReady \/ MonWrWait
    <3>1. mon \in MonAccess
      BY <2>3 DEF MonRdReady, MonWrWait, IInv, TypeOK, MonIdle
    <3> QED
      BY <2>3, <3>1 DEF MonRdReady, MonWrWait, MonAccess
  <2> QED
    BY <2>1, <2>2, <2>3 DEF Next, MonClock
<1>2. mon # MonIdle /\ mon \in MonAccess
  BY <1>1 DEF MonRdWait, MonIdle, IInv, TypeOK
<1>3. mon'.addr = mon.addr
  BY <1>1, <1>2 DEF MonRdWait, MonAccess
<1>4. monitor_hold /\ latch = NoWrite
  BY <1>2 DEF IInv, MonitorAlone
<1>5. vram_addr_mux = {mon.addr} /\ ~vram_we_mux
  BY <1>1, <1>4 DEF MonRdWait, vram_addr_mux, vram_we_mux, MonOwnsAddr,
     MonOwnsWrite, CommitNow, vram_we
<1> QED
  BY <1>3, <1>5 DEF Next, VramClock

----------------------------------------------------------------------------
(* Coherence.                                                              *)

\* What the CPU has stored changes only in the first clock of a VRAM write.
LEMMA StoredStep ==
  ASSUME IInv, Next, ~MonOwnsWrite
  PROVE  Stored' = IF vram_we THEN Put(Stored, cpu) ELSE Stored
<1>1. CASE VramWrite /\ cpu_enable
  <2>1. ~VramWrite'
    BY <1>1 DEF Next, CpuClock, T65Reset, T65NextCycle, T65Waits, T65Latches,
                ElsewhereRead, VramWrite, MayFollow
  <2>2. intent' = Put(intent, cpu)
    BY <1>1 DEF Next, ProgramOrder, CpuStores
  <2> QED
    BY <1>1, <2>1, <2>2 DEF Stored, OnItsWay, vram_we
<1>2. CASE vram_we
  <2>1. ~cpu_enable /\ ~monitor_hold /\ VramWrite
    BY <1>2 DEF vram_we
  <2>2. ~cpu_reset
    BY <2>1 DEF IInv, ResetQuiet, ElsewhereRead, VramWrite
  <2>3. cpu_enable'
    BY <2>1, <2>2 DEF Next, EnableClock
  <2>4. CASE cpu_reset'
    <3>1. intent' = Put(intent, cpu)
      BY <1>2, <2>1, <2>4 DEF Next, ProgramOrder, CpuStores
    <3>2. ~VramWrite'
      BY <2>4 DEF Next, CpuClock, T65Reset, T65NextCycle, T65Waits,
                  ElsewhereRead, VramWrite
    <3> QED
      BY <1>2, <2>1, <3>1, <3>2 DEF Stored, OnItsWay
  <2>5. CASE ~cpu_reset'
    <3>1. intent' = intent
      BY <2>1, <2>5 DEF Next, ProgramOrder, CpuStores
    <3>2. cpu' = cpu
      BY <2>1, <2>2, <2>5 DEF Next, CpuClock, T65Reset, T65NextCycle, T65Waits,
                              T65Latches
    <3> QED
      BY <1>2, <2>1, <2>3, <3>1, <3>2 DEF Stored, OnItsWay, VramWrite, Put
  <2> QED
    BY <2>4, <2>5
<1>3. CASE ~vram_we /\ ~(VramWrite /\ cpu_enable)
  <2>1. intent' = intent
    BY <1>3 DEF Next, ProgramOrder, CpuStores
  <2>2. ~(VramWrite' /\ cpu_enable')
    <3> SUFFICES ASSUME VramWrite', cpu_enable'
                 PROVE  FALSE
      OBVIOUS
    <3>1. ~cpu_reset /\ ~monitor_hold /\ ~cpu_enable
      BY DEF Next, EnableClock, IInv, TypeOK
    <3>2. cpu' = cpu
      BY <3>1 DEF Next, CpuClock, T65Reset, T65NextCycle, T65Waits, T65Latches,
                  ElsewhereRead, VramWrite
    <3> QED
      BY <1>3, <3>1, <3>2 DEF vram_we, VramWrite
  <2> QED
    BY <1>3, <2>1, <2>2 DEF Stored, OnItsWay
<1> QED
  BY <1>1, <1>2, <1>3

\* A cell is missing from the moment its parked write is dropped until the next
\* write strobe for it.
LEMMA MissingStep ==
  ASSUME IInv, Next, ~MonOwnsWrite
  PROVE  Missing' = (Missing \ (IF vram_we THEN {cpu.addr} ELSE {}))
                    \cup (IF Drops THEN {latch.addr} ELSE {})
<1>1. CASE OnItsWay
  <2>1. ~OnItsWay'
    BY <1>1 DEF Next, CpuClock, T65Reset, T65NextCycle, T65Waits, T65Latches,
                ElsewhereRead, OnItsWay, VramWrite, MayFollow
  <2>2. lost' = (lost \ {cpu.addr}) \cup (IF Drops THEN {latch.addr} ELSE {})
    BY <1>1 DEF Next, ProgramOrder, CpuStores, OnItsWay
  <2> QED
    BY <1>1, <2>1, <2>2 DEF Missing, vram_we, OnItsWay
<1>2. CASE vram_we
  <2>1. /\ ~cpu_enable /\ ~monitor_hold /\ VramWrite
        /\ latch = NoWrite /\ ~Drops /\ ~OnItsWay
    BY <1>2 DEF vram_we, IInv, LatchOwner, VramWrite, Drops, OnItsWay
  <2>2. ~cpu_reset /\ cpu_enable'
    <3>1. ~cpu_reset
      BY <2>1 DEF IInv, ResetQuiet, ElsewhereRead, VramWrite
    <3> QED
      BY <2>1, <3>1 DEF Next, EnableClock
  <2>3. CASE cpu_reset'
    <3>1. lost' = lost \ {cpu.addr}
      BY <1>2, <2>1, <2>3 DEF Next, ProgramOrder, CpuStores
    <3>2. ~OnItsWay'
      BY <2>3 DEF Next, CpuClock, T65Reset, T65NextCycle, T65Waits,
                  ElsewhereRead, OnItsWay, VramWrite
    <3> QED
      BY <1>2, <2>1, <3>1, <3>2 DEF Missing
  <2>4. CASE ~cpu_reset'
    <3>1. lost' = lost
      BY <2>1, <2>4 DEF Next, ProgramOrder, CpuStores
    <3>2. cpu' = cpu
      BY <2>1, <2>2, <2>4 DEF Next, CpuClock, T65Reset, T65NextCycle, T65Waits,
                              T65Latches
    <3> QED
      BY <1>2, <2>1, <2>2, <3>1, <3>2 DEF Missing, OnItsWay, VramWrite
  <2> QED
    BY <2>3, <2>4
<1>3. CASE ~vram_we /\ ~OnItsWay
  <2>1. lost' = lost \cup (IF Drops THEN {latch.addr} ELSE {})
    BY <1>3 DEF Next, ProgramOrder, CpuStores, OnItsWay
  <2>2. ~OnItsWay'
    <3> SUFFICES ASSUME OnItsWay'
                 PROVE  FALSE
      OBVIOUS
    <3>1. ~cpu_reset /\ ~monitor_hold /\ ~cpu_enable
      BY DEF OnItsWay, Next, EnableClock, IInv, TypeOK
    <3>2. cpu' = cpu
      BY <3>1 DEF OnItsWay, Next, CpuClock, T65Reset, T65NextCycle, T65Waits,
                  T65Latches, ElsewhereRead, VramWrite
    <3> QED
      BY <1>3, <3>1, <3>2 DEF vram_we, VramWrite, OnItsWay
  <2> QED
    BY <1>3, <2>1, <2>2 DEF Missing
<1> QED
  BY <1>1, <1>2, <1>3

\* A monitor write: the CPU is quiet and the port is the monitor's.
LEMMA CoherentMonitorWrite ==
  ASSUME IInv, Next, MonOwnsWrite
  PROVE  Coherent'
<1>1. monitor_hold /\ ~cpu_enable /\ latch = NoWrite /\ MonOwnsAddr
  BY DEF IInv, MonitorAlone, MonOwnsWrite, MonOwnsAddr, MonIdle
<1>2. vram' = Put(vram, mon)
  <2>1. vram_addr_mux = {mon.addr} /\ vram_we_mux /\ vram_din_mux = mon.data
    BY <1>1 DEF vram_addr_mux, vram_we_mux, vram_din_mux
  <2> QED
    BY <2>1 DEF Next, VramClock, Put
<1>3. intent' = Put(intent, mon) /\ lost' = lost \ {mon.addr}
  BY <1>1 DEF Next, ProgramOrder, Drops
<1>4. latch' = NoWrite /\ ~cpu_enable'
  BY <1>1 DEF Next, EnableClock, LatchClock, LatchDrops, LatchCommits,
              LatchCaptures, LatchKeeps
<1>5. \A c \in Cell \ lost : vram[c] = intent[c]
  BY <1>1 DEF IInv, Coherent, Held, Stored, Missing, OnItsWay
<1>6. Held' = vram' /\ Stored' = intent' /\ Missing' = lost'
  BY <1>4 DEF Held, Stored, Missing, OnItsWay
<1>7. \A c \in Cell \ lost' : vram'[c] = intent'[c]
  BY <1>2, <1>3, <1>5 DEF IInv, TypeOK, Put
<1> QED
  BY <1>6, <1>7 DEF Coherent

\* What the RAM with the parked write holds changes with the write strobe, and
\* when a parked write is dropped.
LEMMA HeldStep ==
  ASSUME IInv, Next, ~MonOwnsWrite
  PROVE  Held' = IF vram_we THEN Put(Held, cpu)
                 ELSE IF Drops THEN vram ELSE Held
<1>1. vram_we => latch = NoWrite /\ VramWrite /\ ~cpu_reset /\ ~monitor_hold
                 /\ ~cpu_enable
  BY DEF vram_we, VramWrite, IInv, LatchOwner, ResetQuiet, ElsewhereRead
<1>2. CASE CommitNow
  <2>1. ~vram_we /\ ~MonOwnsAddr /\ latch # NoWrite /\ ~Drops
    BY <1>1, <1>2 DEF CommitNow, IInv, MonitorAlone, MonOwnsAddr, MonIdle, Drops
  <2>2. vram' = Put(vram, latch)
    <3>1. vram_addr_mux = {latch.addr} /\ vram_we_mux
          /\ vram_din_mux = latch.data
      BY <1>2, <2>1 DEF vram_addr_mux, vram_we_mux, vram_din_mux, CommitNow
    <3> QED
      BY <3>1 DEF Next, VramClock, Put
  <2>3. latch' = NoWrite
    BY <1>2, <2>1 DEF Next, LatchClock, LatchDrops, LatchCommits, LatchCaptures,
                      LatchKeeps, CommitNow
  <2> QED
    BY <2>1, <2>2, <2>3 DEF Held
<1>3. CASE vram_we /\ ~vic_stealing
  <2>1. ~CommitNow /\ ~MonOwnsAddr /\ cpu.addr \in Cell
    BY <1>1, <1>3 DEF CommitNow, MonOwnsAddr, VramWrite
  <2>2. vram' = Put(vram, cpu)
    <3>1. vram_addr_mux = {cpu.addr} /\ vram_we_mux /\ vram_din_mux = cpu.data
      BY <1>3, <2>1 DEF vram_addr_mux, CpuCells, vram_we_mux, vram_din_mux
    <3> QED
      BY <3>1 DEF Next, VramClock, Put
  <2>3. latch' = NoWrite /\ latch = NoWrite
    BY <1>1, <1>3 DEF Next, LatchClock, LatchDrops, LatchCommits, LatchCaptures,
                      LatchKeeps
  <2> QED
    BY <1>3, <2>2, <2>3 DEF Held
<1>4. CASE vram_we /\ vic_stealing
  <2>1. vram' = vram
    BY <1>4 DEF Next, VramClock, vram_we_mux, CommitNow
  <2>2. latch' = [addr |-> cpu.addr, data |-> cpu.data] /\ latch' # NoWrite
    BY <1>1, <1>4 DEF Next, LatchClock, LatchDrops, LatchCommits, LatchCaptures,
       LatchKeeps, CommitNow, VramWrite, Write, BusCycle, IInv, TypeOK
  <2> QED
    BY <1>1, <1>4, <2>1, <2>2 DEF Held, Put
<1>5. CASE ~vram_we /\ ~CommitNow
  <2>1. vram' = vram
    BY <1>5 DEF Next, VramClock, vram_we_mux
  <2>2. latch' = IF Drops THEN NoWrite ELSE latch
    BY <1>5 DEF Next, LatchClock, LatchDrops, LatchCommits, LatchCaptures,
                LatchKeeps, CommitNow, Drops
  <2> QED
    BY <1>5, <2>1, <2>2 DEF Held
<1> QED
  BY <1>2, <1>3, <1>4, <1>5

LEMMA CoherentStep ==
  ASSUME IInv, Next
  PROVE  Coherent'
<1>1. CASE MonOwnsWrite
  BY <1>1, CoherentMonitorWrite
<1>2. CASE ~MonOwnsWrite
  <2> SUFFICES ASSUME NEW c \in Cell, c \notin Missing'
               PROVE  Held'[c] = Stored'[c]
    BY DEF Coherent
  <2>1. Stored' = IF vram_we THEN Put(Stored, cpu) ELSE Stored
    BY <1>2, StoredStep
  <2>2. Held' = IF vram_we THEN Put(Held, cpu) ELSE IF Drops THEN vram ELSE Held
    BY <1>2, HeldStep
  <2>3. /\ Drops => c # latch.addr
        /\ c \in Missing => vram_we /\ c = cpu.addr
    BY <1>2, MissingStep
  <2>4. c \notin Missing => Held[c] = Stored[c]
    BY DEF IInv, Coherent
  <2>5. DOMAIN Held = Cell /\ DOMAIN Stored = Cell
    BY DEF Held, Stored, Put, IInv, TypeOK
  <2>6. CASE vram_we /\ c = cpu.addr
    BY <2>1, <2>2, <2>5, <2>6 DEF Put
  <2>7. CASE vram_we /\ c # cpu.addr
    BY <2>1, <2>2, <2>3, <2>4, <2>5, <2>7 DEF Put
  <2>8. CASE ~vram_we /\ Drops
    <3>1. Held[c] = vram[c]
      BY <2>3, <2>8 DEF Held, Put, IInv, TypeOK
    <3> QED
      BY <2>1, <2>2, <2>3, <2>4, <2>8, <3>1
  <2>9. CASE ~vram_we /\ ~Drops
    BY <2>1, <2>2, <2>3, <2>4, <2>9
  <2> QED
    BY <2>6, <2>7, <2>8, <2>9
<1> QED
  BY <1>1, <1>2

----------------------------------------------------------------------------
(* The theorems.                                                           *)

LEMMA InitIInv == Init => IInv
<1> SUFFICES ASSUME Init PROVE IInv
  OBVIOUS
<1>1. TypeOK
  <2>1. cpu \in BusCycle /\ vic \in Fetch \cup {NoSteal}
    BY DEF Init, ElsewhereRead, BusCycle
  <2>2. clocks \in 0 .. (IF vic = NoSteal THEN MinGap ELSE MaxSteal)
    BY DEF Init
  <2>3. vram \in [Cell -> Byte] /\ intent \in [Cell -> Byte] /\ lost \subseteq Cell
    BY DEF Init
  <2> QED
    BY <2>1, <2>2, <2>3 DEF Init, TypeOK
<1>2. MonitorAlone /\ ResetQuiet /\ LatchOwner /\ ReadArrived /\ MonReadArrived
  BY DEF Init, MonitorAlone, ResetQuiet, LatchOwner, ReadArrived, MonReadArrived,
         MonIdle
<1>3. Coherent
  BY DEF Init, Coherent, Held, Stored, OnItsWay, VramWrite, ElsewhereRead
<1> QED
  BY <1>1, <1>2, <1>3 DEF IInv

LEMMA StutterIInv == IInv /\ UNCHANGED vars => IInv'
BY DEF vars, IInv, TypeOK, MonitorAlone, ResetQuiet, LatchOwner, ReadArrived,
       MonReadArrived, Coherent, Held, Stored, Missing, OnItsWay, VramRead,
       VramWrite, Put

\* The strengthened invariant of the VRAM port: holds of every run of the core.
THEOREM Invariance == Spec => []IInv
<1>1. IInv /\ [Next]_vars => IInv'
  <2>1. ASSUME IInv, Next
        PROVE  IInv'
    <3>1. TypeOK'
      BY <2>1, TypeStep DEF IInv
    <3>2. MonitorAlone' /\ ResetQuiet' /\ LatchOwner'
      BY <2>1, MonitorAloneStep, ResetQuietStep, LatchOwnerStep
    <3>3. ReadArrived' /\ MonReadArrived' /\ Coherent'
      BY <2>1, ReadArrivedStep, MonReadArrivedStep, CoherentStep
    <3> QED
      BY <3>1, <3>2, <3>3 DEF IInv
  <2> QED
    BY <2>1, StutterIInv
<1> QED
  BY <1>1, InitIInv, PTL DEF Spec

\* Every register of the VRAM port keeps its type, a steal its length.
THEOREM TypeCorrect == Spec => []TypeOK
<1>1. IInv => TypeOK
  BY DEF IInv
<1> QED
  BY <1>1, Invariance, PTL

\* The RAM with the deferred write applied is what program and monitor stored,
\* in order, in every cell but those whose parked write hold or reset dropped
\* during a line fetch and that were not stored to since.
THEOREM Coherence == Spec => []Coherent
<1>1. IInv => Coherent
  BY DEF IInv
<1> QED
  BY <1>1, Invariance, PTL

\* The one-deep latch of vram_wr_pending never overruns, and the monitor never
\* meets a deferred write.
THEOREM LatchSafety == Spec => [](LatchFree /\ NoStrayCommit)
<1>1. IInv => LatchFree
  BY DEF IInv, LatchOwner, LatchFree, vram_we, VramWrite
<1>2. IInv => NoStrayCommit
  BY DEF IInv, MonitorAlone, NoStrayCommit, MonOwnsAddr, MonIdle
<1> QED
  BY <1>1, <1>2, Invariance, PTL

\* A completed VRAM read of a cell whose last store was not dropped returns that
\* store: to the monitor always and to the T65 unless the program runs out of
\* the VRAM itself.
THEOREM ReadSafety ==
  ASSUME ~ExecFromVram
  PROVE  Spec => []EveryReadCurrent
<1>1. IInv => ReadsCurrent
  <2> SUFFICES ASSUME IInv, VramRead, T65Latches, cpu.addr \notin lost
               PROVE  vram_dout = intent[cpu.addr]
    BY DEF ReadsCurrent
  <2>1. cpu_enable /\ ~vic_stealing_d /\ latch = NoWrite
    BY DEF T65Latches, cpu_rdy, VramRead
  <2>2. vram[cpu.addr] = intent[cpu.addr]
    BY <2>1 DEF IInv, Coherent, Held, Stored, Missing, OnItsWay, VramRead, VramWrite
  <2> QED
    BY <2>1, <2>2 DEF IInv, ReadArrived
<1>2. IInv => MonReadsCurrent
  <2> SUFFICES ASSUME IInv, mon.st = "M_VRAM_RD_READY", mon.addr \notin lost
               PROVE  vram_dout = intent[mon.addr]
    BY DEF MonReadsCurrent
  <2>1. latch = NoWrite /\ ~cpu_enable
    BY DEF IInv, MonitorAlone, MonIdle
  <2>2. mon.addr \in Cell
    BY DEF IInv, TypeOK, MonIdle, MonAccess
  <2>3. vram[mon.addr] = intent[mon.addr]
    BY <2>1, <2>2 DEF IInv, Coherent, Held, Stored, Missing, OnItsWay
  <2> QED
    BY <2>3 DEF IInv, MonReadArrived
<1>3. IInv => EveryReadCurrent
  BY <1>1, <1>2 DEF EveryReadCurrent
<1> QED
  BY <1>3, Invariance, PTL
=============================================================================
