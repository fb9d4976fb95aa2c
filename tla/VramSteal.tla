----------------------------- MODULE VramSteal -----------------------------
(***************************************************************************)
(* The text VRAM of the boot-monitor core (sbc_t65_boot_monitor_top.vhd)   *)
(* and the three masters that share its single port: the T65, the VIC,     *)
(* which steals the port for the duration of a line fetch, and the UART    *)
(* monitor, which works while it holds the CPU.                            *)
(*                                                                         *)
(* One step is one rising edge of clk: every register of the core gets its *)
(* next value from the values before the edge, so Next is a conjunction of *)
(* one action per clocked process, each a disjunction of what that process *)
(* may do.  A CPU bus cycle takes two clocks: in the first cpu_enable is 0 *)
(* and the write strobe cpu_bus_we is up, in the second cpu_enable is 1    *)
(* and the T65 latches what it reads, unless RDY is low.  The T65 ignores  *)
(* RDY in a write cycle, which is why a write that meets a steal has to be *)
(* parked in vram_wr_pending/_addr/_data, here the one variable latch.     *)
(***************************************************************************)
EXTENDS Naturals

CONSTANTS
  Cell,          \* the VRAM locations, $8000-$87FF
  Byte,          \* the values of a location
  Blank,         \* the byte every location holds at power-up
  Elsewhere,     \* any CPU address outside the VRAM
  NoSteal,       \* the VIC does not own the port
  BitmapFetch,   \* it owns the port but fetches from the framebuffer
  NoWrite,       \* vram_wr_pending = '0'
  MaxSteal,      \* the longest steal, in clocks
  MinGap,        \* the shortest time between two steals, in clocks
  ExecFromVram   \* whether the program runs code out of the VRAM

Write == [addr : Cell, data : Byte]

ASSUME BlankAssumption   == Blank \in Byte
ASSUME MarkerAssumption  == /\ Elsewhere \notin Cell
                            /\ NoSteal \notin Cell \cup {BitmapFetch}
                            /\ NoWrite \notin Write
ASSUME StealAssumption   == MaxSteal \in Nat \ {0} /\ MinGap \in Nat \ {0}
ASSUME ProgramAssumption == ExecFromVram \in BOOLEAN

VARIABLES
  cpu_reset,       \* cpu_reset_n = '0'
  cpu_enable,      \* second clock of a CPU bus cycle
  cpu,             \* the bus cycle the T65 drives
  vic,             \* what the VIC fetches: a cell, BitmapFetch or NoSteal
  vic_stealing_d,  \* vic_stealing one clock ago
  clocks,          \* how long the steal, or the gap, has lasted
  monitor_hold,
  mon,             \* mon_mem_state with its latched address and data
  latch,           \* the deferred write, or NoWrite
  vram, vram_dout, \* the RAM and its output register
  intent,          \* history: the VRAM the program and the monitor wrote
  lost             \* history: the cells whose last store was dropped on the way

vars == <<cpu_reset, cpu_enable, cpu, vic, vic_stealing_d, clocks,
          monitor_hold, mon, latch, vram, vram_dout, intent, lost>>

----------------------------------------------------------------------------
(* The signals between the processes.                                      *)

BusCycle == [op : {"read"}, addr : Cell \cup {Elsewhere}] \cup
            [op : {"write"}, addr : Cell \cup {Elsewhere}, data : Byte]
ElsewhereRead == [op |-> "read", addr |-> Elsewhere]

Fetch == Cell \cup {BitmapFetch}

MonIdle   == [st |-> "M_IDLE"]
MonAccess == [st : {"M_VRAM_RD_WAIT", "M_VRAM_RD_READY", "M_VRAM_WR_WAIT", "M_READY"},
              addr : Cell, data : Byte]

VramRead  == cpu.op = "read"  /\ cpu.addr \in Cell
VramWrite == cpu.op = "write" /\ cpu.addr \in Cell

vic_stealing     == vic # NoSteal
vic_fetch_bitmap == vic = BitmapFetch

vram_we == VramWrite /\ ~cpu_enable /\ ~monitor_hold

\* The definitions named Name_Bug are variants with a plausible bug, which the
\* mutants of the properties put in the place of Name.
cpu_rdy_NoCushion == ~vic_stealing /\ latch = NoWrite /\ ~monitor_hold

\* RDY as far as the VRAM decides it.  The stalls of the other memories only
\* meet reads outside the VRAM: T65Waits may prolong those at will.
cpu_rdy == /\ ~vic_stealing /\ ~vic_stealing_d
           /\ latch = NoWrite
           /\ ~monitor_hold

T65Latches == /\ cpu_enable
              /\ cpu.op = "read" => cpu_rdy

MonOwnsAddr  == /\ monitor_hold
                /\ mon.st \in {"M_VRAM_RD_WAIT", "M_VRAM_RD_READY",
                               "M_VRAM_WR_WAIT"}
MonOwnsWrite == monitor_hold /\ mon.st = "M_VRAM_WR_WAIT"
CommitNow    == latch # NoWrite /\ ~vic_stealing

\* The cell vram_addr_mux selects: a set, because a CPU address outside the
\* VRAM may have any low eleven bits.
CpuCells == IF cpu.addr \in Cell THEN {cpu.addr} ELSE Cell

vram_addr_mux ==
  CASE MonOwnsAddr                                    -> {mon.addr}
    [] ~MonOwnsAddr /\ CommitNow                      -> {latch.addr}
    [] ~MonOwnsAddr /\ vic_stealing /\ ~vic_fetch_bitmap -> {vic}
    [] OTHER                                          -> CpuCells

vram_we_mux_NoCommit == MonOwnsWrite \/ (~vic_stealing /\ vram_we)

vram_we_mux == MonOwnsWrite \/ CommitNow \/ (~vic_stealing /\ vram_we)

vram_din_mux == CASE MonOwnsWrite               -> mon.data
                  [] ~MonOwnsWrite /\ CommitNow -> latch.data
                  [] OTHER                      -> cpu.data

----------------------------------------------------------------------------
Init ==
  /\ cpu_reset = TRUE /\ cpu_enable = FALSE /\ cpu = ElsewhereRead
  /\ vic = NoSteal /\ vic_stealing_d = FALSE /\ clocks = 0
  /\ monitor_hold = FALSE /\ mon = MonIdle
  /\ latch = NoWrite
  /\ vram = [c \in Cell |-> Blank] /\ vram_dout = Blank
  /\ intent = vram /\ lost = {}

(* cpu_reset_n: the reset key, boot_done and the monitor's jump pulse it.  *)
ResetLine == cpu_reset' \in BOOLEAN

(* The clock enable divides clk by two, and rests while the CPU is held.   *)
EnableClock ==
  \/ (cpu_reset \/ monitor_hold)  /\ cpu_enable' = FALSE
  \/ ~(cpu_reset \/ monitor_hold) /\ cpu_enable' = ~cpu_enable

(* The T65 writes once per instruction, the stack apart, which is never in *)
(* the VRAM: the cycle after a write to the VRAM fetches an opcode.        *)
MayFollow_Nmos(c, d) ==
  c.op = "write" /\ c.addr \in Cell =>
    \/ d.addr = Elsewhere \/ ExecFromVram
    \/ (d.op = "write" /\ d.addr = c.addr)

MayFollow(c, d) ==
  c.op = "write" /\ c.addr \in Cell =>
    d.op = "read" /\ (d.addr = Elsewhere \/ ExecFromVram)

\* The T65 is reset asynchronously: its bus is quiet as soon as the line is low.
T65Reset     == (cpu_reset \/ cpu_reset') /\ cpu' = ElsewhereRead
T65NextCycle == /\ ~cpu_reset /\ ~cpu_reset'
                /\ T65Latches
                /\ cpu' \in {d \in BusCycle : MayFollow(cpu, d)}
T65Waits     == /\ ~cpu_reset /\ ~cpu_reset'
                /\ ~T65Latches \/ cpu = ElsewhereRead
                /\ cpu' = cpu

CpuClock == T65Reset \/ T65NextCycle \/ T65Waits

(* The line fetch of vic_vga: a new address every clock while it lasts.    *)
StealStarts == /\ vic = NoSteal /\ clocks = MinGap
               /\ vic' \in Fetch
               /\ clocks' = 1
StealLasts  == /\ vic # NoSteal /\ clocks < MaxSteal
               /\ vic' \in Fetch
               /\ clocks' = clocks + 1
StealEnds   == /\ vic # NoSteal
               /\ vic' = NoSteal
               /\ clocks' = 1
GapLasts    == /\ vic = NoSteal
               /\ vic' = NoSteal
               /\ clocks' = IF clocks < MinGap THEN clocks + 1 ELSE clocks

VicClock_StickyCushion ==
  /\ StealStarts \/ StealLasts \/ StealEnds \/ GapLasts
  /\ vic_stealing_d' = (vic_stealing \/ vic_stealing_d)
VicClock == /\ StealStarts \/ StealLasts \/ StealEnds \/ GapLasts
            /\ vic_stealing_d' = vic_stealing

(* The deferred-write latch.                                               *)
LatchDrops    == /\ cpu_reset \/ monitor_hold
                 /\ latch' = NoWrite
LatchCommits  == /\ ~cpu_reset /\ ~monitor_hold
                 /\ CommitNow
                 /\ latch' = NoWrite
LatchCaptures == /\ ~cpu_reset /\ ~monitor_hold
                 /\ vram_we /\ vic_stealing
                 /\ latch' = [addr |-> cpu.addr, data |-> cpu.data]
LatchKeeps    == /\ ~cpu_reset /\ ~monitor_hold
                 /\ ~CommitNow /\ ~(vram_we /\ vic_stealing)
                 /\ latch' = latch

LatchClock == LatchDrops \/ LatchCommits \/ LatchCaptures \/ LatchKeeps

(* sync_ram: a write and, whatever is written, a read of the old content.  *)
VramClock ==
  \E a \in vram_addr_mux :
    /\ vram_dout' = vram[a]
    /\ vram' = IF vram_we_mux THEN [vram EXCEPT ![a] = vram_din_mux] ELSE vram

(* The monitor's memory FSM, as far as it accesses the VRAM.               *)
MonRests    == mon.st = "M_IDLE" /\ mon' = mon
MonRequests == /\ mon.st = "M_IDLE" /\ monitor_hold
               /\ \/ \E a \in Cell :
                       mon' = [st |-> "M_VRAM_RD_WAIT", addr |-> a, data |-> Blank]
                  \/ \E w \in Write :
                       mon' = [st |-> "M_VRAM_WR_WAIT", addr |-> w.addr, data |-> w.data]
MonRdWait   == /\ mon.st = "M_VRAM_RD_WAIT"
               /\ mon' = [mon EXCEPT !.st = "M_VRAM_RD_READY"]
MonRdReady  == /\ mon.st = "M_VRAM_RD_READY"
               /\ mon' = [mon EXCEPT !.st = "M_READY", !.data = vram_dout]
MonWrWait   == /\ mon.st = "M_VRAM_WR_WAIT"
               /\ mon' = [mon EXCEPT !.st = "M_READY"]
MonReady    == mon.st = "M_READY" /\ mon' = MonIdle

MonClock == \/ MonRests \/ MonRequests \/ MonRdWait \/ MonRdReady
            \/ MonWrWait \/ MonReady

(* The monitor raises hold at any time and drops it between two accesses.  *)
HoldRises == ~monitor_hold /\ monitor_hold' = TRUE
HoldLasts == monitor_hold' = monitor_hold
HoldFalls == /\ monitor_hold /\ monitor_hold' = FALSE
             /\ mon = MonIdle /\ mon' = MonIdle

HoldLine == HoldRises \/ HoldLasts \/ HoldFalls

(* History.  The program has written a byte when the T65 leaves the write  *)
(* cycle, or is reset out of one whose strobe was up.  A parked write that *)
(* hold or reset drops while the port is stolen never reaches the RAM: its *)
(* cell is lost until something is stored there again.                     *)
CpuStores == VramWrite /\ (cpu_enable \/ (vram_we /\ cpu_reset'))
Drops     == latch # NoWrite /\ vic_stealing /\ (cpu_reset \/ monitor_hold)

Put(m, w) == [m EXCEPT ![w.addr] = w.data]

ProgramOrder ==
  LET StoredNow == CASE MonOwnsWrite                -> {mon.addr}
                     [] ~MonOwnsWrite /\ CpuStores  -> {cpu.addr}
                     [] OTHER                       -> {}
  IN  /\ intent' = CASE MonOwnsWrite                -> Put(intent, mon)
                      [] ~MonOwnsWrite /\ CpuStores  -> Put(intent, cpu)
                      [] OTHER                       -> intent
      /\ lost' = (lost \ StoredNow) \cup (IF Drops THEN {latch.addr} ELSE {})

Next == /\ ResetLine /\ EnableClock /\ CpuClock /\ VicClock /\ LatchClock
        /\ VramClock /\ MonClock /\ HoldLine /\ ProgramOrder

Spec     == Init /\ [][Next]_vars
FairSpec == Spec /\ WF_vars(Next)

----------------------------------------------------------------------------
TypeOK ==
  /\ cpu_reset \in BOOLEAN /\ cpu_enable \in BOOLEAN
  /\ cpu \in BusCycle
  /\ vic \in Fetch \cup {NoSteal} /\ vic_stealing_d \in BOOLEAN
  /\ clocks \in 0 .. (IF vic = NoSteal THEN MinGap ELSE MaxSteal)
  /\ monitor_hold \in BOOLEAN
  /\ mon \in MonAccess \cup {MonIdle}
  /\ latch \in Write \cup {NoWrite}
  /\ vram \in [Cell -> Byte] /\ vram_dout \in Byte
  /\ intent \in [Cell -> Byte] /\ lost \subseteq Cell

\* Whatever the steals, the resets and the monitor did, the RAM with the
\* deferred write applied holds what the program and the monitor stored, in
\* program order, everywhere but in the cells whose write was parked when hold
\* or reset met a line fetch: nothing else is lost, doubled or misplaced, and
\* the next store to such a cell heals it.  (In the second clock of a write
\* cycle the byte is on its way, the cycle not over.)
OnItsWay == VramWrite /\ cpu_enable
Held     == IF latch = NoWrite THEN vram ELSE Put(vram, latch)
Stored   == IF OnItsWay THEN Put(intent, cpu) ELSE intent
Missing  == IF OnItsWay THEN lost \ {cpu.addr} ELSE lost

Coherent == \A c \in Cell \ Missing : Held[c] = Stored[c]

\* What tb_vram_steal_race.vhd 15-18 expects: no write is ever lost.  It fails:
\* the latch is cleared by monitor_hold although the T65 has left the cycle.
EveryStoreLands == Held = Stored

\* When the write strobe is up the latch is free: the one-deep latch neither
\* overruns nor takes the port from the write of a later instruction.
LatchFree == vram_we => latch = NoWrite

\* The latch is empty while the monitor addresses the VRAM.  Its write enable
\* is not gated by hold, so a commit would go to the monitor's address.
NoStrayCommit == MonOwnsAddr => latch = NoWrite

\* A VRAM read the T65 completes returns the byte last stored there, if that
\* was not lost, never what the VIC or a commit left in the output register.
ReadsCurrent ==
  VramRead /\ T65Latches /\ cpu.addr \notin lost => vram_dout = intent[cpu.addr]

\* So does a read of the monitor.
MonReadsCurrent ==
  mon.st = "M_VRAM_RD_READY" /\ mon.addr \notin lost =>
    vram_dout = intent[mon.addr]

\* Both readers see the VRAM in program order: the byte a read returns, to the
\* T65 or to the monitor, is the one stored last, parked writes included; only
\* a cell whose last store was dropped reads as something older.
EveryReadCurrent == ReadsCurrent /\ MonReadsCurrent

\* A deferred write is no longer pending some time later.
DeferredWriteLands == latch # NoWrite ~> latch = NoWrite

\* The steals leave the CPU room: a read of the VRAM is served, unless the
\* CPU is held or reset meanwhile.
VramReadServed == VramRead ~> (VramRead => T65Latches \/ monitor_hold)

\* The VIC starves nobody: every access of the T65 to the VRAM comes to an end.
AccessesEnd == DeferredWriteLands /\ VramReadServed
=============================================================================
