---------------------------- MODULE MonitorJump ----------------------------
(***************************************************************************)
(* How the UART monitor starts a program ("G aaaa"): the core resets the   *)
(* T65 for ResetClocks clocks and, while mon_jump_vector_active is up,     *)
(* answers its reads of the reset vector with the jump address instead of  *)
(* the ROM's bytes.                                                        *)
(*                                                                         *)
(* One step is one rising edge of clk.  The T65 (external) is the part of  *)
(* it the jump depends on: reset forces machine cycle 1 of a BRK-like      *)
(* sequence which reads $FFFC in cycle 5 and $FFFD in cycle 6 and then     *)
(* jumps; a cycle ends in a clock with cpu_enable and RDY.                 *)
(***************************************************************************)
EXTENDS Integers

CONSTANTS
  Halves,        \* the halves of an address
  RomVector,     \* the reset vector in the shadow ROM
  NoJump,        \* no jump is under way
  ResetClocks    \* length of the reset pulse, 16 in the code

Vector == [hi : Halves, lo : Halves]

ASSUME VectorAssumption == RomVector \in Vector /\ NoJump \notin Vector
ASSUME PulseAssumption  == ResetClocks \in 1 .. 31

VARIABLES
  soft_reset,              \* the reset key
  monitor,                 \* "off", "active", or "leaving" after a G
  jump_req,                \* monitor_jump_req with its address, or NoJump
  mon_jump_vector, mon_jump_reset_cnt, mon_jump_vector_active,
  cpu_enable,
  t65,                     \* machine cycle of the reset sequence, 0 after it;
                           \* address class and Sync of the current bus cycle
  low,                     \* DL, the low byte the T65 read
  asked,                   \* history: the jump that has not restarted the T65
  landed                   \* history: where the T65 last restarted, and the
                           \* jump that made it

jump_vars == <<soft_reset, monitor, jump_req, mon_jump_vector,
               mon_jump_reset_cnt, mon_jump_vector_active, cpu_enable, t65, low,
               asked, landed>>

----------------------------------------------------------------------------
monitor_hold == monitor # "off"

cpu_reset == soft_reset \/ mon_jump_reset_cnt # 0

\* The bus cycles of the reset sequence, and those of a running program, which
\* may read the vector like any other location.
ResetCycle(n) == [seq  |-> n, sync |-> FALSE,
                  addr |-> CASE n = 5 -> "FFFC" [] n = 6 -> "FFFD" [] OTHER -> "other"]
ProgramCycle  == [seq : {0}, sync : BOOLEAN, addr : {"FFFC", "FFFD", "other"}]

\* What the data mux returns for a byte of the reset vector.
cpu_din(half) == IF mon_jump_vector_active THEN mon_jump_vector[half]
                                           ELSE RomVector[half]

JumpInit ==
  /\ soft_reset = TRUE /\ monitor = "off" /\ jump_req = NoJump
  /\ mon_jump_vector = RomVector /\ mon_jump_reset_cnt = 0
  /\ mon_jump_vector_active = FALSE
  /\ cpu_enable = FALSE /\ t65 = ResetCycle(1) /\ low = RomVector.lo
  /\ asked = NoJump /\ landed = [at |-> RomVector, asked |-> NoJump]

ResetKey == soft_reset' \in BOOLEAN

(* The monitor takes the CPU at any time.  G pulses the request for one     *)
(* clock, if it has an address, sends its message and releases the CPU; the *)
(* message takes longer than the reset pulse.                              *)
GoOutlastsPulse == mon_jump_reset_cnt = 0

MonitorEnters   == /\ monitor = "off" /\ jump_req' = NoJump
                   /\ monitor' = "active"
MonitorGoes     == /\ monitor = "active" /\ jump_req' \in Vector \cup {NoJump}
                   /\ monitor' = "leaving"
MonitorReleases == /\ monitor = "leaving" /\ jump_req = NoJump /\ GoOutlastsPulse
                   /\ monitor' = "off" /\ jump_req' = NoJump
MonitorRests    == UNCHANGED monitor /\ jump_req' = NoJump

MonitorClock == MonitorEnters \/ MonitorGoes \/ MonitorReleases \/ MonitorRests

\* The definitions named Name_Bug are variants with a plausible bug, which the
\* mutants of the properties put in the place of Name.

(* The jump process: reset pulse, then the override until the T65 drives   *)
(* the address of the vector's high byte.                                  *)
JumpStarts     == /\ jump_req # NoJump
                  /\ mon_jump_vector' = jump_req
                  /\ mon_jump_reset_cnt' = ResetClocks
                  /\ mon_jump_vector_active' = TRUE
JumpResets     == /\ jump_req = NoJump /\ mon_jump_reset_cnt > 0
                  /\ mon_jump_reset_cnt' = mon_jump_reset_cnt - 1
                  /\ UNCHANGED <<mon_jump_vector, mon_jump_vector_active>>

VectorPassed_Early == t65.addr = "FFFC" /\ ~t65.sync
VectorPassed       == t65.addr = "FFFD" /\ ~t65.sync

JumpEnds       == /\ jump_req = NoJump /\ mon_jump_reset_cnt = 0
                  /\ mon_jump_vector_active /\ VectorPassed
                  /\ mon_jump_vector_active' = FALSE
                  /\ UNCHANGED <<mon_jump_vector, mon_jump_reset_cnt>>
JumpWaits      == /\ jump_req = NoJump /\ mon_jump_reset_cnt = 0
                  /\ ~(mon_jump_vector_active /\ VectorPassed)
                  /\ UNCHANGED <<mon_jump_vector, mon_jump_reset_cnt,
                                 mon_jump_vector_active>>

JumpClock == JumpStarts \/ JumpResets \/ JumpEnds \/ JumpWaits

EnableClock_WaitsForRom ==
  cpu_enable' = (~cpu_reset /\ ~monitor_hold /\ ~mon_jump_vector_active /\ ~cpu_enable)
EnableClock == cpu_enable' = (~cpu_reset /\ ~monitor_hold /\ ~cpu_enable)

(* The T65.  RDY is low while the monitor holds the CPU, and for a while    *)
(* whenever the VIC or another memory stalls a cycle.                      *)
T65Reset    == /\ cpu_reset \/ cpu_reset'
               /\ t65' = ResetCycle(1) /\ UNCHANGED low
T65Advances == /\ ~cpu_reset /\ ~cpu_reset'
               /\ cpu_enable /\ ~monitor_hold
               /\ IF t65.seq \in 1 .. 5 THEN t65' = ResetCycle(t65.seq + 1)
                                        ELSE t65' \in ProgramCycle
               /\ low' = IF t65.seq = 5 THEN cpu_din("lo") ELSE low
T65Waits    == /\ ~cpu_reset /\ ~cpu_reset'
               /\ UNCHANGED <<t65, low>>

T65Clock == T65Reset \/ T65Advances \/ T65Waits

(* History.  The T65 restarts when it leaves cycle 6.  A reset after the   *)
(* override has gone is a plain one and cancels the jump.                  *)
Restarts == t65.seq = 6 /\ t65'.seq = 0

HistoryClock ==
  /\ landed' = IF Restarts
               THEN [at |-> [hi |-> cpu_din("hi"), lo |-> low], asked |-> asked]
               ELSE landed
  /\ asked' = CASE jump_req # NoJump -> jump_req
                [] jump_req = NoJump /\ (Restarts \/ (cpu_reset' /\ ~mon_jump_vector_active'))
                                     -> NoJump
                [] OTHER             -> asked

JumpNext == /\ ResetKey /\ MonitorClock /\ JumpClock /\ EnableClock /\ T65Clock
            /\ HistoryClock

\* The clock ticks whether or not somebody presses a key or enters the monitor,
\* and the stalls leave the T65 cycles.
ClockTicks == JumpNext /\ UNCHANGED soft_reset /\ ~MonitorEnters

JumpSpec     == JumpInit /\ [][JumpNext]_jump_vars
JumpFairSpec == JumpSpec /\ WF_jump_vars(ClockTicks) /\ SF_jump_vars(ClockTicks /\ T65Advances)

----------------------------------------------------------------------------
JumpTypeOK ==
  /\ soft_reset \in BOOLEAN /\ monitor \in {"off", "active", "leaving"} /\ cpu_enable \in BOOLEAN
  /\ jump_req \in Vector \cup {NoJump}
  /\ mon_jump_vector \in Vector /\ mon_jump_reset_cnt \in 0 .. ResetClocks
  /\ mon_jump_vector_active \in BOOLEAN
  /\ t65 \in {ResetCycle(n) : n \in 1 .. 6} \cup ProgramCycle
  /\ low \in Halves /\ asked \in Vector \cup {NoJump}
  /\ landed \in [at : Vector, asked : Vector \cup {NoJump}]

\* A running program never reads the override: when the reset sequence is over,
\* the vector at $FFFC belongs to the ROM again, whatever resets, holds and
\* stalls came in between.
OverrideGone ==
  t65.seq = 0 => ~mon_jump_vector_active

\* A restart no jump asked for goes where the ROM's vector points.
PlainRestart == landed.asked = NoJump => landed.at = RomVector

\* The low byte of a jump always reaches the T65.
LowByteLands == landed.asked # NoJump => landed.at.lo = landed.asked.lo

\* Where a restart goes: a jump changes one reset sequence only.  No program and
\* no later restart reads the override, and the jump's low byte is never lost.
RestartsRight == OverrideGone /\ PlainRestart /\ LowByteLands

\* Once the monitor has let go, a jump restarts the T65, unless the reset key or
\* another monitor session comes first.
JumpServed ==
  asked # NoJump /\ ~monitor_hold ~> (asked = NoJump \/ soft_reset \/ monitor_hold)

\* docs/UART_MONITOR.md on G: "With an address, the reset vector is overridden
\* briefly and the CPU is restarted there."
JumpLands == landed.asked # NoJump => landed.at = landed.asked
=============================================================================
