------------------------------ MODULE BytePort ------------------------------
(***************************************************************************)
(* The byte port between the core and a memory with a request/acknowledge  *)
(* backend of unbounded latency: sram_acc_ctrl for the external main RAM   *)
(* ($4000-$5FFF) and its twin fbw_acc_ctrl for the framebuffer window      *)
(* ($6000-$7FFF).  CPU writes are captured in a one-deep latch and drained *)
(* with priority, CPU reads and monitor accesses wait for the acknowledge. *)
(*                                                                         *)
(* One step is one rising edge of clk, Next the conjunction of the clocked *)
(* processes.  The two controllers differ in this: on a write that         *)
(* finds the latch taken, sram_acc_ctrl raises sram_wr_overflow and keeps  *)
(* the old write, fbw_acc_ctrl overwrites it; and the monitor skips a      *)
(* state after a framebuffer write.  (fbw_acc_ctrl also registers the byte *)
(* answered, which stays at its input as long as the register's copy is    *)
(* of use.)  The names are the first's.                                    *)
(***************************************************************************)
CONSTANTS
  Cell, Byte,    \* the locations behind the port and their values
  Blank,         \* what they hold at power-up
  Elsewhere,     \* a CPU address outside the window
  None,          \* no write, no request, no access
  Framebuffer    \* TRUE for fbw_acc_ctrl, FALSE for sram_acc_ctrl

Write   == [addr : Cell, data : Byte]
Request == [op : {"read", "write"}, addr : Cell, data : Byte]

ASSUME PortAssumption == /\ Blank \in Byte /\ Framebuffer \in BOOLEAN
                         /\ Elsewhere \notin Cell
                         /\ None \notin Write \cup Request

VARIABLES
  cpu_reset, cpu_enable, cpu, monitor_hold, mon,   \* as in VramSteal
  sram_busy,         \* a request is out, its acknowledge awaited
  sram_complete,     \* the read or monitor access asked for is done
  serving_mon, serving_write,
  sram_rd_addr,      \* the address of the CPU read served
  sram_wr,           \* sram_wr_pending/_addr/_data: the write to drain, or None
  sram_wr_overflow,
  ext_req,           \* sram_ext_req with its payload, or None
  ext_ack, ext_dout, \* the backend's answer
  backend,           \* the request the backend works on, or None
  ram,               \* what the backend stores
  cpu_last, mon_last \* history: the last access the T65, the monitor finished

clients == <<cpu_reset, cpu_enable, cpu, monitor_hold, mon>>
flags   == <<sram_busy, sram_complete, serving_mon, serving_write, sram_rd_addr>>
memory  == <<ext_ack, ext_dout, backend, ram>>
vars    == <<clients, flags, sram_wr, sram_wr_overflow, ext_req, memory,
             cpu_last, mon_last>>

----------------------------------------------------------------------------
(* The signals between the processes.                                      *)

BusCycle == [op : {"read"}, addr : Cell \cup {Elsewhere}] \cup
            [op : {"write"}, addr : Cell \cup {Elsewhere}, data : Byte]
ElsewhereRead == [op |-> "read", addr |-> Elsewhere]

MonIdle == [st |-> "M_IDLE"]
MonBusy == [st : {"M_SRAM_WAIT", "M_SRAM_READY", "M_READY"},
            op : {"read", "write"}, addr : Cell, data : Byte]
PortRead  == cpu.op = "read"  /\ cpu.addr \in Cell
PortWrite == cpu.op = "write" /\ cpu.addr \in Cell

cpu_rd_acc    == PortRead /\ ~monitor_hold
cpu_wr_strobe == PortWrite /\ ~cpu_enable /\ ~monitor_hold
mon_acc       == monitor_hold /\ mon.st = "M_SRAM_WAIT"

\* The definitions named Name_Bug are variants with a plausible bug, which the
\* mutants of the properties put in the place of Name.
sram_stall_ReadsOnly == cpu_rd_acc /\ ~sram_complete
sram_stall == \/ cpu_rd_acc /\ ~sram_complete
              \/ sram_wr # None
              \/ sram_busy

T65Latches == cpu_enable /\ (cpu.op = "read" => ~sram_stall /\ ~monitor_hold)

----------------------------------------------------------------------------
Init ==
  /\ cpu_reset = TRUE /\ cpu_enable = FALSE /\ cpu = ElsewhereRead
  /\ monitor_hold = FALSE /\ mon = MonIdle
  /\ sram_busy = FALSE /\ sram_complete = FALSE
  /\ serving_mon = FALSE /\ serving_write = FALSE /\ sram_rd_addr \in Cell
  /\ sram_wr = None /\ sram_wr_overflow = FALSE
  /\ ext_req = None /\ ext_ack = FALSE /\ ext_dout = Blank /\ backend = None
  /\ ram = [c \in Cell |-> Blank]
  /\ cpu_last = None /\ mon_last = None

ResetLine == cpu_reset' \in BOOLEAN

EnableClock ==
  \/ (cpu_reset \/ monitor_hold)  /\ cpu_enable' = FALSE
  \/ ~(cpu_reset \/ monitor_hold) /\ cpu_enable' = ~cpu_enable

(* The T65: after a write to the window comes the fetch of an opcode, which *)
(* may itself come out of the window.                                      *)
MayFollow(c, d) == c.op = "write" /\ c.addr \in Cell => d.op = "read"

\* A write whose strobe was up is done, even if the T65 is reset out of it.
T65Reset     == /\ cpu_reset \/ cpu_reset'
                /\ cpu' = ElsewhereRead
                /\ cpu_last' = IF PortWrite /\ (cpu_enable \/ cpu_wr_strobe)
                               THEN cpu ELSE cpu_last
T65NextCycle == /\ ~cpu_reset /\ ~cpu_reset'
                /\ T65Latches
                /\ cpu' \in {d \in BusCycle : MayFollow(cpu, d)}
                /\ cpu_last' = CASE PortWrite -> cpu
                                 [] PortRead  -> [op |-> "read", addr |-> cpu.addr, data |-> ext_dout]
                                 [] OTHER     -> cpu_last
\* Other memories and the VIC may stall any read.
T65Waits     == /\ ~cpu_reset /\ ~cpu_reset'
                /\ ~T65Latches \/ cpu.op = "read"
                /\ UNCHANGED <<cpu, cpu_last>>

CpuClock == T65Reset \/ T65NextCycle \/ T65Waits

(* The write latch.  The drain's acknowledge wins over a capture: it is the *)
(* later assignment of the process.                                        *)
Drained_ByRead == sram_busy /\ ext_ack /\ ~serving_write

Drained  == sram_busy /\ ext_ack /\ serving_write
Captures == cpu_wr_strobe /\ (sram_wr = None \/ Framebuffer)

LatchClears   == Drained /\ sram_wr' = None
LatchCaptures == /\ ~Drained /\ Captures
                 /\ sram_wr' = [addr |-> cpu.addr, data |-> cpu.data]
LatchKeeps    == ~Drained /\ ~Captures /\ sram_wr' = sram_wr

LatchClock ==
  /\ LatchClears \/ LatchCaptures \/ LatchKeeps
  /\ sram_wr_overflow' = (sram_wr_overflow \/
                            (cpu_wr_strobe /\ sram_wr # None /\ ~Framebuffer))

(* The access controller.                                                  *)

Idle == ~sram_busy /\ ~sram_complete

IssueDrain == /\ Idle /\ sram_wr # None
              /\ ext_req' = [op |-> "write", addr |-> sram_wr.addr, data |-> sram_wr.data]
              /\ sram_busy' = TRUE /\ serving_mon' = FALSE /\ serving_write' = TRUE
              /\ UNCHANGED <<sram_complete, sram_rd_addr>>
IssueRead  == /\ Idle /\ sram_wr = None /\ cpu_rd_acc
              /\ ext_req' = [op |-> "read", addr |-> cpu.addr, data |-> Blank]
              /\ sram_rd_addr' = cpu.addr
              /\ sram_busy' = TRUE /\ serving_mon' = FALSE /\ serving_write' = FALSE
              /\ UNCHANGED sram_complete
IssueMon   == /\ Idle /\ sram_wr = None /\ ~cpu_rd_acc /\ mon_acc
              /\ ext_req' = [op |-> mon.op, addr |-> mon.addr, data |-> mon.data]
              /\ sram_busy' = TRUE /\ serving_mon' = TRUE /\ serving_write' = FALSE
              /\ UNCHANGED <<sram_complete, sram_rd_addr>>
IssueNone  == /\ Idle /\ sram_wr = None /\ ~cpu_rd_acc /\ ~mon_acc
              /\ ext_req' = None
              /\ UNCHANGED flags

Answered   == /\ sram_busy /\ ext_ack
              /\ sram_busy' = FALSE
              /\ sram_complete' = (sram_complete \/ ~serving_write)
              /\ ext_req' = None
              /\ UNCHANGED <<serving_mon, serving_write, sram_rd_addr>>
Awaits     == /\ sram_busy /\ ~ext_ack
              /\ ext_req' = None
              /\ UNCHANGED flags

MovedOn_SameRead == IF serving_mon THEN ~mon_acc ELSE ~cpu_rd_acc

MovedOn    == IF serving_mon THEN ~mon_acc
                             ELSE ~cpu_rd_acc \/ cpu.addr # sram_rd_addr
Release    == /\ ~sram_busy /\ sram_complete /\ MovedOn
              /\ sram_complete' = FALSE /\ serving_mon' = FALSE
              /\ ext_req' = None
              /\ UNCHANGED <<sram_busy, serving_write, sram_rd_addr>>
StayDone   == /\ ~sram_busy /\ sram_complete /\ ~MovedOn
              /\ ext_req' = None
              /\ UNCHANGED flags

PortClock == \/ IssueDrain \/ IssueRead \/ IssueMon \/ IssueNone
             \/ Answered \/ Awaits \/ Release \/ StayDone

(* The backend takes a request, performs it in that clock or any later one *)
(* and pulses the acknowledge; the byte read stays until the next answer.  *)
(* A request that comes while it works is not seen.                        *)
job == IF backend # None THEN backend ELSE ext_req

BackendRests    == /\ job = None
                   /\ ext_ack' = FALSE /\ UNCHANGED <<ext_dout, ram, backend>>
BackendWorks    == /\ job # None
                   /\ backend' = job
                   /\ ext_ack' = FALSE /\ UNCHANGED <<ext_dout, ram>>
BackendPerforms == /\ job # None
                   /\ backend' = None /\ ext_ack' = TRUE
                   /\ \/ /\ job.op = "write"
                         /\ ram' = [ram EXCEPT ![job.addr] = job.data]
                         /\ ext_dout' \in Byte
                      \/ /\ job.op = "read"
                         /\ ext_dout' = ram[job.addr]
                         /\ UNCHANGED ram

BackendClock == BackendRests \/ BackendWorks \/ BackendPerforms

(* The monitor's memory FSM, as far as it accesses the window.  Its first   *)
(* request follows a banner of sixteen characters on the UART, so the CPU   *)
(* access that hold interrupted is over by then.                           *)
BannerOutlastsPort == Idle /\ sram_wr = None

MonRests    == mon.st = "M_IDLE" /\ mon' = mon
MonRequests == /\ mon.st = "M_IDLE" /\ monitor_hold /\ BannerOutlastsPort
               /\ \/ \E a \in Cell :
                       mon' = [st |-> "M_SRAM_WAIT", op |-> "read", addr |-> a, data |-> Blank]
                  \/ \E w \in Write :
                       mon' = [st |-> "M_SRAM_WAIT", op |-> "write",
                               addr |-> w.addr, data |-> w.data]
MonWaits    == mon.st = "M_SRAM_WAIT" /\ ~sram_complete /\ mon' = mon
MonDone_Early == mon.st = "M_SRAM_WAIT" /\ mon' = [mon EXCEPT !.st = "M_SRAM_READY"]
MonDone     == /\ mon.st = "M_SRAM_WAIT" /\ sram_complete
               /\ mon' = [mon EXCEPT !.st = IF Framebuffer /\ mon.op = "write"
                                            THEN "M_READY" ELSE "M_SRAM_READY"]
MonTakes    == /\ mon.st = "M_SRAM_READY"
               /\ mon' = [mon EXCEPT !.st = "M_READY",
                                     !.data = IF mon.op = "read" THEN ext_dout ELSE @]
MonReady    == mon.st = "M_READY" /\ mon' = MonIdle

MonClock == MonRests \/ MonRequests \/ MonWaits \/ MonDone \/ MonTakes \/ MonReady

HoldRises == ~monitor_hold /\ monitor_hold' = TRUE
HoldLasts == monitor_hold' = monitor_hold
HoldFalls == /\ monitor_hold /\ monitor_hold' = FALSE
             /\ mon = MonIdle /\ mon' = MonIdle

HoldLine == HoldRises \/ HoldLasts \/ HoldFalls

(* History.  The monitor has read when it takes the byte and written when  *)
(* the backend performs its write.                                         *)
MonReads  == mon.st = "M_SRAM_READY" /\ mon.op = "read"
MonWrites == job # None /\ ext_ack' /\ serving_mon /\ job.op = "write"

MonHistory ==
  mon_last' = CASE MonReads  -> [op |-> "read", addr |-> mon.addr, data |-> ext_dout]
                [] MonWrites -> job
                [] OTHER     -> mon_last

Next == /\ ResetLine /\ EnableClock /\ CpuClock /\ LatchClock /\ PortClock
        /\ BackendClock /\ MonClock /\ HoldLine /\ MonHistory

Spec == Init /\ [][Next]_vars

\* The clock ticks and the backend answers, whatever the reset key and the
\* monitor do.
ClockTicks == Next /\ UNCHANGED <<cpu_reset, monitor_hold>>
FairSpec   == Spec /\ WF_vars(ClockTicks) /\ WF_vars(ClockTicks /\ BackendPerforms)

----------------------------------------------------------------------------
TypeOK ==
  /\ cpu_reset \in BOOLEAN /\ cpu_enable \in BOOLEAN /\ cpu \in BusCycle
  /\ monitor_hold \in BOOLEAN /\ mon \in MonBusy \cup {MonIdle}
  /\ sram_busy \in BOOLEAN /\ sram_complete \in BOOLEAN
  /\ serving_mon \in BOOLEAN /\ serving_write \in BOOLEAN /\ sram_rd_addr \in Cell
  /\ sram_wr \in Write \cup {None} /\ sram_wr_overflow \in BOOLEAN
  /\ ext_req \in Request \cup {None} /\ backend \in Request \cup {None}
  /\ ext_ack \in BOOLEAN /\ ext_dout \in Byte /\ ram \in [Cell -> Byte]
  /\ cpu_last \in Request \cup {None} /\ mon_last \in Request \cup {None}

\* A CPU write finds the latch free and no acknowledge about to clear it, so
\* that sram_wr_overflow is never raised and the framebuffer's latch never
\* overwritten, although the strobe ignores RDY.
LatchFree == (cpu_wr_strobe => sram_wr = None /\ ~Drained) /\ ~sram_wr_overflow

\* A request reaches an idle backend: none is lost.
OneInFlight == ext_req # None => backend = None

\* A monitor write the FSM reports done is in the memory, not queued behind a
\* completion that belonged to somebody else.
MonWriteDone ==
  mon.st \in {"M_SRAM_READY", "M_READY"} /\ mon.op = "write" =>
    ram[mon.addr] = mon.data

\* No write is lost: neither one of the CPU, which does not wait for the port,
\* nor one of the monitor, which believes the completion it sees.
NoWriteLost == LatchFree /\ MonWriteDone

\* The port is a memory with atomic accesses: a CPU write happens when the T65
\* leaves the write cycle, a read when it latches the byte, whatever latency,
\* stalls, resets and holds there are.
mem == IF sram_wr # None /\ ~(PortWrite /\ cpu_enable)
       THEN [ram EXCEPT ![sram_wr.addr] = sram_wr.data] ELSE ram
Memory == INSTANCE ByteMemory
            WITH NoAccess <- None, cpuLast <- cpu_last, monLast <- mon_last
Implements == Memory!Spec

\* A captured write drains, also while the CPU is held or reset.
WriteDrains == sram_wr # None ~> sram_wr = None

\* A CPU read is completed, unless the CPU is held or reset meanwhile.
ReadCompletes == cpu_rd_acc ~> (cpu_rd_acc => sram_complete)

\* So is an access of the monitor.
MonitorServed == mon.st = "M_SRAM_WAIT" ~> mon.st # "M_SRAM_WAIT"

\* Every access of either master comes to an end, whoever the backend serves in
\* between.
AccessesEnd == WriteDrains /\ ReadCompletes /\ MonitorServed
=============================================================================
