--------------------------- MODULE BytePortProofs ---------------------------
(***************************************************************************)
(* The byte port, in either of its two forms, is safe and implements the   *)
(* memory of ByteMemory, for every set of cells and bytes and any latency  *)
(* of the backend.                                                         *)
(***************************************************************************)
EXTENDS BytePort, TLAPS

\* The request the controller is serving, or has served.
wanted == CASE serving_write -> [op |-> "write", addr |-> sram_wr.addr, data |-> sram_wr.data]
            [] ~serving_write /\ serving_mon
                             -> [op |-> mon.op, addr |-> mon.addr, data |-> mon.data]
            [] OTHER         -> [op |-> "read", addr |-> sram_rd_addr, data |-> Blank]

\* A request is on its way to the backend, in work there, or just answered,
\* exactly while the controller is busy.
InFlight ==
  /\ ~sram_busy => ext_req = None /\ backend = None /\ ~ext_ack
  /\ sram_busy => \/ ext_req # None /\ backend = None /\ ~ext_ack
                  \/ ext_req = None /\ backend # None /\ ~ext_ack
                  \/ ext_req = None /\ backend = None /\ ext_ack
  /\ job # None => job = wanted

\* The answer is the memory's as long as the completion is shown.
Performed ==
  (sram_busy /\ ext_ack) \/ sram_complete =>
    IF wanted.op = "write" THEN ram[wanted.addr] = wanted.data
                           ELSE ext_dout = ram[wanted.addr]

\* Whose access is served.
ServesWhileBusy ==
  sram_busy =>
    /\ ~sram_complete
    /\ serving_write <=> sram_wr # None
    /\ serving_mon  => ~serving_write /\ mon.st = "M_SRAM_WAIT"
    /\ ~serving_mon => /\ cpu.op = "read" /\ mon = MonIdle
                       /\ PortRead /\ ~serving_write => cpu.addr = sram_rd_addr
ServesWhileDone ==
  sram_complete =>
    /\ sram_wr = None /\ ~serving_write
    /\ serving_mon  => \/ mon.st \in {"M_SRAM_WAIT", "M_SRAM_READY"}
                       \/ mon.st = "M_READY" /\ mon.op = "write"
    /\ ~serving_mon => /\ mon = MonIdle
                       /\ cpu_enable /\ cpu_rd_acc => cpu.addr = sram_rd_addr

\* The monitor works alone.
MonitorAlone == mon # MonIdle => monitor_hold /\ ~cpu_enable /\ sram_wr = None
MonitorShown == mon.st = "M_SRAM_READY" => sram_complete /\ serving_mon

\* In the second clock of a write the latch holds it; else, if the latch holds
\* one, the T65 waits in a read.
LatchOwner ==
  /\ sram_wr # None /\ cpu.op = "write" =>
       /\ PortWrite /\ cpu_enable
       /\ sram_wr = [addr |-> cpu.addr, data |-> cpu.data]
  /\ PortWrite /\ cpu_enable => sram_wr # None

ResetQuiet == cpu_reset => cpu = ElsewhereRead

IInv == /\ TypeOK /\ InFlight /\ Performed /\ ServesWhileBusy /\ ServesWhileDone
        /\ MonitorAlone /\ MonitorShown /\ LatchOwner /\ ResetQuiet
        /\ LatchFree /\ MonWriteDone

USE PortAssumption

----------------------------------------------------------------------------
LEMMA MonStates ==
  ASSUME TypeOK
  PROVE  /\ mon # MonIdle <=> mon \in MonBusy
         /\ mon # MonIdle <=> mon.st \in {"M_SRAM_WAIT", "M_SRAM_READY", "M_READY"}
         /\ mon.st = "M_IDLE" <=> mon = MonIdle
BY DEF TypeOK, MonIdle, MonBusy

LEMMA WantedType ==
  ASSUME TypeOK, serving_write => sram_wr # None, serving_mon => mon # MonIdle
  PROVE  wanted \in Request
<1>1. CASE serving_write
  <2>1. sram_wr \in Write
    BY <1>1 DEF TypeOK
  <2> QED
    BY <1>1, <2>1 DEF wanted, Request, Write
<1>2. CASE ~serving_write /\ serving_mon
  <2>1. mon \in MonBusy
    BY <1>2 DEF TypeOK
  <2> QED
    BY <1>2, <2>1 DEF wanted, Request, MonBusy
<1>3. CASE ~serving_write /\ ~serving_mon
  BY <1>3 DEF wanted, Request, TypeOK
<1> QED
  BY <1>1, <1>2, <1>3

LEMMA TypeStep ==
  ASSUME TypeOK, Next
  PROVE  TypeOK'
<1>1. /\ cpu_reset' \in BOOLEAN /\ cpu_enable' \in BOOLEAN
      /\ monitor_hold' \in BOOLEAN
  BY DEF Next, ResetLine, EnableClock, HoldLine, HoldRises, HoldLasts, HoldFalls,
         TypeOK
<1>2. cpu' \in BusCycle
  BY DEF Next, CpuClock, T65Reset, T65NextCycle, T65Waits, ElsewhereRead, BusCycle,
         TypeOK
<1>3. mon' \in MonBusy \cup {MonIdle}
  <2>1. CASE MonRests \/ MonWaits \/ MonReady
    BY <2>1 DEF MonRests, MonWaits, MonReady, TypeOK
  <2>2. CASE MonRequests
    BY <2>2 DEF MonRequests, MonBusy, Write
  <2>3. CASE MonDone \/ MonTakes
    <3>1. mon \in MonBusy
      BY <2>3, MonStates DEF MonDone, MonTakes, MonIdle
    <3> QED
      BY <2>3, <3>1 DEF MonDone, MonTakes, MonBusy, TypeOK
  <2> QED
    BY <2>1, <2>2, <2>3 DEF Next, MonClock
<1>4. cpu.op = "write" /\ cpu.addr \in Cell => cpu \in Request
  BY DEF TypeOK, BusCycle, Request
<1>5. sram_wr' \in Write \cup {None} /\ sram_wr_overflow' \in BOOLEAN
  <2>1. cpu_wr_strobe => [addr |-> cpu.addr, data |-> cpu.data] \in Write
    BY <1>4 DEF cpu_wr_strobe, PortWrite, Request, Write
  <2> QED
    BY <2>1 DEF Next, LatchClock, LatchClears, LatchCaptures, LatchKeeps, Captures, TypeOK
<1>6. /\ sram_busy' \in BOOLEAN /\ sram_complete' \in BOOLEAN
      /\ serving_mon' \in BOOLEAN /\ serving_write' \in BOOLEAN
      /\ sram_rd_addr' \in Cell
  BY DEF Next, PortClock, IssueDrain, IssueRead, IssueMon, IssueNone, Answered, Awaits,
         Release, StayDone, flags, cpu_rd_acc, PortRead, TypeOK
<1>7. ext_req' \in Request \cup {None}
  <2>1. sram_wr # None => [op |-> "write", addr |-> sram_wr.addr, data |-> sram_wr.data] \in Request
    BY DEF TypeOK, Write, Request
  <2>2. cpu.addr \in Cell => [op |-> "read", addr |-> cpu.addr, data |-> Blank] \in Request
    BY DEF Request
  <2>3. mon_acc => [op |-> mon.op, addr |-> mon.addr, data |-> mon.data] \in Request
    <3>1. mon_acc => mon \in MonBusy
      BY MonStates DEF mon_acc
    <3> QED
      BY <3>1 DEF MonBusy, Request
  <2> QED
    BY <2>1, <2>2, <2>3 DEF Next, PortClock, IssueDrain, IssueRead, IssueMon, IssueNone,
       Answered, Awaits, Release, StayDone, cpu_rd_acc, PortRead
<1>8. job \in Request \cup {None}
  BY DEF job, TypeOK
<1>9. /\ backend' \in Request \cup {None} /\ ext_ack' \in BOOLEAN
      /\ ext_dout' \in Byte /\ ram' \in [Cell -> Byte]
  BY <1>8 DEF Next, BackendClock, BackendRests, BackendWorks, BackendPerforms, Request,
              TypeOK
<1>10. cpu_last' \in Request \cup {None}
  <2>1. PortRead => [op |-> "read", addr |-> cpu.addr, data |-> ext_dout] \in Request
    BY DEF PortRead, Request, TypeOK
  <2> QED
    BY <1>4, <2>1 DEF Next, CpuClock, T65Reset, T65NextCycle, T65Waits, PortWrite, TypeOK
<1>11. mon_last' \in Request \cup {None}
  <2>1. MonReads => mon \in MonBusy
    BY MonStates DEF MonReads
  <2>2. MonReads => [op |-> "read", addr |-> mon.addr, data |-> ext_dout] \in Request
    BY <2>1 DEF MonBusy, Request, TypeOK
  <2>3. MonWrites => job \in Request
    BY <1>8 DEF MonWrites
  <2> QED
    BY <2>2, <2>3 DEF Next, MonHistory, TypeOK
<1> QED
  BY <1>1, <1>2, <1>3, <1>5, <1>6, <1>7, <1>9, <1>10, <1>11 DEF TypeOK

----------------------------------------------------------------------------
(* The T65 moves on, and stores, only when the port is at rest.            *)

LEMMA StrobeMeetsRest ==
  ASSUME IInv, cpu_wr_strobe
  PROVE  ~sram_busy /\ sram_wr = None /\ mon = MonIdle /\ ~cpu_reset
<1>1. cpu.op = "write" /\ ~cpu_enable /\ ~monitor_hold
  BY DEF cpu_wr_strobe, PortWrite
<1>2. sram_wr = None /\ mon = MonIdle
  BY <1>1 DEF IInv, LatchOwner, MonitorAlone
<1>3. ~sram_busy
  BY <1>1, <1>2 DEF IInv, ServesWhileBusy, MonIdle
<1> QED
  BY <1>1, <1>2, <1>3 DEF IInv, ResetQuiet, ElsewhereRead

LEMMA LatchingMeetsRest ==
  ASSUME IInv, T65Latches
  PROVE  /\ cpu_enable /\ ~sram_busy /\ mon = MonIdle
         /\ cpu.op = "read" => sram_wr = None /\ ~monitor_hold
         /\ PortRead => sram_complete /\ cpu.addr = sram_rd_addr
<1>1. cpu_enable /\ mon = MonIdle
  BY DEF T65Latches, IInv, MonitorAlone
<1>2. cpu.op = "read" => sram_wr = None /\ ~monitor_hold /\ ~sram_busy
  BY DEF T65Latches, sram_stall
<1>3. cpu.op # "read" => ~sram_busy
  BY <1>1 DEF IInv, ServesWhileBusy, MonIdle
<1>4. PortRead => cpu_rd_acc /\ sram_complete
  BY <1>2 DEF T65Latches, sram_stall, cpu_rd_acc, PortRead
<1>5. PortRead => cpu.addr = sram_rd_addr
  BY <1>1, <1>4 DEF IInv, ServesWhileDone, MonIdle
<1> QED
  BY <1>1, <1>2, <1>3, <1>4, <1>5

\* So nothing the port serves is disturbed: the latch keeps its write until the
\* acknowledge of the drain, the CPU stays in its read or is reset out of it.
LEMMA LatchSteady ==
  ASSUME IInv, Next
  PROVE  /\ cpu_wr_strobe => sram_wr' = [addr |-> cpu.addr, data |-> cpu.data]
         /\ ~cpu_wr_strobe => sram_wr' = IF sram_busy /\ ext_ack /\ serving_write
                                         THEN None ELSE sram_wr
<1>1. CASE cpu_wr_strobe
  <2>1. ~Drained /\ Captures
    BY <1>1, StrobeMeetsRest DEF Drained, Captures
  <2> QED
    BY <1>1, <2>1 DEF Next, LatchClock, LatchClears, LatchCaptures, LatchKeeps
<1>2. CASE ~cpu_wr_strobe
  BY <1>2 DEF Next, LatchClock, LatchClears, LatchCaptures, LatchKeeps, Drained, Captures
<1> QED
  BY <1>1, <1>2

LEMMA CpuSteady ==
  ASSUME IInv, Next
  PROVE  \/ cpu' = cpu
         \/ cpu' = ElsewhereRead
         \/ T65Latches /\ cpu_enable /\ ~cpu_enable' /\ MayFollow(cpu, cpu')
<1>1. T65NextCycle => ~cpu_enable'
  BY DEF Next, EnableClock, T65NextCycle, T65Latches
<1> QED
  BY <1>1 DEF Next, CpuClock, T65Reset, T65NextCycle, T65Waits, T65Latches

LEMMA StalledRead ==
  ASSUME IInv, Next, cpu.op = "read", sram_stall \/ ~cpu_enable
  PROVE  cpu' = cpu \/ cpu' = ElsewhereRead
BY CpuSteady DEF T65Latches

LEMMA MonSteady ==
  ASSUME IInv, Next
  PROVE  /\ mon.st = "M_SRAM_WAIT" /\ ~sram_complete => mon' = mon
         /\ mon = MonIdle /\ (~monitor_hold \/ sram_busy \/ sram_wr # None) => mon' = MonIdle
         /\ mon # MonIdle \/ mon' # MonIdle =>
              monitor_hold /\ monitor_hold' /\ ~cpu_enable' /\ sram_wr = None /\ sram_wr' = None
<1>1. mon.st = "M_SRAM_WAIT" /\ ~sram_complete => mon' = mon
  BY DEF Next, MonClock, MonRests, MonRequests, MonWaits, MonDone, MonTakes, MonReady
<1>2. mon = MonIdle => mon' = MonIdle \/ MonRequests
  BY DEF Next, MonClock, MonRests, MonRequests, MonWaits, MonDone, MonTakes, MonReady,
         MonIdle
<1>3. mon # MonIdle \/ mon' # MonIdle => monitor_hold /\ sram_wr = None
  BY <1>2 DEF MonRequests, BannerOutlastsPort, IInv, MonitorAlone
<1>4. mon # MonIdle \/ mon' # MonIdle => monitor_hold' /\ ~cpu_enable' /\ ~cpu_wr_strobe
  BY <1>3 DEF Next, HoldLine, HoldRises, HoldLasts, HoldFalls, EnableClock, cpu_wr_strobe
<1> QED
  BY <1>1, <1>2, <1>3, <1>4, LatchSteady DEF MonRequests, BannerOutlastsPort, Idle

LEMMA BackendSteady ==
  ASSUME IInv, Next, ~sram_busy \/ ext_ack
  PROVE  job = None /\ ram' = ram /\ ext_dout' = ext_dout /\ ~ext_ack' /\ backend' = None
<1>1. job = None
  BY DEF IInv, InFlight, job
<1>2. BackendRests
  BY <1>1 DEF Next, BackendClock, BackendWorks, BackendPerforms
<1> QED
  BY <1>1, <1>2 DEF BackendRests, IInv, InFlight, job

\* What the controller serves stays what it is until it has moved on.
LEMMA WantedSteady ==
  ASSUME IInv, Next, Awaits \/ (Answered /\ ~serving_write) \/ StayDone
  PROVE  wanted' = wanted
<1>1. serving_write' = serving_write /\ serving_mon' = serving_mon
      /\ sram_rd_addr' = sram_rd_addr
  BY DEF Awaits, Answered, StayDone, flags
<1>2. CASE serving_write
  <2>1. sram_busy /\ ~ext_ack
    BY <1>2 DEF Awaits, Answered, StayDone, IInv, ServesWhileDone
  <2>2. sram_wr' = sram_wr
    BY <2>1, LatchSteady, StrobeMeetsRest
  <2> QED
    BY <1>1, <1>2, <2>2 DEF wanted
<1>3. CASE ~serving_write /\ serving_mon
  <2>1. mon'.op = mon.op /\ mon'.addr = mon.addr /\ mon'.data = mon.data
    <3>1. CASE sram_busy
      BY <1>3, <3>1, MonSteady DEF IInv, ServesWhileBusy
    <3>2. CASE ~sram_busy
      <4>1. mon.st = "M_SRAM_WAIT" /\ sram_complete
        BY <1>3, <3>2 DEF Awaits, Answered, StayDone, MovedOn, mon_acc
      <4>2. mon \in MonBusy
        BY <4>1, MonStates DEF IInv
      <4> QED
        BY <4>1, <4>2 DEF MonBusy, Next, MonClock, MonRests, MonRequests, MonWaits, MonDone,
             MonTakes, MonReady
    <3> QED
      BY <3>1, <3>2
  <2> QED
    BY <1>1, <1>3, <2>1 DEF wanted
<1>4. CASE ~serving_write /\ ~serving_mon
  BY <1>1, <1>4 DEF wanted
<1> QED
  BY <1>2, <1>3, <1>4

\* The second clock of a write comes after the one its strobe was up in.
LEMMA WriteBegins ==
  ASSUME IInv, Next, cpu'.op = "write", cpu'.addr \in Cell, cpu_enable'
  PROVE  /\ cpu_wr_strobe /\ cpu' = cpu
         /\ sram_wr' \in Write /\ sram_wr' = [addr |-> cpu.addr, data |-> cpu.data]
<1>1. ~cpu_enable /\ ~cpu_reset /\ ~monitor_hold
  BY DEF Next, EnableClock
<1>2. cpu' = cpu
  BY <1>1, CpuSteady DEF ElsewhereRead
<1>3. cpu_wr_strobe
  BY <1>1, <1>2 DEF cpu_wr_strobe, PortWrite
<1>4. [addr |-> cpu.addr, data |-> cpu.data] \in Write
  BY <1>2 DEF IInv, TypeOK, BusCycle, Write
<1> QED
  BY <1>2, <1>3, <1>4, LatchSteady

----------------------------------------------------------------------------
(* One lemma per conjunct of the invariant.                                *)

LEMMA InFlightStep ==
  ASSUME IInv, Next, TypeOK'
  PROVE  InFlight'
<1>1. CASE IssueDrain \/ IssueRead \/ IssueMon
  <2>1. ~sram_busy /\ sram_busy' /\ ext_req' # None
    <3>1. \A r \in Request : r # None
      OBVIOUS
    <3>2. IssueDrain => ext_req' \in Request
      BY DEF IssueDrain, IInv, TypeOK, Write, Request
    <3>3. IssueRead => ext_req' \in Request
      BY DEF IssueRead, cpu_rd_acc, PortRead, Request
    <3>4. IssueMon => ext_req' \in Request
      <4>1. IssueMon => mon \in MonBusy
        BY MonStates DEF IssueMon, mon_acc, IInv
      <4> QED
        BY <4>1 DEF IssueMon, MonBusy, Request
    <3> QED
      BY <1>1, <3>1, <3>2, <3>3, <3>4 DEF IssueDrain, IssueRead, IssueMon, Idle
  <2>2. backend' = None /\ ~ext_ack'
    BY <2>1, BackendSteady
  <2>3. ext_req' = wanted'
    <3>1. CASE IssueDrain
      <4>1. sram_wr' = sram_wr
        BY <2>1, <3>1, LatchSteady, StrobeMeetsRest DEF IssueDrain
      <4> QED
        BY <3>1, <4>1 DEF IssueDrain, wanted
    <3>2. CASE IssueRead
      BY <3>2 DEF IssueRead, wanted
    <3>3. CASE IssueMon
      <4>1. mon' = mon
        BY <3>3, MonSteady DEF IssueMon, mon_acc, Idle
      <4> QED
        BY <3>3, <4>1 DEF IssueMon, wanted
    <3> QED
      BY <1>1, <3>1, <3>2, <3>3
  <2> QED
    BY <2>1, <2>2, <2>3 DEF InFlight, job
<1>2. CASE IssueNone \/ Release \/ StayDone \/ Answered
  <2>1. ~sram_busy' /\ ext_req' = None /\ (~sram_busy \/ ext_ack)
    BY <1>2 DEF IssueNone, Release, StayDone, Answered, Idle, flags
  <2> QED
    BY <2>1, BackendSteady DEF InFlight, job
<1>3. CASE Awaits
  <2>1. sram_busy /\ sram_busy' /\ ext_req' = None /\ ~ext_ack
    BY <1>3 DEF Awaits, flags
  <2>2. job # None /\ job = wanted
    BY <2>1 DEF IInv, InFlight, job
  <2>3. wanted' = wanted
    BY <1>3, WantedSteady
  <2>4. \/ backend' = wanted' /\ ~ext_ack'
        \/ backend' = None /\ ext_ack'
    BY <2>2, <2>3 DEF Next, BackendClock, BackendRests, BackendWorks, BackendPerforms
  <2> QED
    BY <2>1, <2>2, <2>3, <2>4 DEF InFlight, job
<1> QED
  BY <1>1, <1>2, <1>3 DEF Next, PortClock

LEMMA PerformedStep ==
  ASSUME IInv, Next
  PROVE  Performed'
<1> SUFFICES ASSUME (sram_busy' /\ ext_ack') \/ sram_complete'
             PROVE  IF wanted'.op = "write" THEN ram'[wanted'.addr] = wanted'.data
                                            ELSE ext_dout' = ram'[wanted'.addr]
  BY DEF Performed
<1>1. CASE Awaits
  <2>1. wanted' = wanted /\ sram_busy /\ ~ext_ack /\ sram_complete' = sram_complete
    BY <1>1, WantedSteady DEF Awaits, flags
  <2>2. ~sram_complete
    BY <2>1 DEF IInv, ServesWhileBusy
  <2>3. job = wanted /\ job # None
    BY <2>1 DEF IInv, InFlight, job
  <2>4. BackendPerforms
    BY <2>1, <2>2 DEF Next, BackendClock, BackendRests, BackendWorks
  <2>5. job \in Request
    BY <2>3 DEF job, IInv, TypeOK
  <2> QED
    BY <2>1, <2>3, <2>4, <2>5 DEF BackendPerforms, Request, IInv, TypeOK
<1>2. CASE (Answered /\ ~serving_write) \/ StayDone
  <2>1. wanted' = wanted
    BY <1>2, WantedSteady
  <2>2. (sram_busy /\ ext_ack) \/ (sram_complete /\ ~sram_busy)
    BY <1>2 DEF Answered, StayDone
  <2> QED
    BY <2>1, <2>2, BackendSteady DEF IInv, Performed
<1>3. CASE ~Awaits /\ ~(Answered /\ ~serving_write) /\ ~StayDone
  <2>1. /\ ~sram_complete'
        /\ ~sram_busy \/ ext_ack
    <3>1. CASE IssueDrain \/ IssueRead \/ IssueMon \/ IssueNone \/ Release
      BY <3>1 DEF IssueDrain, IssueRead, IssueMon, IssueNone, Release, Idle, flags
    <3>2. CASE Answered /\ serving_write
      BY <3>2 DEF Answered, IInv, ServesWhileBusy
    <3> QED
      BY <1>3, <3>1, <3>2 DEF Next, PortClock
  <2> QED
    BY <2>1, BackendSteady
<1> QED
  BY <1>1, <1>2, <1>3

LEMMA BusyStep ==
  ASSUME IInv, Next
  PROVE  ServesWhileBusy'
<1> SUFFICES ASSUME sram_busy'
             PROVE  /\ ~sram_complete'
                    /\ serving_write' <=> sram_wr' # None
                    /\ serving_mon'  => ~serving_write' /\ mon'.st = "M_SRAM_WAIT"
                    /\ ~serving_mon' => /\ cpu'.op = "read" /\ mon' = MonIdle
                                        /\ PortRead' /\ ~serving_write' => cpu'.addr = sram_rd_addr'
  BY DEF ServesWhileBusy
<1>1. CASE IssueDrain
  <2>1. /\ ~sram_complete' /\ serving_write' /\ ~serving_mon' /\ sram_wr # None
        /\ ~sram_busy
    BY <1>1 DEF IssueDrain, Idle
  <2>2. sram_wr' = sram_wr
    BY <2>1, LatchSteady, StrobeMeetsRest
  <2>3. mon' = MonIdle
    BY <2>1, MonSteady
  <2>4. cpu'.op = "read"
    <3>1. CASE cpu.op = "read"
      BY <2>1, <3>1, StalledRead DEF sram_stall, ElsewhereRead
    <3>2. CASE cpu.op # "read"
      <4>1. PortWrite /\ cpu_enable
        BY <2>1, <3>2 DEF IInv, TypeOK, BusCycle, LatchOwner
      <4>2. T65Latches
        BY <3>2, <4>1 DEF T65Latches
      <4> QED
        BY <3>2, <4>1, <4>2 DEF Next, CpuClock, T65Reset, T65NextCycle, T65Waits,
             MayFollow, PortWrite, ElsewhereRead
    <3> QED
      BY <3>1, <3>2
  <2> QED
    BY <2>1, <2>2, <2>3, <2>4
<1>2. CASE IssueRead
  <2>1. /\ ~sram_complete' /\ ~serving_write' /\ ~serving_mon' /\ sram_wr = None
        /\ cpu.op = "read" /\ ~monitor_hold /\ sram_rd_addr' = cpu.addr
        /\ sram_stall
    BY <1>2 DEF IssueRead, Idle, cpu_rd_acc, PortRead, sram_stall
  <2>2. sram_wr' = None
    BY <2>1, LatchSteady DEF cpu_wr_strobe, PortWrite
  <2>3. mon' = MonIdle
    BY <2>1, MonSteady
  <2>4. cpu' = cpu \/ cpu' = ElsewhereRead
    BY <2>1, StalledRead
  <2> QED
    BY <2>1, <2>2, <2>3, <2>4 DEF ElsewhereRead, PortRead
<1>3. CASE IssueMon
  <2>1. /\ ~sram_complete' /\ ~serving_write' /\ serving_mon'
        /\ mon.st = "M_SRAM_WAIT" /\ ~sram_complete
    BY <1>3 DEF IssueMon, Idle, mon_acc
  <2>2. mon' = mon /\ sram_wr' = None
    BY <2>1, MonSteady, MonStates DEF IInv
  <2> QED
    BY <2>1, <2>2
<1>4. CASE Awaits
  <2>1. /\ sram_busy /\ ~ext_ack
        /\ sram_complete' = sram_complete /\ serving_write' = serving_write
        /\ serving_mon' = serving_mon /\ sram_rd_addr' = sram_rd_addr
    BY <1>4 DEF Awaits, flags
  <2>2. sram_wr' = sram_wr /\ ~sram_complete
    BY <2>1, LatchSteady, StrobeMeetsRest DEF IInv, ServesWhileBusy
  <2>3. serving_mon => mon' = mon
    BY <2>1, <2>2, MonSteady DEF IInv, ServesWhileBusy
  <2>4. ~serving_mon => mon' = MonIdle /\ cpu.op = "read"
    BY <2>1, MonSteady DEF IInv, ServesWhileBusy
  <2>5. ~serving_mon => cpu' = cpu \/ cpu' = ElsewhereRead
    BY <2>1, <2>4, StalledRead DEF sram_stall
  <2> QED
    BY <2>1, <2>2, <2>3, <2>4, <2>5 DEF IInv, ServesWhileBusy, ElsewhereRead, PortRead
<1>5. ~IssueNone /\ ~Answered /\ ~Release /\ ~StayDone
  BY DEF IssueNone, Answered, Release, StayDone, Idle, flags
<1> QED
  BY <1>1, <1>2, <1>3, <1>4, <1>5 DEF Next, PortClock

LEMMA DoneStep ==
  ASSUME IInv, Next
  PROVE  ServesWhileDone'
<1> SUFFICES ASSUME sram_complete'
             PROVE  /\ sram_wr' = None /\ ~serving_write'
                    /\ serving_mon' => \/ mon'.st \in {"M_SRAM_WAIT", "M_SRAM_READY"}
                                       \/ mon'.st = "M_READY" /\ mon'.op = "write"
                    /\ ~serving_mon' =>
                         /\ mon' = MonIdle
                         /\ cpu_enable' /\ cpu_rd_acc' => cpu'.addr = sram_rd_addr'
  BY DEF ServesWhileDone
<1>1. CASE Answered
  <2>1. /\ sram_busy /\ sram_rd_addr' = sram_rd_addr
        /\ serving_write' = serving_write /\ serving_mon' = serving_mon
        /\ ~sram_complete /\ ~serving_write
    BY <1>1 DEF Answered, IInv, ServesWhileBusy
  <2>2. sram_wr' = None
    BY <2>1, LatchSteady, StrobeMeetsRest DEF IInv, ServesWhileBusy
  <2>3. serving_mon => mon' = mon /\ mon.st = "M_SRAM_WAIT"
    BY <2>1, MonSteady DEF IInv, ServesWhileBusy
  <2>4. ~serving_mon => mon' = MonIdle
    BY <2>1, MonSteady DEF IInv, ServesWhileBusy
  <2>5. ~serving_mon => cpu' = cpu \/ cpu' = ElsewhereRead
    BY <2>1, StalledRead DEF sram_stall, IInv, ServesWhileBusy
  <2> QED
    BY <2>1, <2>2, <2>3, <2>4, <2>5
       DEF IInv, ServesWhileBusy, cpu_rd_acc, PortRead, ElsewhereRead
<1>2. CASE StayDone
  <2>1. /\ ~sram_busy /\ sram_complete /\ ~MovedOn /\ sram_rd_addr' = sram_rd_addr
        /\ serving_write' = serving_write /\ serving_mon' = serving_mon
    BY <1>2 DEF StayDone, flags
  <2>2. serving_mon => mon.st = "M_SRAM_WAIT" /\ mon # MonIdle
    BY <2>1 DEF MovedOn, mon_acc, MonIdle
  <2>3. ~serving_mon => /\ ~monitor_hold /\ cpu.op = "read" /\ mon = MonIdle
                        /\ cpu.addr = sram_rd_addr
    BY <2>1 DEF MovedOn, cpu_rd_acc, PortRead, IInv, ServesWhileDone
  <2>4. sram_wr' = None
    <3>1. ~cpu_wr_strobe
      BY <2>2, <2>3 DEF cpu_wr_strobe, PortWrite, IInv, MonitorAlone
    <3> QED
      BY <2>1, <3>1, LatchSteady DEF IInv, ServesWhileDone
  <2>5. serving_mon => \/ mon'.st \in {"M_SRAM_WAIT", "M_SRAM_READY"}
                       \/ mon'.st = "M_READY" /\ mon'.op = "write"
    <3> SUFFICES ASSUME serving_mon
                 PROVE  \/ mon'.st = "M_SRAM_READY"
                        \/ mon'.st = "M_READY" /\ mon'.op = "write"
      OBVIOUS
    <3>1. MonDone
      BY <2>1, <2>2 DEF Next, MonClock, MonRests, MonRequests, MonWaits, MonTakes, MonReady
    <3>2. mon \in MonBusy
      BY <2>2, MonStates DEF IInv
    <3> QED
      BY <3>1, <3>2 DEF MonDone, MonBusy
  <2>6. ~serving_mon => mon' = MonIdle
    BY <2>3, MonSteady
  <2>7. ~serving_mon /\ cpu_enable' => cpu' = cpu \/ cpu' = ElsewhereRead
    BY <2>3, StalledRead DEF Next, EnableClock
  <2> QED
    BY <2>1, <2>3, <2>4, <2>5, <2>6, <2>7
       DEF IInv, ServesWhileDone, cpu_rd_acc, PortRead, ElsewhereRead
<1>3. ~IssueDrain /\ ~IssueRead /\ ~IssueMon /\ ~IssueNone /\ ~Release /\ ~Awaits
  BY DEF IssueDrain, IssueRead, IssueMon, IssueNone, Release, Awaits, Idle, flags,
         IInv, ServesWhileBusy
<1> QED
  BY <1>1, <1>2, <1>3 DEF Next, PortClock

LEMMA MonitorStep ==
  ASSUME IInv, Next
  PROVE  MonitorAlone' /\ MonitorShown' /\ MonWriteDone'
<1>1. MonitorAlone'
  BY MonSteady DEF MonitorAlone
<1>2. MonDone => /\ sram_complete /\ serving_mon /\ ~sram_busy
                 /\ mon \in MonBusy /\ monitor_hold
  <2>1. MonDone => mon # MonIdle /\ mon \in MonBusy /\ sram_complete
    BY MonStates DEF MonDone, MonIdle, IInv
  <2> QED
    BY <2>1 DEF IInv, ServesWhileDone, ServesWhileBusy, MonitorAlone
<1>3. MonitorShown'
  <2> SUFFICES ASSUME mon'.st = "M_SRAM_READY"
               PROVE  sram_complete' /\ serving_mon'
    BY DEF MonitorShown
  <2>1. MonDone
    <3>1. MonTakes => mon'.st = "M_READY"
      <4>1. MonTakes => mon \in MonBusy
        BY MonStates DEF MonTakes, IInv
      <4> QED
        BY <4>1 DEF MonTakes, MonBusy
    <3> QED
      BY <3>1 DEF Next, MonClock, MonRests, MonRequests, MonWaits, MonReady, MonIdle
  <2>2. ~MovedOn
    BY <1>2, <2>1 DEF MovedOn, mon_acc, MonDone
  <2>3. StayDone
    BY <1>2, <2>1, <2>2 DEF Next, PortClock, IssueDrain, IssueRead, IssueMon, IssueNone,
         Answered, Awaits, Release, Idle
  <2> QED
    BY <1>2, <2>1, <2>3 DEF StayDone, flags
<1>4. MonWriteDone'
  <2> SUFFICES ASSUME mon'.st \in {"M_SRAM_READY", "M_READY"}, mon'.op = "write"
               PROVE  ram'[mon'.addr] = mon'.data
    BY DEF MonWriteDone
  <2>1. CASE MonDone
    <3>1. wanted = [op |-> mon.op, addr |-> mon.addr, data |-> mon.data]
      BY <1>2, <2>1 DEF wanted, IInv, ServesWhileDone
    <3>2. mon'.op = mon.op /\ mon'.addr = mon.addr /\ mon'.data = mon.data
      BY <1>2, <2>1 DEF MonDone, MonBusy
    <3> QED
      BY <1>2, <2>1, <3>1, <3>2, BackendSteady DEF IInv, Performed
  <2>2. CASE MonTakes
    <3>1. mon \in MonBusy /\ mon.st = "M_SRAM_READY" /\ ~sram_busy
      BY <2>2, MonStates DEF MonTakes, IInv, MonitorShown, ServesWhileBusy
    <3>2. mon'.op = mon.op /\ mon'.addr = mon.addr
      BY <2>2, <3>1 DEF MonTakes, MonBusy
    <3>3. mon'.data = mon.data
      BY <2>2, <3>1, <3>2 DEF MonTakes, MonBusy
    <3> QED
      BY <3>1, <3>2, <3>3, BackendSteady DEF IInv, MonWriteDone
  <2> QED
    BY <2>1, <2>2 DEF Next, MonClock, MonRests, MonRequests, MonWaits, MonReady, MonIdle
<1> QED
  BY <1>1, <1>3, <1>4

LEMMA OwnerStep ==
  ASSUME IInv, Next
  PROVE  LatchOwner' /\ ResetQuiet'
<1>1. ResetQuiet'
  BY DEF Next, CpuClock, T65Reset, T65NextCycle, T65Waits, ResetQuiet
<1>2. ASSUME sram_wr' # None, cpu'.op = "write"
      PROVE  /\ cpu'.addr \in Cell /\ cpu_enable'
             /\ sram_wr' = [addr |-> cpu'.addr, data |-> cpu'.data]
  <2>1. ~cpu_reset /\ cpu' # ElsewhereRead
    BY <1>2 DEF Next, CpuClock, T65Reset, T65NextCycle, T65Waits, ElsewhereRead
  <2>2. CASE cpu_wr_strobe
    <3>1. cpu' = cpu
      BY <2>1, <2>2, CpuSteady DEF T65Latches, cpu_wr_strobe
    <3>2. cpu_enable'
      BY <2>1, <2>2 DEF Next, EnableClock, cpu_wr_strobe
    <3> QED
      BY <2>2, <3>1, <3>2, LatchSteady DEF cpu_wr_strobe, PortWrite
  <2>3. CASE ~cpu_wr_strobe
    <3>1. sram_wr # None
      BY <1>2, <2>3, LatchSteady
    <3>2. CASE cpu.op = "read"
      BY <1>2, <2>1, <3>1, <3>2, StalledRead DEF sram_stall
    <3>3. CASE cpu.op # "read"
      <4>1. PortWrite /\ cpu_enable
        BY <3>1, <3>3 DEF IInv, TypeOK, BusCycle, LatchOwner
      <4>2. T65Latches
        BY <3>3, <4>1 DEF T65Latches
      <4>3. cpu'.op = "read"
        BY <2>1, <3>3, <4>1, <4>2 DEF Next, CpuClock, T65Reset, T65NextCycle, T65Waits,
             MayFollow, PortWrite
      <4> QED
        BY <1>2, <4>3
    <3> QED
      BY <3>2, <3>3
  <2> QED
    BY <2>2, <2>3
<1>3. PortWrite' /\ cpu_enable' => sram_wr' # None
  BY WriteBegins DEF PortWrite, Write
<1> QED
  BY <1>1, <1>2, <1>3 DEF LatchOwner, PortWrite

LEMMA FreeStep ==
  ASSUME IInv, Next, LatchOwner', MonitorAlone', ServesWhileBusy', TypeOK'
  PROVE  LatchFree'
<1>1. ~sram_wr_overflow'
  BY StrobeMeetsRest DEF Next, LatchClock, IInv, LatchFree, TypeOK
<1>2. cpu_wr_strobe' => sram_wr' = None /\ mon' = MonIdle
  BY DEF cpu_wr_strobe, PortWrite, LatchOwner, MonitorAlone
<1>3. cpu_wr_strobe' => ~sram_busy'
  BY <1>2 DEF cpu_wr_strobe, PortWrite, ServesWhileBusy, MonIdle
<1> QED
  BY <1>1, <1>2, <1>3 DEF LatchFree, Drained

----------------------------------------------------------------------------
\* The strengthened invariant is inductive.
THEOREM Invariance == Spec => []IInv
<1>1. Init => IInv
  <2> SUFFICES ASSUME Init PROVE IInv
    OBVIOUS
  <2>1. TypeOK
    BY DEF Init, TypeOK, BusCycle, ElsewhereRead
  <2> QED
    BY <2>1 DEF Init, IInv, InFlight, job, Performed, ServesWhileBusy, ServesWhileDone,
       MonitorAlone, MonitorShown, LatchOwner, ResetQuiet, LatchFree, Drained, MonWriteDone,
       MonIdle
<1>2. IInv /\ [Next]_vars => IInv'
  <2> SUFFICES ASSUME IInv, [Next]_vars PROVE IInv'
    OBVIOUS
  <2>1. CASE Next
    <3>1. TypeOK'
      BY <2>1, TypeStep DEF IInv
    <3>2. InFlight' /\ Performed' /\ ServesWhileBusy' /\ ServesWhileDone'
      BY <2>1, <3>1, InFlightStep, PerformedStep, BusyStep, DoneStep
    <3>3. MonitorAlone' /\ MonitorShown' /\ MonWriteDone' /\ LatchOwner' /\ ResetQuiet'
      BY <2>1, MonitorStep, OwnerStep
    <3>4. LatchFree'
      BY <2>1, <3>1, <3>2, <3>3, FreeStep
    <3> QED
      BY <3>1, <3>2, <3>3, <3>4 DEF IInv
  <2>2. CASE UNCHANGED vars
    <3>1. UNCHANGED <<clients, flags, sram_wr, sram_wr_overflow, ext_req, memory,
                      cpu_last, mon_last>>
      BY <2>2 DEF vars
    <3> QED
      BY <3>1 DEF clients, flags, memory, IInv, TypeOK, InFlight, job, wanted, Performed,
         ServesWhileBusy, ServesWhileDone, MonitorAlone, MonitorShown, LatchOwner,
         ResetQuiet, LatchFree, MonWriteDone, cpu_wr_strobe, Drained, PortRead, PortWrite,
         cpu_rd_acc
  <2> QED
    BY <2>1, <2>2
<1> QED
  BY <1>1, <1>2, PTL DEF Spec

\* The signals keep their types.
THEOREM TypeCorrect == Spec => []TypeOK
<1>1. IInv => TypeOK
  BY DEF IInv
<1> QED
  BY <1>1, Invariance, PTL

\* A store never finds the latch taken, although the T65 does not wait: no
\* store to the main RAM or the framebuffer is dropped or overwritten.
THEOREM LatchSafety == Spec => []LatchFree
<1>1. IInv => LatchFree
  BY DEF IInv
<1> QED
  BY <1>1, Invariance, PTL

\* A request reaches an idle backend.
THEOREM NoRequestLost == Spec => []OneInFlight
<1>1. IInv => OneInFlight
  BY DEF IInv, InFlight, OneInFlight
<1> QED
  BY <1>1, Invariance, PTL

\* What the monitor reports written is in the memory.
THEOREM MonitorWrites == Spec => []MonWriteDone
<1>1. IInv => MonWriteDone
  BY DEF IInv
<1> QED
  BY <1>1, Invariance, PTL

\* No write of either master is lost: both facts follow from the invariant.
THEOREM WritesKept == Spec => []NoWriteLost
<1>1. IInv => NoWriteLost
  BY DEF IInv, NoWriteLost
<1> QED
  BY <1>1, Invariance, PTL

----------------------------------------------------------------------------
(* The refinement: what a step does to the abstract memory.                *)

LEMMA AccessIsRequest == Memory!Access = Request
BY DEF Memory!Access, Request

\* With the port at rest the abstract memory changes by the T65's store alone.
LEMMA CpuStore ==
  ASSUME IInv, Next, PortWrite, cpu_enable \/ (cpu_wr_strobe /\ ~T65Waits)
  PROVE  /\ cpu \in Request /\ cpu_last' = cpu /\ mon_last' = mon_last
         /\ mem' = Memory!Put(mem, cpu)
<1>1. cpu \in Request
  BY DEF PortWrite, IInv, TypeOK, BusCycle, Request
<1>2. mon = MonIdle /\ ~sram_busy
  <2>1. cpu_enable => mon = MonIdle
    BY DEF IInv, MonitorAlone
  <2>2. cpu_enable => ~sram_busy
    BY <2>1 DEF IInv, ServesWhileBusy, PortWrite, MonIdle
  <2> QED
    BY <2>1, <2>2, StrobeMeetsRest
<1>3. ram' = ram /\ job = None
  BY <1>2, BackendSteady
<1>4. mon_last' = mon_last
  BY <1>2, <1>3 DEF Next, MonHistory, MonReads, MonWrites, MonIdle
<1>5. ~T65Waits
  BY DEF T65Waits, T65Latches, PortWrite
<1>6. cpu_last' = cpu /\ cpu'.op = "read"
  <2>1. CASE T65Reset
    <3>1. PortWrite /\ (cpu_enable \/ cpu_wr_strobe)
      OBVIOUS
    <3>2. cpu_last' = cpu
      BY <2>1, <3>1, Zenon DEF T65Reset
    <3>3. cpu' = ElsewhereRead
      BY <2>1 DEF T65Reset
    <3> QED
      BY <3>2, <3>3 DEF ElsewhereRead
  <2>2. CASE T65NextCycle
    <3>1. cpu_last' = cpu
      BY <2>2 DEF T65NextCycle, PortWrite, PortRead
    <3>2. MayFollow(cpu, cpu')
      BY <2>2 DEF T65NextCycle
    <3> QED
      BY <3>1, <3>2 DEF MayFollow, PortWrite
  <2> QED
    BY <1>5, <2>1, <2>2 DEF Next, CpuClock
<1>7. mem = ram
  BY StrobeMeetsRest DEF mem
<1>8. sram_wr' = [addr |-> cpu.addr, data |-> cpu.data] /\ sram_wr' # None
  <2>1. CASE cpu_wr_strobe
    BY <1>1, <2>1, LatchSteady DEF Request, Write
  <2>2. CASE ~cpu_wr_strobe
    BY <1>2, <2>2, LatchSteady DEF IInv, LatchOwner, PortWrite
  <2> QED
    BY <2>1, <2>2
<1>9. mem' = [ram' EXCEPT ![sram_wr'.addr] = sram_wr'.data]
  BY <1>6, <1>8 DEF mem, PortWrite
<1> QED
  BY <1>1, <1>3, <1>4, <1>6, <1>7, <1>8, <1>9 DEF Memory!Put

LEMMA CpuLoad ==
  ASSUME IInv, Next, PortRead, T65NextCycle
  PROVE  /\ cpu_last' \in Request /\ cpu_last'.op = "read"
         /\ cpu_last'.data = mem[cpu_last'.addr]
         /\ mem' = mem /\ mon_last' = mon_last
<1>1. /\ sram_wr = None /\ sram_complete /\ cpu.addr = sram_rd_addr
      /\ ~sram_busy /\ mon = MonIdle
  BY LatchingMeetsRest DEF T65NextCycle, PortRead
<1>2. ram' = ram /\ job = None
  BY <1>1, BackendSteady
<1>3. sram_wr' = None
  BY <1>1, LatchSteady DEF cpu_wr_strobe, PortRead, PortWrite
<1>4. mem = ram /\ mem' = ram
  BY <1>1, <1>2, <1>3 DEF mem
<1>5. ext_dout = ram[sram_rd_addr]
  <2>1. wanted = [op |-> "read", addr |-> sram_rd_addr, data |-> Blank]
    BY <1>1 DEF wanted, IInv, ServesWhileDone, MonIdle
  <2> QED
    BY <1>1, <2>1 DEF IInv, Performed
<1>6. cpu_last' = [op |-> "read", addr |-> cpu.addr, data |-> ext_dout]
  BY DEF Next, CpuClock, T65NextCycle, T65Reset, T65Waits, PortRead, PortWrite
<1>7. mon_last' = mon_last
  BY <1>1, <1>2 DEF Next, MonHistory, MonReads, MonWrites, MonIdle
<1>8. cpu_last' \in Request
  BY <1>6 DEF Request, PortRead, IInv, TypeOK
<1> QED
  BY <1>1, <1>4, <1>5, <1>6, <1>7, <1>8

\* The monitor's accesses happen while the latch is empty.
LEMMA MonLoad ==
  ASSUME IInv, Next, MonReads
  PROVE  /\ mon_last' \in Request /\ mon_last'.op = "read"
         /\ mon_last'.data = mem[mon_last'.addr] /\ mem' = mem
<1>1. mon \in MonBusy /\ mon # MonIdle
  BY MonStates DEF MonReads, IInv
<1>2. sram_complete /\ serving_mon /\ ~sram_busy
  BY DEF MonReads, IInv, MonitorShown, ServesWhileBusy
<1>3. sram_wr = None /\ sram_wr' = None
  BY <1>1, MonSteady
<1>4. mem = ram /\ mem' = ram
  BY <1>2, <1>3, BackendSteady DEF mem
<1>5. wanted = [op |-> mon.op, addr |-> mon.addr, data |-> mon.data]
  BY <1>2 DEF wanted, IInv, ServesWhileDone
<1>6. ext_dout = ram[mon.addr]
  BY <1>2, <1>5 DEF IInv, Performed, MonReads
<1>7. mon_last' = [op |-> "read", addr |-> mon.addr, data |-> ext_dout]
  BY <1>2, BackendSteady DEF Next, MonHistory, MonWrites
<1>8. mon_last' \in Request
  BY <1>1, <1>7 DEF Request, MonBusy, IInv, TypeOK
<1> QED
  BY <1>4, <1>6, <1>7, <1>8

LEMMA MonStore ==
  ASSUME IInv, Next, MonWrites, ~MonReads
  PROVE  /\ mon_last' = job /\ job \in Request /\ job.op = "write"
         /\ mem' = Memory!Put(mem, job)
<1>1. job # None /\ job \in Request /\ sram_busy
  BY DEF MonWrites, job, IInv, TypeOK, InFlight
<1>2. mon # MonIdle
  BY <1>1 DEF MonWrites, IInv, ServesWhileBusy, MonIdle
<1>3. mem = ram /\ mem' = ram'
  BY <1>2, MonSteady DEF mem
<1>4. ram' = [ram EXCEPT ![job.addr] = job.data]
  BY DEF MonWrites, Next, BackendClock, BackendRests, BackendWorks, BackendPerforms
<1> QED
  BY <1>1, <1>3, <1>4 DEF Memory!Put, MonWrites, Next, MonHistory

\* Everything else is invisible: captures, drains, answers, releases.
LEMMA Invisible ==
  ASSUME IInv, Next,
         ~(PortWrite /\ (cpu_enable \/ (cpu_wr_strobe /\ ~T65Waits))), ~MonWrites
  PROVE  mem' = mem
<1>1. CASE cpu_wr_strobe
  <2>1. PortWrite /\ T65Waits /\ ~cpu_enable
    BY <1>1 DEF cpu_wr_strobe
  <2>2. /\ sram_wr = None /\ ram' = ram
    BY <1>1, StrobeMeetsRest, BackendSteady
  <2>3. PortWrite' /\ cpu_enable'
    BY <1>1, <2>1 DEF T65Waits, PortWrite, Next, EnableClock, cpu_wr_strobe
  <2> QED
    BY <2>2, <2>3 DEF mem
<1>2. CASE ~cpu_wr_strobe
  <2>1. ~(PortWrite /\ cpu_enable) /\ ~(PortWrite' /\ cpu_enable')
    BY <1>2, WriteBegins DEF PortWrite
  <2>2. /\ mem  = IF sram_wr # None THEN [ram EXCEPT ![sram_wr.addr] = sram_wr.data] ELSE ram
        /\ mem' = IF sram_wr' # None THEN [ram' EXCEPT ![sram_wr'.addr] = sram_wr'.data]
                                     ELSE ram'
    BY <2>1 DEF mem
  <2>3. CASE ~sram_busy \/ ext_ack
    <3>1. ram' = ram
      BY <2>3, BackendSteady
    <3>2. CASE sram_busy /\ serving_write
      <4>1. sram_wr' = None /\ sram_wr # None /\ sram_wr \in Write
        BY <1>2, <2>3, <3>2, LatchSteady DEF IInv, ServesWhileBusy, TypeOK
      <4>2. ram[sram_wr.addr] = sram_wr.data
        BY <2>3, <3>2 DEF IInv, Performed, wanted
      <4>3. [ram EXCEPT ![sram_wr.addr] = sram_wr.data] = ram
        BY <4>1, <4>2 DEF IInv, TypeOK, Write
      <4> QED
        BY <2>2, <3>1, <4>1, <4>3
    <3>3. CASE ~(sram_busy /\ serving_write)
      BY <1>2, <2>2, <3>1, <3>3, LatchSteady
    <3> QED
      BY <3>2, <3>3
  <2>4. CASE sram_busy /\ ~ext_ack
    <3>1. sram_wr' = sram_wr
      BY <1>2, <2>4, LatchSteady
    <3>2. job = wanted /\ job # None
      BY <2>4 DEF IInv, InFlight, job
    <3>3. CASE ram' = ram
      BY <2>2, <3>1, <3>3
    <3>4. CASE ram' # ram
      <4>1. /\ job.op = "write" /\ ext_ack'
            /\ ram' = [ram EXCEPT ![job.addr] = job.data]
        BY <3>4 DEF Next, BackendClock, BackendRests, BackendWorks, BackendPerforms
      <4>2. serving_write
        BY <3>2, <4>1 DEF MonWrites, wanted
      <4>3. sram_wr # None /\ sram_wr \in Write
        BY <2>4, <4>2 DEF IInv, ServesWhileBusy, TypeOK
      <4>4. ram' = [ram EXCEPT ![sram_wr.addr] = sram_wr.data]
        BY <3>2, <4>1, <4>2 DEF wanted
      <4>5. [ram' EXCEPT ![sram_wr.addr] = sram_wr.data] = ram'
        BY <4>3, <4>4 DEF IInv, TypeOK, Write
      <4> QED
        BY <2>2, <3>1, <4>3, <4>4, <4>5
    <3> QED
      BY <3>3, <3>4
  <2> QED
    BY <2>3, <2>4
<1> QED
  BY <1>1, <1>2

LEMMA RefinementStep ==
  ASSUME IInv, Next
  PROVE  Memory!Next \/ UNCHANGED <<mem, cpu_last, mon_last>>
<1>1. CASE PortWrite /\ (cpu_enable \/ (cpu_wr_strobe /\ ~T65Waits))
  <2>1. cpu \in Memory!Access /\ Memory!Does(cpu) /\ cpu_last' = cpu /\ UNCHANGED mon_last
    BY <1>1, CpuStore, AccessIsRequest DEF Memory!Does, PortWrite
  <2> QED
    BY <2>1 DEF Memory!Next, Memory!CpuAccess
<1>2. CASE ~PortWrite /\ PortRead /\ T65NextCycle
  <2>1. cpu_last' \in Memory!Access /\ Memory!Does(cpu_last') /\ UNCHANGED mon_last
    BY <1>2, CpuLoad, AccessIsRequest DEF Memory!Does
  <2> QED
    BY <2>1 DEF Memory!Next, Memory!CpuAccess
<1>3. CASE /\ ~(PortWrite /\ (cpu_enable \/ (cpu_wr_strobe /\ ~T65Waits)))
           /\ ~(PortRead /\ T65NextCycle)
  <2>1. UNCHANGED cpu_last
    BY <1>3 DEF Next, CpuClock, T65Reset, T65NextCycle, T65Waits, T65Latches
  <2>2. CASE MonReads
    <3>1. mon_last' \in Memory!Access /\ Memory!Does(mon_last')
      BY <2>2, MonLoad, AccessIsRequest DEF Memory!Does
    <3> QED
      BY <2>1, <3>1 DEF Memory!Next, Memory!MonAccess
  <2>3. CASE ~MonReads /\ MonWrites
    <3>1. job \in Memory!Access /\ Memory!Does(job) /\ mon_last' = job
      BY <2>3, MonStore, AccessIsRequest DEF Memory!Does
    <3> QED
      BY <2>1, <3>1 DEF Memory!Next, Memory!MonAccess
  <2>4. CASE ~MonReads /\ ~MonWrites
    <3>1. mon_last' = mon_last
      BY <2>4 DEF Next, MonHistory
    <3> QED
      BY <1>3, <2>1, <2>4, <3>1, Invisible
  <2> QED
    BY <2>2, <2>3, <2>4
<1> QED
  BY <1>1, <1>2, <1>3 DEF PortRead, PortWrite

\* For any latency of the backend, any resets and any monitor sessions, what the
\* T65 and the monitor see of the port is a memory with atomic accesses.
THEOREM Refinement == Spec => Implements
<1>1. Init => Memory!Init
  BY DEF Init, Memory!Init, mem
<1>2. IInv /\ [Next]_vars => [Memory!Next]_<<mem, cpu_last, mon_last>>
  <2>1. ASSUME IInv, Next
        PROVE  Memory!Next \/ UNCHANGED <<mem, cpu_last, mon_last>>
    BY <2>1, RefinementStep
  <2>2. UNCHANGED vars => UNCHANGED <<mem, cpu_last, mon_last>>
    BY DEF vars, clients, memory, mem, PortWrite
  <2> QED
    BY <2>1, <2>2
<1> QED
  BY <1>1, <1>2, Invariance, PTL DEF Spec, Implements, Memory!Spec
=============================================================================
