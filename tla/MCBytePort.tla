----------------------------- MODULE MCBytePort -----------------------------
(***************************************************************************)
(* Two cells and two byte values behind the port.                          *)
(***************************************************************************)
EXTENDS BytePort

CONSTANTS c1, c2, b0, b1
MCCell == {c1, c2}
MCByte == {b0, b1}

\* FairSpec without ENABLED, which TLC is slow to evaluate: the clock has to
\* tick only while an access waits, the backend to answer only while it has a
\* request, and then each of them can (MCEnabled).  FairSpec implies it.
Waiting == sram_wr # None \/ cpu_rd_acc \/ mon.st = "M_SRAM_WAIT"

MCFairSpec ==
  /\ Spec
  /\ []<>~Waiting \/ []<><<ClockTicks>>_vars
  /\ []<>(job = None) \/ []<><<ClockTicks /\ BackendPerforms>>_vars

MCEnabled ==
  /\ Waiting => ENABLED <<ClockTicks>>_vars
  /\ job # None => ENABLED <<ClockTicks /\ BackendPerforms>>_vars
=============================================================================
