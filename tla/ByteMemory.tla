----------------------------- MODULE ByteMemory -----------------------------
(***************************************************************************)
(* What a banked byte memory of the board promises its two clients, the    *)
(* T65 and the UART monitor: every access happens at once, whole and in    *)
(* the order its client makes it, and a read returns the byte last written.*)
(* cpuLast and monLast are the last access each client has finished.       *)
(***************************************************************************)
CONSTANTS Cell, Byte, NoAccess

VARIABLES mem, cpuLast, monLast

Access == [op : {"read", "write"}, addr : Cell, data : Byte]

Put(m, w) == [m EXCEPT ![w.addr] = w.data]

Init == /\ mem \in [Cell -> Byte]
        /\ cpuLast = NoAccess /\ monLast = NoAccess

\* A read tells the byte the cell holds, a write makes it hold another one.
Does(acc) == /\ acc.op = "read" => acc.data = mem[acc.addr]
             /\ mem' = IF acc.op = "write" THEN Put(mem, acc) ELSE mem

CpuAccess == \E acc \in Access : Does(acc) /\ cpuLast' = acc /\ UNCHANGED monLast
MonAccess == \E acc \in Access : Does(acc) /\ monLast' = acc /\ UNCHANGED cpuLast

Next == CpuAccess \/ MonAccess

Spec == Init /\ [][Next]_<<mem, cpuLast, monLast>>
=============================================================================
