------------------------------ MODULE Drive1541 ------------------------------
(***************************************************************************)
(* LOAD from the virtual drive: the KERNAL hook of the C64                 *)
(* (sw/c64/c64_v1541_kernal_hook.s), the FIFO behind its UART, and the     *)
(* D64Drive of tools/virtual_1541/c64_1541_uart_gui.py, which the serial   *)
(* worker serves while the GUI thread changes the disk without a lock.     *)
(*                                                                         *)
(* Every LOAD asks for one name, which a disk of FileLen bytes has.  What  *)
(* comes back is a sequence of parts of frames with their sizes in bytes,  *)
(* so that the hook's limits (16 bytes of resynchronisation, blocks of     *)
(* 128, 256 bytes of FIFO) are the code's own.  Two assumptions are built  *)
(* in: no byte inside a frame reads as its magic, and a part the hook did  *)
(* not expect fails its test.                                              *)
(***************************************************************************)
EXTENDS Integers, Sequences, FiniteSetsExt, SequencesExt

CONSTANTS
  Disks,       \* the images in the GUI's folder
  FileLen,     \* the length of the file on each disk (0: it has none)
  MaxLoads,    \* bound: LOADs the user types
  MaxChanges,  \* bound: disks mounted or taken out
  MaxFaults    \* bound: requests and answers damaged on the line

ASSUME ConstantsAssumption ==
  /\ FileLen \in [Disks -> Nat] /\ 0 \notin Disks
  /\ \A d \in Disks : FileLen[d] # 1       \* follow_prg_chain refuses it
  /\ {MaxLoads, MaxChanges, MaxFaults} \subseteq Nat

VARIABLES
  phase, parse, resync, head, memory, result,   \* the hook
  up, down, fifo,                               \* requests; parts on their way
  worker, entry, file, channel,                 \* the serial worker, channel 2
  gui, next, mounted, entries,                  \* the GUI thread and the disk
  loads, changes, faults,                       \* how much of each bound is used
  clean, spoilt    \* history: disk unchanged in this LOAD; an earlier one failed

hook   == <<phase, parse, resync, head, memory, result>>
lines  == <<up, down, fifo>>
server == <<worker, entry, file, channel>>
disk   == <<gui, next, mounted, entries>>
counts == <<loads, changes, faults>>
vars   == <<hook, lines, server, disk, counts, clean, spoilt>>

CHUNK_SIZE == 128
RESYNC     == 16

\* Mutant of FIFO_DEPTH: an address of one bit less.
FIFO_DEPTH_SevenBits == 128

\* The UART's receive FIFO.
FIFO_DEPTH == 256

-----------------------------------------------------------------------------
(* Frames, in parts: make_response. *)

Magic == <<"magic", 1>>
Cks   == <<"cks", 1>>
Junk(size) == IF size = 0 THEN <<>> ELSE << <<"junk", size>> >>

\* The number of bytes of a part; a length has two of them.
Size(part) == CASE part[1] \in {"magic", "cks", "cmd", "status"} -> 1
                [] part[1] = "len" -> 2
                [] OTHER           -> part[2]

Frame(cmd, status, payload) ==
  LET size == IF payload = <<>> THEN 0 ELSE Size(payload[1])
  IN  <<Magic, <<"cmd", cmd>>, <<"status", status>>, <<"len", size>> >>
      \o payload \o <<Cks>>

Text(size) == << <<"text", size>> >>
Data(f, pos, size) == IF size = 0 THEN <<>> ELSE << <<"data", size, f, pos>> >>

\* status_payload: "00,OK,00,00", or "74,DRIVE NOT READY,00,00" without disk.
StatusText == Text(IF mounted = 0 THEN 24 ELSE 11)

-----------------------------------------------------------------------------
(* The hook: vload and the routines it calls. *)

Init ==
  /\ phase = "idle" /\ parse = "magic" /\ resync = RESYNC
  /\ head = <<"ok", 0>> /\ memory = <<>> /\ result = "none"
  /\ up = <<>> /\ down = <<>> /\ fifo = <<>>
  /\ worker = "idle" /\ entry = 0 /\ file = <<0, 0>> /\ channel = <<>>
  /\ gui = "idle" /\ next = 0 /\ mounted \in Disks \cup {0} /\ entries = mounted
  /\ loads = 0 /\ changes = 0 /\ faults = 0
  /\ clean = FALSE /\ spoilt = FALSE

HasFile(d) == d # 0 /\ FileLen[d] > 0

\* Send a request and wait for its answer.
Ask(cmd) ==
  /\ up' = Append(up, cmd)
  /\ parse' = "magic" /\ resync' = RESYNC

Load ==
  /\ phase = "idle" /\ loads < MaxLoads
  /\ loads' = loads + 1
  /\ phase' = "open" /\ memory' = <<>> /\ result' = "none"
  /\ clean' = (gui = "idle" /\ HasFile(mounted))
  /\ spoilt' = (spoilt \/ result = "error")
  /\ Ask("open")
  /\ UNCHANGED <<head, down, fifo, server, disk, changes, faults>>

\* The answer the hook waits for, EXPECTED_CMD.
Expected == IF phase \in {"closing", "failing"} THEN "close" ELSE phase

Return(outcome) ==
  /\ phase' = "idle" /\ result' = outcome
  /\ UNCHANGED <<parse, resync, up>>

\* load_failed: close the channel if it was opened; the answer to that, good
\* or bad, ends the LOAD with the error it is about.
Fail ==
  CASE phase = "open"    -> Return("error")
    [] phase = "read"    -> phase' = "failing" /\ Ask("close") /\ UNCHANGED result
    [] phase = "closing" -> Return("ok")
    [] phase = "failing" -> Return("error")

\* A whole answer arrived.
Succeed ==
  CASE phase = "open" /\ head[1] = "ok" ->
         phase' = "read" /\ Ask("read") /\ UNCHANGED result
    [] phase = "read" /\ head[2] = CHUNK_SIZE ->
         Ask("read") /\ UNCHANGED <<phase, result>>
    [] phase = "read" /\ head[2] < CHUNK_SIZE ->
         phase' = "closing" /\ Ask("close") /\ UNCHANGED result
    [] OTHER -> Fail

\* Go on with the next part of the answer.
Parse(state) ==
  parse' = state /\ UNCHANGED <<phase, resync, result, up>>

\* recv_response_magic: up to 16 other bytes are skipped.
TakeMagic(part) ==
  /\ parse = "magic"
  /\ CASE part = Magic          -> Parse("cmd") /\ fifo' = Tail(fifo)
       [] part # Magic /\ Size(part) < resync ->
            /\ resync' = resync - Size(part) /\ fifo' = Tail(fifo)
            /\ UNCHANGED <<phase, parse, result, up>>
       [] OTHER -> Fail /\ fifo' = Junk(Size(part) - resync) \o Tail(fifo)
  /\ UNCHANGED <<head, memory>>

\* A part that is not what the state reads: its first byte fails the test.
Misread(part) == Fail /\ fifo' = Junk(Size(part) - 1) \o Tail(fifo)

TakeCmd(part) ==
  /\ parse = "cmd"
  /\ IF part = <<"cmd", Expected>> THEN Parse("status") /\ fifo' = Tail(fifo)
                                   ELSE Misread(part)
  /\ UNCHANGED <<head, memory>>

\* A READ fails on its status at once, OPEN and CLOSE after the whole answer.
TakeStatus(part) ==
  /\ parse = "status"
  /\ IF part[1] = "status" /\ (phase = "read" => part[2] \in {"ok", "eof"})
       THEN Parse("len") /\ head' = <<part[2], 0>> /\ fifo' = Tail(fifo)
       ELSE Misread(part) /\ UNCHANGED head
  /\ UNCHANGED memory

\* Mutant of TakeLen: an empty block is refused wherever it comes.
TakeLen_NoEmptyBlock(part) ==
  /\ parse = "len"
  /\ IF part[1] = "len" /\ ~(phase = "read" /\ part[2] = 0)
       THEN /\ Parse(IF part[2] = 0 THEN "cks" ELSE "payload")
            /\ head' = <<head[1], part[2]>> /\ fifo' = Tail(fifo)
       ELSE Misread(part) /\ UNCHANGED head
  /\ UNCHANGED memory

\* FIRST is set until a block was stored: the first may not be empty.
TakeLen(part) ==
  /\ parse = "len"
  /\ IF part[1] = "len" /\ ~(phase = "read" /\ part[2] = 0 /\ memory = <<>>)
       THEN /\ Parse(IF part[2] = 0 THEN "cks" ELSE "payload")
            /\ head' = <<head[1], part[2]>> /\ fifo' = Tail(fifo)
       ELSE Misread(part) /\ UNCHANGED head
  /\ UNCHANGED memory

TakePayload(part) ==
  /\ parse = "payload"
  /\ IF part[1] \in {"text", "data"} /\ Size(part) = head[2]
       THEN /\ Parse("cks") /\ fifo' = Tail(fifo)
            /\ memory' = IF phase = "read" THEN Append(memory, part) ELSE memory
       ELSE Misread(part) /\ UNCHANGED memory
  /\ UNCHANGED head

TakeCks(part) ==
  /\ parse = "cks"
  /\ IF part = Cks THEN Succeed /\ fifo' = Tail(fifo) ELSE Misread(part)
  /\ UNCHANGED <<head, memory>>

\* The hook reads the FIFO.
Receive ==
  /\ phase # "idle" /\ fifo # <<>>
  /\ LET part == Head(fifo)
     IN  \/ TakeMagic(part) \/ TakeCmd(part) \/ TakeStatus(part)
         \/ TakeLen(part) \/ TakePayload(part) \/ TakeCks(part)
  /\ UNCHANGED <<down, server, disk, counts, clean, spoilt>>

\* Nobody is about to send the hook anything.
Quiet == up = <<>> /\ down = <<>> /\ fifo = <<>> /\ worker = "idle"

\* Mutant of TimeOut: no timeout before an answer begins.
TimeOut_InFrame ==
  /\ phase # "idle" /\ Quiet /\ parse # "magic"
  /\ Fail
  /\ UNCHANGED <<head, memory, down, fifo, server, disk, counts, clean, spoilt>>

\* uart_get_timeout: about fifteen seconds without a byte.
TimeOut ==
  /\ phase # "idle" /\ Quiet
  /\ Fail
  /\ UNCHANGED <<head, memory, down, fifo, server, disk, counts, clean, spoilt>>

Stored == SumFunction([k \in 1..Len(fifo) |-> Size(fifo[k])])

\* The UART stores what comes in; what the FIFO has no room for is lost.
Deliver ==
  /\ down # <<>>
  /\ down' = Tail(down)
  /\ LET room == FIFO_DEPTH - Stored
     IN  fifo' = IF Size(Head(down)) <= room THEN Append(fifo, Head(down))
                                             ELSE fifo \o Junk(room)
  /\ UNCHANGED <<hook, up, server, disk, counts, clean, spoilt>>

-----------------------------------------------------------------------------
(* The serial worker: handle_binary of OPEN, READ and CLOSE. *)

Asked(cmd) == up # <<>> /\ Head(up) = cmd

Answer(cmd, status, payload) ==
  /\ up' = Tail(up)
  /\ down' = down \o Frame(cmd, status, payload)
  /\ UNCHANGED <<hook, fifo, disk, counts, clean, spoilt>>

\* open_channel, first half: find_load_entry reads the directory.
OpenFinds ==
  /\ worker = "idle" /\ Asked("open") /\ mounted # 0 /\ HasFile(entries)
  /\ worker' = "found" /\ entry' = entries
  /\ UNCHANGED <<hook, lines, file, channel, disk, counts, clean, spoilt>>

OpenFindsNot ==
  /\ worker = "idle" /\ Asked("open") /\ (mounted = 0 \/ ~HasFile(entries))
  /\ Answer("open", "error", Text(15))
  /\ UNCHANGED server

\* load_entry follows the chain of the entry in the data mounted by now.
OpenLoads ==
  /\ worker = "found" /\ mounted # 0
  /\ worker' = "loaded" /\ file' = <<entry, mounted>>
  /\ UNCHANGED <<hook, lines, entry, channel, disk, counts, clean, spoilt>>

\* It fails without a disk, or when the chain of another disk's file breaks.
OpenBreaks ==
  /\ worker = "found" /\ mounted # entry
  /\ worker' = "idle"
  /\ Answer("open", "error", Text(30))
  /\ UNCHANGED <<entry, file, channel>>

OpenStores ==
  /\ worker = "loaded"
  /\ worker' = "idle" /\ channel' = <<file, 0>>
  /\ Answer("open", "ok", StatusText)
  /\ UNCHANGED <<entry, file>>

\* Mutant of Reads: the channel is an entry, read from the disk of the moment.
Reads_Lazily ==
  /\ worker = "idle" /\ Asked("read") /\ channel # <<>>
  /\ LET f == <<channel[1][1], mounted>>  pos == channel[2]
         size == Min({CHUNK_SIZE, FileLen[f[1]] - pos})
     IN  /\ Answer("read", IF size = 0 THEN "eof" ELSE "ok", Data(f, pos, size))
         /\ channel' = <<channel[1], pos + size>>
  /\ UNCHANGED <<worker, entry, file>>

\* read_channel: the next bytes of the file the channel holds.
Reads ==
  /\ worker = "idle" /\ Asked("read") /\ channel # <<>>
  /\ LET f == channel[1]  pos == channel[2]
         size == Min({CHUNK_SIZE, FileLen[f[1]] - pos})
     IN  /\ Answer("read", IF size = 0 THEN "eof" ELSE "ok", Data(f, pos, size))
         /\ channel' = <<f, pos + size>>
  /\ UNCHANGED <<worker, entry, file>>

\* "file not open"
ReadsNot ==
  /\ worker = "idle" /\ Asked("read") /\ channel = <<>>
  /\ Answer("read", "error", Text(13))
  /\ UNCHANGED server

Closes ==
  /\ worker = "idle" /\ Asked("close")
  /\ channel' = <<>>
  /\ Answer("close", "ok", StatusText)
  /\ UNCHANGED <<worker, entry, file>>

-----------------------------------------------------------------------------
(* The GUI thread: mount and set_folder, one assignment after the other. *)

ChangeData ==
  /\ gui = "idle" /\ changes < MaxChanges
  /\ gui' = "data" /\ changes' = changes + 1
  /\ next' \in (Disks \cup {0}) \ {mounted}
  /\ mounted' = next'
  /\ clean' = FALSE
  /\ UNCHANGED <<hook, lines, server, entries, loads, faults, spoilt>>

ChangeEntries ==
  /\ gui = "data"
  /\ gui' = "entries" /\ entries' = next
  /\ UNCHANGED <<hook, lines, server, next, mounted, counts, clean, spoilt>>

ChangeChannels ==
  /\ gui = "entries"
  /\ gui' = "idle" /\ channel' = <<>>
  /\ UNCHANGED <<hook, lines, worker, entry, file, next, mounted, entries,
                 counts, clean, spoilt>>

-----------------------------------------------------------------------------
(* The line damages a request, which is refused or never makes a frame, or   *)
(* an answer, whose checksum is then wrong or never comes.                   *)

Faulty == faults < MaxFaults /\ faults' = faults + 1

DamageRequest ==
  /\ worker = "idle" /\ up # <<>> /\ Faulty
  /\ up' = Tail(up)
  /\ down' \in {down, down \o Frame(Head(up), "error", Text(12))}
  /\ UNCHANGED <<hook, fifo, server, disk, loads, changes, clean, spoilt>>

DamageAnswer ==
  /\ down # <<>> /\ Head(down) = Cks /\ Faulty
  /\ down' \in {Tail(down), Junk(1) \o Tail(down)}
  /\ UNCHANGED <<hook, up, fifo, server, disk, loads, changes, clean, spoilt>>

HookMoves   == Receive \/ TimeOut
ServerMoves == OpenFinds \/ OpenFindsNot \/ OpenLoads \/ OpenBreaks
               \/ OpenStores \/ Reads \/ ReadsNot \/ Closes
GuiMoves    == ChangeEntries \/ ChangeChannels

Next == Load \/ HookMoves \/ Deliver \/ ServerMoves \/ ChangeData \/ GuiMoves
        \/ DamageRequest \/ DamageAnswer

Spec     == Init /\ [][Next]_vars
\* As long as something can move, something does; the user and the line need not.
FairSpec == Spec /\ WF_vars(HookMoves \/ Deliver \/ ServerMoves \/ GuiMoves)

-----------------------------------------------------------------------------
(* Properties. *)

\* Every variable has its type: no block in memory is longer than the hook's
\* count of it can say, and the FIFO holds at most its size.
TypeOK ==
  /\ phase \in {"idle", "open", "read", "closing", "failing"}
  /\ parse \in {"magic", "cmd", "status", "len", "payload", "cks"}
  /\ resync \in 1..RESYNC /\ result \in {"none", "ok", "error"}
  /\ head \in {"ok", "eof", "error"} \X (0..CHUNK_SIZE)
  /\ \A part \in ToSet(memory) : Size(part) \in 1..CHUNK_SIZE
  /\ up \in Seq({"open", "read", "close"})
  /\ Stored \in 0..FIFO_DEPTH
  /\ worker \in {"idle", "found", "loaded"} /\ entry \in Disks \cup {0}
  /\ channel = <<>> \/ channel[1] \in Disks \X Disks
  /\ gui \in {"idle", "data", "entries"}
  /\ {next, mounted, entries} \subseteq Disks \cup {0}
  /\ loads \in 0..MaxLoads /\ changes \in 0..MaxChanges /\ faults \in 0..MaxFaults
  /\ {clean, spoilt} \subseteq BOOLEAN

\* Where the first k blocks in memory end in their file.
End(k) == IF k = 0 THEN 0 ELSE memory[k][4] + memory[k][2]

\* The blocks in memory are file f from its first byte to its last.
Whole(f) ==
  /\ \A k \in 1..Len(memory) :
       memory[k][1] = "data" /\ memory[k][3] = f /\ memory[k][4] = End(k - 1)
  /\ End(Len(memory)) = FileLen[f[1]]

\* The FIFO has room for the part that comes; what does not fit is lost.
FifoHasRoom ==
  down # <<>> => Size(Head(down)) <= FIFO_DEPTH - Stored

\* What failed LOADs leave in the FIFO fills it up in the end: nothing holds the
\* drive back and nothing empties the FIFO (rx_count in c64_core.vhd).  But not
\* at once: no byte is lost for want of room before a LOAD has failed, nor in
\* the first four LOADs with the run's bounds on damage and changes.
OverflowHasCause ==
  ~FifoHasRoom => spoilt /\ loads > 4

\* A LOAD that returns without error has stored one file, whole and in order,
\* as one OPEN found it: no block is missing, doubled, from another file or
\* from an answer to an earlier LOAD, whatever was damaged and whenever the
\* disk was changed (recv_checksum to load_done of the hook, read_channel).
LoadWhole ==
  result = "ok" => \E f \in Disks \X Disks : Whole(f)

\* The same, and the file is one disk's: its directory entry and its data are
\* of the same image (open_channel, against mount in the GUI thread).
OneDisk ==
  result = "ok" => \E d \in Disks : Whole(<<d, d>>)

\* A LOAD fails only if the disk was changed, absent or without the file, if
\* the line damaged something, or after an earlier LOAD failed: files of any
\* length, multiples of a block too, load in every interleaving.
FailureHasCause ==
  result = "error" => ~clean \/ faults > 0 \/ spoilt

\* A LOAD from a disk that stays in the drive succeeds, what came before does
\* not matter: docs/C64_V1541_UART_TECHNOTE.md 31-34.
LoadSucceeds ==
  result = "error" => ~clean \/ faults > 0

\* A LOAD ends, with the file or an error: whatever does not come is given up
\* (uart_get_timeout and its callers).
LoadEnds == (phase # "idle") ~> (phase = "idle")

=============================================================================
