------------------------------ MODULE PrgUpload ------------------------------
(***************************************************************************)
(* Uploads over UART: the PC tools (c64_uart_prg_loader.py,                *)
(* upload_monitor_hex.py, upload_monitor_hex_enter.py, upload_rom_demo.py, *)
(* c64_uart_monitor_probe.py, c64_uart_monitor_wake.py), one process after *)
(* the other, and the small monitor c64_prg_upload_monitor.vhd with the    *)
(* wake-sequence matcher of the board top.                                 *)
(*                                                                         *)
(* The line from the PC loses characters; nothing names or acknowledges a  *)
(* data line.  A process may be killed at any character (the launcher's    *)
(* Stop, Ctrl-C, a write timeout), and what the driver had left to send    *)
(* goes with it.  Assumed: a wait of the PC (polls 20 ms apart, up to 2 s)  *)
(* ends when the line is quiet, not inside a message of at most 1.4 ms.     *)
(***************************************************************************)
EXTENDS Integers, Sequences, PrgParts

CONSTANTS
  Boards,       \* ENABLE_JUMP of the boards: TRUE if "G aaaa" starts a program
  Jobs,         \* what a user may start, for each board
  BytesPerLine, \* --bytes-per-line
  Retries,      \* --wake-retries
  MaxLost,      \* bound: characters lost on the line
  MaxRuns,      \* bound: processes started
  MaxKills      \* bound: processes killed

\* "plain" stands for upload_monitor_hex_enter.py and upload_rom_demo.py,
\* which look at no answer after the banner.
Tools == {"c64", "hex", "plain", "probe", "wake"}

\* A character: a hex digit with its value, or one that has a meaning.
Ch(c)  == <<c, 0>>
Hex(n) == <<"hex", n>>
Marks  == {"A5", "5A", "C3", "3C", "cr", "sp", ".", "L", "M", "G", "R"}
Char   == {Ch(c) : c \in Marks} \cup {Hex(n) : n \in 0..15}

\* An address has four digits.  The tools for the C64 board have no --no-wake.
ASSUME ConstantsAssumption ==
  /\ {BytesPerLine, Retries} \subseteq Nat \ {0}
  /\ {MaxLost, MaxRuns, MaxKills} \subseteq Nat
  /\ Boards \subseteq BOOLEAN
  /\ \A b \in Boards : \A j \in Jobs[b] :
       /\ j.tool \in Tools /\ j.wake \in BOOLEAN
       /\ j.parts \in Seq([addr : 0..(RAMEnd - 1), data : Seq(Byte)])
       /\ j.last \in Seq(Seq(Char)) /\ j.run \in 0..(RAMEnd - 1)
       /\ j.tool \in {"c64", "hex", "plain"} => j.parts # Refused
       /\ j.tool \in {"c64", "probe", "wake"} => j.wake

VARIABLES
  job, at, tries, part, line, result, rx,    \* the process on the PC
  wire,                                      \* characters on their way
  jumps, memory, cpu,                        \* the board, and what the monitor drives
  st, magic, cmd, nibs, addr, hi, msg, ret,  \* the monitor, and the wake matcher
  runs, kills, losses,                       \* how much of each bound is used
  lost, found, written, rejected  \* history of this run: kinds of lost characters,
                                  \* monitor at its start, writes, errors it read

pc      == <<job, at, tries, part, line, result, rx>>
mon     == <<st, magic, cmd, nibs, addr, hi, msg, ret>>
board   == <<jumps, memory, cpu, mon>>
bounds  == <<runs, kills, losses>>
history == <<lost, found, written, rejected>>
vars    == <<pc, wire, board, bounds, history>>

-----------------------------------------------------------------------------
(* Characters and lines. *)

Wake   == <<Ch("A5"), Ch("5A"), Ch("C3"), Ch("3C")>>
CR     == Ch("cr")

Nibbles(a)     == <<Hex(a \div 4096), Hex((a \div 256) % 16), Hex((a \div 16) % 16), Hex(a % 16)>>
LoadCommand(a) == <<Ch("L"), Ch("sp")>> \o Nibbles(a) \o <<CR>>
RunCommand(a)  == <<Ch("G"), Ch("sp")>> \o Nibbles(a) \o <<CR>>
DumpCommand(a, b) == <<Ch("M"), Ch("sp")>> \o Nibbles(a) \o <<Ch("sp")>> \o Nibbles(b) \o <<CR>>
Release  == <<Ch("G"), CR>>
EndLoad  == <<Ch("."), CR>>
Snapshot == <<Ch("R"), CR>>

DataLine(bytes) ==
  [i \in 1..(3 * Len(bytes)) |->
     LET b == bytes[(i + 2) \div 3] IN
     CASE i % 3 = 1 -> Hex(b \div 16)
       [] i % 3 = 2 -> Hex(b % 16)
       [] OTHER     -> IF i = 3 * Len(bytes) THEN CR ELSE Ch("sp")]

\* What each tool sends: parts to load, then lines; run is where --run starts.
Job(tool, parts, last, run, wake) ==
  [tool |-> tool, parts |-> parts, last |-> last, run |-> run, wake |-> wake]

C64Job(raw, map, basic, stay) ==
  Job("c64", C64Plan(raw, map, basic), IF stay THEN <<>> ELSE <<Release>>, 0, TRUE)

\* c64_d64_prg_loader.py never looks for a sidecar.
D64Job(raw, basic, stay) == C64Job(raw, NoMap, basic, stay)

HexJob(plan, end, wake) ==
  Job("hex", plan.parts,
      CASE end = "run"     -> <<RunCommand(plan.run)>>
        [] end = "release" -> <<Release>>
        [] OTHER           -> <<>>, plan.run, wake)

EnterJob(data, address, run, enter, wake) ==
  Job("plain", <<Part(address, data)>>,
      IF run THEN <<RunCommand(address)>> \o (IF enter THEN << <<CR>> >> ELSE <<>>) ELSE <<>>,
      address, wake)

ROM_ADDR == 63488
DemoJob(data, run, wake) ==
  Job("plain", <<Part(ROM_ADDR, data)>>, IF run THEN <<RunCommand(ROM_ADDR)>> ELSE <<>>,
      ROM_ADDR, wake)

\* Registers, ranges of memory, and G with --resume.
ProbeJob(ranges, resume) ==
  Job("probe", <<>>,
      <<Snapshot>> \o [i \in DOMAIN ranges |-> DumpCommand(ranges[i][1], ranges[i][2])]
      \o (IF resume THEN <<Release>> ELSE <<>>), 0, TRUE)

ReleaseJob         == Job("wake", <<>>, <<Release>>, 0, TRUE)
TerminalJob(lines) == Job("wake", <<>>, lines, 0, TRUE)

\* What the monitor says, in the pieces that the tools look for.
Banner == <<"FPGA_MONITOR", "eol", ".">>
Prompt == <<".">>
Load   == <<">">>
Error  == <<"?", "eol", ".">>
Dump   == <<"dump", "eol", ".">>

HasPrompt(text, prompt) ==
  \E i \in DOMAIN text : text[i] = prompt /\ (i > 1 => text[i - 1] = "eol")

StartsAt(text, i, piece) == SubSeq(text, i, Lesser(i + Len(piece) - 1, Len(text))) = piece
Contains(text, piece)    == \E i \in DOMAIN text : StartsAt(text, i, piece)

HasMonitorReady(text) ==
  \/ Contains(text, <<"FPGA_MONITOR">>) /\ HasPrompt(text, ".")
  \/ Contains(text, <<"eol">> \o Error)
  \/ StartsAt(text, 1, Error)

\* check_monitor_response.
Refuses(tool, text) ==
  \/ Contains(text, <<"eol", "?", "eol">>)
  \/ tool = "c64" /\ \E i \in DOMAIN text :
       text[i] = "?" /\ \A j \in DOMAIN text \ {i} : text[j] = "eol"

-----------------------------------------------------------------------------
(* The monitor. *)

Space(c) == c[1] \in {"sp", "cr"}
Most     == IF cmd = "M" THEN 8 ELSE 4        \* digits of the command

Say(text, next) == st' = "emit" /\ msg' = text /\ ret' = next /\ cmd' = "none"

\* The wake sequence, four bytes in a row, not looked at while the monitor is
\* active.
Match_NoRestart(c) ==
  /\ st = "off"
  /\ IF magic = 3 /\ c = Wake[4] THEN Say(Banner, "cmd") /\ magic' = 0
     ELSE /\ magic' = IF magic < 3 /\ c = Wake[magic + 1] THEN magic + 1 ELSE 0
          /\ UNCHANGED <<st, cmd, msg, ret>>
  /\ UNCHANGED <<nibs, addr, hi>>

Match(c) ==
  /\ st = "off"
  /\ IF magic = 3 /\ c = Wake[4] THEN Say(Banner, "cmd") /\ magic' = 0
     ELSE /\ magic' = IF magic < 3 /\ c = Wake[magic + 1] THEN magic + 1
                      ELSE IF magic < 3 /\ c = Wake[1] THEN 1 ELSE 0
          /\ UNCHANGED <<st, cmd, msg, ret>>
  /\ UNCHANGED <<nibs, addr, hi>>

Letter(c) ==
  /\ st = "cmd" /\ cmd = "none" /\ c[1] \in {"L", "M"} \cup (IF jumps THEN {"G"} ELSE {})
  /\ cmd' = c[1] /\ addr' = 0 /\ nibs' = 0 /\ UNCHANGED <<st, magic, hi, msg, ret>>

\* The digits of an address; those of the second address of M matter to no one.
Digit(c) ==
  /\ st = "cmd" /\ cmd # "none" /\ c[1] = "hex" /\ nibs < Most /\ nibs' = nibs + 1
  /\ addr' = IF nibs < 4 THEN (16 * addr + c[2]) % RAMEnd ELSE addr
  /\ UNCHANGED <<st, magic, cmd, hi, msg, ret>>

\* Spaces where they may stand; a bare G does not wait for an address.
Skip(c) ==
  /\ Space(c)
  /\ \/ st = "load"
     \/ st = "cmd" /\ cmd = "none"
     \/ st = "cmd" /\ cmd # "none" /\ nibs \in {0, 4} \ {Most} /\ ~(cmd = "G" /\ c = CR)
  /\ UNCHANGED mon

OpenLoad(c) ==
  /\ st = "cmd" /\ cmd = "L" /\ nibs = 4 /\ Space(c)
  /\ Say(Load, "load") /\ hi' = NoCall /\ UNCHANGED <<magic, nibs, addr>>

DumpRange(c) ==
  /\ st = "cmd" /\ cmd = "M" /\ nibs = 8 /\ Space(c)
  /\ Say(Dump, "cmd") /\ UNCHANGED <<magic, nibs, addr, hi>>

LetGo(c) ==
  /\ st = "cmd"
  /\ \/ cmd = "none" /\ c[1] = "G" /\ ~jumps
     \/ cmd = "G" /\ nibs = 0 /\ c = CR
     \/ cmd = "G" /\ nibs = 4 /\ Space(c)
  /\ st' = "off" /\ cmd' = "none" /\ nibs' = 0 /\ addr' = 0 /\ hi' = NoCall /\ ret' = "off"
  /\ UNCHANGED <<magic, msg>>

\* A nibble of the data; the second one of a byte also writes it, in Take.
Nibble(c) ==
  /\ st = "load" /\ c[1] = "hex"
  /\ hi' = IF hi = NoCall THEN c[2] ELSE NoCall
  /\ addr' = IF hi = NoCall THEN addr ELSE (addr + 1) % RAMEnd
  /\ UNCHANGED <<st, magic, cmd, nibs, msg, ret>>

CloseLoad(c) ==
  /\ st = "load" /\ c = Ch(".")
  /\ Say(Prompt, "cmd") /\ hi' = NoCall /\ UNCHANGED <<magic, nibs, addr>>

\* Any other character is an error, in load mode too, which goes on.
Reject(c) ==
  /\ \/ st = "cmd" /\ cmd = "none" /\ c[1] \notin {"sp", "cr", "L", "M", "G"}
     \/ st = "cmd" /\ cmd # "none" /\ ~(c[1] = "hex" /\ nibs < Most)
        /\ ~(Space(c) /\ nibs \in {0, 4, Most})
     \/ st = "load" /\ c[1] \notin {"sp", "cr", ".", "hex"}
  /\ Say(Error, st) /\ hi' = (IF st = "load" THEN NoCall ELSE hi)
  /\ UNCHANGED <<magic, nibs, addr>>

\* While a message goes out, nobody takes a character.
Deaf == st = "emit" /\ UNCHANGED mon

Read(c) ==
  \/ Match(c) \/ Letter(c) \/ Digit(c) \/ Skip(c) \/ OpenLoad(c) \/ DumpRange(c)
  \/ LetGo(c) \/ Nibble(c) \/ CloseLoad(c) \/ Reject(c) \/ Deaf

Write(c) ==
  IF st = "load" /\ c[1] = "hex" /\ hi # NoCall
  THEN /\ memory' = [a \in DOMAIN memory \cup {addr} |->
                       IF a = addr THEN 16 * hi + c[2] ELSE memory[a]]
       /\ written' = written \cup {addr}
  ELSE UNCHANGED <<memory, written>>

\* The monitor holds the CPU, and a G lets it go.
Hold ==
  cpu' = CASE st = "off" /\ st' # "off" -> <<"held", 0>>
           [] st # "off" /\ st' = "off" ->
                IF cmd = "G" /\ nibs = 4 THEN <<"runs", addr>> ELSE <<"resumed", 0>>
           [] OTHER -> cpu

\* The next character comes in.
Take ==
  /\ wire # <<>> /\ wire' = Tail(wire)
  /\ Read(Head(wire)) /\ Write(Head(wire)) /\ Hold
  /\ UNCHANGED <<pc, jumps, bounds, lost, found, rejected>>

\* The last character of a message has left.
Emitted ==
  /\ st = "emit" /\ st' = ret /\ msg' = <<>>
  /\ rx' = IF at = "idle" THEN rx ELSE rx \o msg
  /\ UNCHANGED <<magic, cmd, nibs, addr, hi, ret>>
  /\ UNCHANGED <<job, at, tries, part, line, result, wire, jumps, memory, cpu, bounds, history>>

\* A character is lost on the line.
Lose ==
  /\ wire # <<>> /\ losses < MaxLost
  /\ wire' = Tail(wire) /\ losses' = losses + 1
  /\ lost' = lost \cup {CASE at = "lines" -> "data"
                          [] at = "dot" /\ Head(wire) = CR -> "end_of_line"
                          [] OTHER -> at}
  /\ UNCHANGED <<pc, board, runs, kills, found, written, rejected>>

-----------------------------------------------------------------------------
(* The process on the PC. *)

Sent  == wire = <<>>                     \* flush() returned
Quiet == Sent /\ st # "emit"             \* what had to come has come

Parts == job.parts
Lines == HexLines(Parts[part].data, BytesPerLine)

Init ==
  /\ jumps \in Boards /\ job \in Jobs[jumps] /\ at = "idle" /\ tries = 0 /\ part = 1 /\ line = 1
  /\ result = "none" /\ rx = <<>> /\ wire = <<>>
  /\ st \in {"off", "cmd"} /\ magic = 0 /\ cmd = "none" /\ nibs = 0 /\ addr = 0 /\ hi = NoCall
  /\ msg = <<>> /\ ret = "off"
  /\ memory = <<>> /\ cpu = <<IF st = "off" THEN "resumed" ELSE "held", 0>>
  /\ runs = 0 /\ kills = 0 /\ losses = 0
  /\ lost = {} /\ found = "off" /\ written = {} /\ rejected = FALSE

\* What the process does after its last wait.
AfterPart(p) == IF p <= Len(Parts) THEN "load" ELSE "last"

Start(j) ==
  /\ at = "idle" /\ Quiet /\ runs < MaxRuns
  /\ job' = j /\ runs' = runs + 1 /\ tries' = 0 /\ part' = 1 /\ line' = 1
  /\ at' = IF j.wake THEN "wake" ELSE IF j.parts = <<>> THEN "last" ELSE "load"
  /\ result' = "none" /\ rx' = <<>>
  /\ lost' = {} /\ written' = {} /\ rejected' = FALSE
  /\ losses' = 0 /\ found' = IF cmd # "none" THEN "typing"
                            ELSE IF magic = 3 THEN "half_awake" ELSE st
  /\ UNCHANGED <<wire, board, kills>>

Goto(step) == at' = step /\ UNCHANGED <<job, tries, result>>
Exit(r)    == at' = "idle" /\ result' = r /\ UNCHANGED <<job, tries, part, line>>
Send(text) == wire' = text /\ UNCHANGED <<board, bounds, history>>
Hear(yes)  == rejected' = (rejected \/ yes) /\ UNCHANGED <<wire, board, bounds, lost, found, written>>

SendWake_Uncounted ==
  /\ at = "wake" /\ Sent /\ at' = "waking"
  /\ rx' = IF job.tool \in {"c64", "probe", "wake"} THEN rx ELSE <<>>
  /\ UNCHANGED <<job, tries, part, line, result>> /\ Send(Wake \o <<CR>>)

SendWake ==
  /\ at = "wake" /\ Sent /\ at' = "waking" /\ tries' = tries + 1
  /\ rx' = IF job.tool \in {"c64", "probe", "wake"} THEN rx ELSE <<>>
  /\ UNCHANGED <<job, part, line, result>> /\ Send(Wake \o <<CR>>)

\* The C64 loader keeps what it read in earlier attempts, and an error prompt
\* will do; the others want the banner.
LoaderWoken   == HasMonitorReady(rx)
BannerSeen    == Contains(rx, <<"FPGA_MONITOR">>)
TerminalWoken == BannerSeen /\ (rx[Len(rx)] = "." \/ tries >= Retries)

Woken ==
  CASE job.tool \in {"c64", "probe"} -> LoaderWoken
    [] job.tool = "wake"             -> TerminalWoken
    [] OTHER                         -> BannerSeen

WakeAnswered ==
  /\ at = "waking" /\ Quiet
  /\ \/ Woken /\ Goto(AfterPart(part)) /\ rx' = <<>> /\ UNCHANGED <<part, line>>
     \/ ~Woken /\ tries < Retries /\ Goto("wake") /\ UNCHANGED <<rx, part, line>>
     \/ ~Woken /\ tries >= Retries /\ Exit("no_monitor") /\ UNCHANGED rx
  /\ Hear(FALSE)

SendLoad ==
  /\ at = "load" /\ Goto("loading") /\ UNCHANGED <<part, line, rx>>
  /\ Send(LoadCommand(Parts[part].addr))

LoadAnswered_Blind ==
  /\ at = "loading" /\ Quiet
  /\ Goto("lines") /\ line' = 1 /\ UNCHANGED part
  /\ rx' = <<>> /\ Hear(Contains(rx, <<"?">>))

\* Only the C64 loader wants to see the prompt of the load mode.
LoadAnswered ==
  LET prompted == HasPrompt(rx, ">")
  IN  /\ at = "loading" /\ Quiet
      /\ IF \/ job.tool \in {"c64", "hex"} /\ Refuses(job.tool, rx)
            \/ job.tool = "c64" /\ ~prompted
         THEN Exit("no_load_mode")
         ELSE Goto("lines") /\ line' = 1 /\ UNCHANGED part
      /\ rx' = <<>> /\ Hear(Contains(rx, <<"?">>))

SendLine ==
  /\ at = "lines" /\ Sent /\ line <= Len(Lines)
  /\ Goto("lines") /\ line' = line + 1 /\ UNCHANGED <<part, rx>>
  /\ Send(DataLine(Lines[line]))

SendDot ==
  /\ at = "lines" /\ Sent /\ line > Len(Lines)
  /\ Goto("dot") /\ UNCHANGED <<part, line, rx>>
  /\ Send(EndLoad)

DotAnswered ==
  /\ at = "dot" /\ Quiet
  /\ IF job.tool \in {"c64", "hex"} /\ Refuses(job.tool, rx) THEN Exit("refused")
     ELSE Goto(AfterPart(part + 1)) /\ part' = part + 1 /\ line' = 1
  /\ rx' = <<>> /\ Hear(Contains(rx, <<"?">>))

\* G, the ENTER after it, the lines of the probe or of the terminal; each
\* waits until nothing comes any more.
SendLast ==
  /\ at = "last" /\ Quiet /\ line <= Len(job.last)
  /\ Goto("last") /\ line' = line + 1 /\ rx' = <<>> /\ UNCHANGED part
  /\ Send(job.last[line])

Complete ==
  /\ at = "last" /\ Quiet /\ line > Len(job.last)
  /\ Exit("complete") /\ rx' = <<>> /\ Hear(FALSE)

\* The process ends at once; n characters still go out.
Kill(n) ==
  /\ at # "idle" /\ kills < MaxKills /\ kills' = kills + 1
  /\ Exit("killed") /\ rx' = <<>> /\ wire' = SubSeq(wire, 1, n)
  /\ UNCHANGED <<board, runs, losses, history>>

PcMoves ==
  \/ SendWake \/ WakeAnswered \/ SendLoad \/ LoadAnswered \/ SendLine
  \/ SendDot \/ DotAnswered \/ SendLast \/ Complete

BoardMoves == Take \/ Emitted

Next ==
  \/ PcMoves \/ BoardMoves \/ Lose
  \/ \E j \in Jobs[jumps] : Start(j)
  \/ \E n \in 0..Len(wire) : Kill(n)

Spec == Init /\ [][Next]_vars

\* The tools' waits all end, the UART goes on; users and faults owe nothing.
FairSpec == Spec /\ WF_vars(PcMoves) /\ WF_vars(BoardMoves)

-----------------------------------------------------------------------------
(* Properties. *)

Uploads == job.tool \in {"c64", "hex", "plain"}
Image   == ImageOf(Parts)
Loaded  == \A a \in DOMAIN Image : a \in DOMAIN memory /\ memory[a] = Image[a]

\* Where the CPU is left: released, started at an address, or held.
Ending ==
  IF job.last = <<>> THEN <<"held", 0>>
  ELSE IF jumps /\ Len(job.last[1]) > 2 THEN <<"runs", job.run>> ELSE <<"resumed", 0>>

TypeOK ==
  /\ job \in Jobs[jumps] /\ tries \in 0..Retries /\ part \in Nat /\ line \in Nat
  /\ at \in {"idle", "wake", "waking", "load", "loading", "lines", "dot", "last"}
  /\ result \in {"none", "complete", "no_monitor", "no_load_mode", "refused", "killed"}
  /\ st \in {"off", "cmd", "load", "emit"} /\ ret \in {"off", "cmd", "load"}
  /\ cmd \in {"none", "L", "M", "G"} /\ addr \in 0..(RAMEnd - 1) /\ nibs \in 0..8
  /\ hi \in {NoCall} \cup 0..15 /\ magic \in 0..3
  /\ \A a \in DOMAIN memory : memory[a] \in Byte
  /\ runs \in 0..MaxRuns /\ kills \in 0..MaxKills /\ losses \in 0..MaxLost

\* "Upload complete" means that the image is in memory.  The C64 loader, which
\* waits for the load prompt, says it truly after any history of killed runs
\* and whatever it lost but a data character; the others if nothing was lost
\* and the monitor was in its start state.  If nothing was lost, the CPU was
\* released or started too.
CompleteIsLoaded ==
  (result = "complete" /\ Uploads
   /\ IF job.tool = "c64" THEN "data" \notin lost
      ELSE lost = {} /\ (job.wake \/ found = "cmd"))
  => Loaded /\ (lost = {} => cpu = Ending)

\* Whatever characters are lost, no byte goes where the image has none, as
\* long as no run has left the monitor in load mode (a lost ".", a killed
\* run), or, for a tool that does not wake it, inside a command.  A tool that
\* does not wait for the load prompt may lose two characters: with the CR and
\* two digits of an L lost, the first byte of the data ends the address.
NoStrayByte ==
  (Uploads /\ "dot" \notin lost /\ found # "load" /\ (found = "typing" => job.wake)
   /\ (job.tool = "c64" \/ losses < 3 \/ "loading" \notin lost))
  => written \subseteq DOMAIN Image

\* Jobs as the tools build them: no part runs past the end of memory, which the
\* C64 loader checks and the others leave to their user; the last lines of an
\* upload are G, or G with an address and maybe an ENTER.
LastFits(j) ==
  /\ j.last \in {<<>>, <<Release>>, <<RunCommand(j.run)>>, <<RunCommand(j.run), <<CR>> >>}
  /\ j.tool = "c64" => j.last \in {<<>>, <<Release>>}
JobsFit ==
  \A b \in Boards : \A j \in Jobs[b] : j.tool \in {"c64", "hex", "plain"} =>
     /\ \A i \in DOMAIN j.parts : j.parts[i].addr + Len(j.parts[i].data) <= RAMEnd
     /\ LastFits(j)

\* An upload writes the image and nothing else: all of it if the tool says so,
\* and at its own addresses only whatever the tool says.
ImageArrives == CompleteIsLoaded /\ NoStrayByte

\* A tool gives up only with a cause: as many lost characters as it tries to
\* wake the monitor; a wake sequence lost whole, so that its CR carries out
\* what a killed run had typed (no later answer is then taken for ready); for
\* those that want the banner, a monitor that is already active; and for the
\* C64 loader's load prompt a lost character or a monitor in load mode.
FailureHasCause ==
  /\ result = "no_monitor" =>
       \/ losses + (IF found = "half_awake" THEN 1 ELSE 0) >= Retries
       \/ found = "typing" /\ losses >= Len(Wake)
       \/ job.tool \notin {"c64", "probe"} /\ found \in {"cmd", "load", "typing"}
  /\ result = "no_load_mode" => lost # {} \/ found = "load"
  /\ result # "refused"

\* Every process ends, whatever is lost: no wait is for ever.
RunEnds == at # "idle" ~> at = "idle"

\* upload_monitor_hex.py: a command the monitor rejected is not reported as
\* success.
RejectedIsReported == (job.tool = "hex" /\ result = "complete") => ~rejected

\* A run of the C64 loader on a working line succeeds, whatever was before it.
UploadSucceeds ==
  (job.tool = "c64" /\ lost = {} /\ at = "idle" /\ runs > 0) => result \in {"complete", "killed"}
=============================================================================
