----------------------------- MODULE MonitorProofs -----------------------------
(***************************************************************************)
(* What is proved of the monitors: the uploads over UART (PrgUpload), for  *)
(* every set of jobs and every number of runs, kills and lost characters,  *)
(* and the jump with G (MonitorJump), for every vector and pulse length.   *)
(*                                                                         *)
(* The uploads.  UploadInv is inductive as it stands: Shape (monitor, CPU, *)
(* line and buffer), Steps (process and counters), Sending (the line holds *)
(* the rest of what the process sent), Waking (what attempts cost), Clean  *)
(* (a run that lost nothing is in step with the monitor), Fresh and        *)
(* Deceived (cleared buffers; a load mode left by an earlier run).  With   *)
(* jobs as the tools build them so is UploadInvFit: Stray (the monitor is  *)
(* never ahead of the line, and in load mode only at an address of the     *)
(* image), Finish (the CPU at the end) and Faith (the bytes that have gone *)
(* are in memory, unless a later part is over them).                       *)
(*                                                                         *)
(* The jump.  JumpInv adds to the properties where the override and the    *)
(* low byte stand in each cycle of the reset sequence.                     *)
(***************************************************************************)
EXTENDS PrgUpload, MonitorJump, SequenceTheorems, FiniteSetTheorems, WellFoundedInduction, TLAPS

\* What the monitor says, and where it is going while it says it.
Messages == {Banner, Prompt, Load, Error, Dump}
Pieces   == {"FPGA_MONITOR", "eol", ".", ">", "?", "dump"}
Mode    == IF st = "emit" THEN ret ELSE st
CmdIdle == Mode = "cmd" /\ cmd = "none"
Calm    == Mode = "off" \/ CmdIdle

\* What the monitor has said since the process last cleared its buffer.
In(p, text)   == \E i \in DOMAIN text : text[i] = p
Said(p)       == In(p, rx) \/ In(p, msg)
FirstIs(p)    == IF rx = <<>> THEN msg # <<>> /\ msg[1] = p ELSE rx[1] = p
LastIs(p)     == IF msg = <<>> THEN rx # <<>> /\ rx[Len(rx)] = p ELSE msg[Len(msg)] = p
Nothing       == rx = <<>> /\ msg = <<>>

\* No message is cut: an error, the banner and a dump end with their prompt.
Proper(text) ==
  \A i \in DOMAIN text :
    /\ text[i] \in {"?", "FPGA_MONITOR", "dump"} =>
         i + 2 <= Len(text) /\ text[i + 1] = "eol" /\ text[i + 2] = "."
    /\ text[i] = "eol" => i + 1 <= Len(text) /\ text[i + 1] = "."

\* A monitor with a message to say, or none; half a command only where one is
\* read; the matcher at rest while the monitor is active.
MonitorShape ==
  /\ st \in {"off", "cmd", "load", "emit"} /\ ret \in {"off", "cmd", "load"}
  /\ cmd \in {"none", "L", "M", "G"} /\ nibs \in 0..8 /\ addr \in 0..(RAMEnd - 1)
  /\ hi \in {NoCall} \cup 0..15 /\ magic \in 0..3 /\ msg \in {<<>>} \cup Messages
  /\ st = "emit" <=> msg # <<>>
  /\ st = "emit" => cmd = "none" /\ ret # "off"
  /\ st \in {"off", "load"} => cmd = "none"
  /\ st # "off" => magic = 0

\* The monitor is in a state of its own, it holds the CPU exactly while it is
\* active, and line and buffer hold what they may.
Shape ==
  /\ MonitorShape
  /\ cpu = <<"held", 0>> <=> st # "off"
  /\ \A a \in DOMAIN memory : memory[a] \in Byte
  /\ wire \in Seq(Char) /\ rx \in Seq(Pieces) /\ Proper(rx)

\* Where the process is, against its counters.
Steps ==
  /\ jumps \in Boards /\ job \in Jobs[jumps] /\ tries \in 0..Retries
  /\ part \in Nat \ {0} /\ line \in Nat \ {0}
  /\ at \in {"idle", "wake", "waking", "load", "loading", "lines", "dot", "last"}
  /\ result \in {"none", "complete", "no_monitor", "no_load_mode", "refused", "killed"}
  /\ found \in {"off", "half_awake", "cmd", "typing", "load"}
  /\ runs \in 0..MaxRuns /\ kills \in 0..MaxKills /\ losses \in 0..MaxLost
  /\ losses = 0 <=> lost = {}
  /\ at # "idle" => result = "none"
  /\ (at = "idle" /\ result # "killed") => Quiet
  /\ at \in {"wake", "load"} => Quiet
  /\ at \in {"wake", "waking"} => part = 1 /\ line = 1 /\ job.wake
  /\ at = "wake" => tries < Retries
  /\ at \in {"load", "loading", "lines", "dot"} => part <= Len(Parts)
  /\ at = "last" => part > Len(Parts)

-----------------------------------------------------------------------------
\* What is left of a text.
IsRest(w, text) ==
  /\ Len(w) <= Len(text)
  /\ \A i \in 1..Len(w) : w[i] = text[Len(text) - Len(w) + i]
Left(text) == IsRest(wire, text)

\* The tools that keep what they heard in earlier attempts; a matcher that was
\* half way when the run began, and one that is now.
Keeps == job.tool \in {"c64", "probe", "wake"}
Half  == IF found = "half_awake" THEN 1 ELSE 0
Owed  == IF magic = 3 THEN 1 ELSE 0

\* Every attempt that fails has lost a character, or met a matcher that was
\* half way through the sequence.
Credit ==
  LET spare == losses + Half - tries IN
    \/ spare >= Owed
    \/ Len(wire) = 5 /\ spare + 1 >= Owed
    \/ Len(wire) \in 2..4 /\ magic = 5 - Len(wire) /\ spare >= -1
    \/ Len(wire) = 1 /\ spare >= 0

\* While a process wakes the monitor: the banner means a monitor that is ready,
\* and without one the attempts are paid for by lost characters.
Waking ==
  at \in {"wake", "waking"} =>
    /\ at = "waking" => tries > 0
    /\ Said("FPGA_MONITOR") => CmdIdle /\ LastIs(".") /\ at = "waking"
    /\ found = "load" => Mode = "load"
    /\ found = "cmd" => CmdIdle
    /\ found # "load" /\ Keeps => /\ Nothing => Mode # "load"
                                  /\ FirstIs("?") => CmdIdle
    /\ found \in {"off", "half_awake"} => Said("FPGA_MONITOR") \/ (st = "off" /\ Credit)
    /\ (found \in {"cmd", "load"} /\ job.tool \in {"c64", "probe"}) =>
         FirstIs("?") \/ (Nothing /\ \/ losses >= tries
                                     \/ Len(wire) = 5 /\ losses + 1 >= tries)
    /\ (found = "typing" /\ job.tool \in {"c64", "probe"}) =>
         \/ losses >= 4 \/ FirstIs("?")
         \/ /\ Nothing /\ st = "cmd" /\ cmd # "none" /\ tries <= 1
            /\ tries = 1 => losses >= 5 - Len(wire)

-----------------------------------------------------------------------------
(* The line. *)

\* The part that is being sent.
Size == Len(Parts[part].data)
Addr == Parts[part].addr

\* Digits of an address in the first x characters of a command, and the
\* number that k of them make.
Digs(x)      == IF x <= 2 THEN 0 ELSE IF x <= 6 THEN x - 2 ELSE 4
Prefix(a, k) == CASE k = 0 -> 0 [] k = 1 -> a \div 4096 [] k = 2 -> a \div 256
                  [] k = 3 -> a \div 16 [] OTHER -> a

\* Characters of a text that have left the line, read or lost.
Gone(text) == Len(text) - Len(wire)

\* The command L, of which x characters have gone.
Typed(a, x) == nibs <= Digs(x) /\ (nibs = Digs(x) => addr = Prefix(a, nibs))
Ready(a)    == Mode = "load" /\ addr = a /\ hi = NoCall

\* Characters of the part that have gone, and nibbles in the first x of them.
SentBytes  == Lesser((line - 1) * BytesPerLine, Size)
DataGone   == 3 * SentBytes - Len(wire)
NibblesOf(x)  == 2 * (x \div 3) + Lesser(x % 3, 2)

\* The i-th character of the part's data, and a line that holds the characters
\* after the x-th, up to some of them.
IsData(i, c) ==
  /\ i % 3 = 1 => c = Hex(Parts[part].data[(i + 2) \div 3] \div 16)
  /\ i % 3 = 2 => c = Hex(Parts[part].data[(i + 2) \div 3] % 16)
  /\ i % 3 = 0 => c \in {Ch("sp"), CR}

DataLeft(x) ==
  /\ x \in Nat /\ x + Len(wire) <= 3 * Size
  /\ \A i \in 1..Len(wire) : IsData(x + i, wire[i])

\* What is on the line belongs to the step the process is in.
Sending ==
  /\ at = "waking" => Left(Wake \o <<CR>>)
  /\ at = "loading" => Left(LoadCommand(Addr))
  /\ at = "lines" => DataLeft(DataGone) /\ DataGone \in Nat
  /\ at = "dot" => Left(EndLoad)
  /\ at = "last" => /\ line <= Len(job.last) + 1
                    /\ line = 1 => wire = <<>>
                    /\ line > 1 => Left(job.last[line - 1])

-----------------------------------------------------------------------------
(* No stray byte. *)

StrayHyp ==
  /\ Uploads /\ "dot" \notin lost /\ found # "load" /\ (found = "typing" => job.wake)
  /\ job.tool = "c64" \/ losses < 3 \/ "loading" \notin lost

NoHex == \A i \in DOMAIN wire : wire[i][1] # "hex"
NoL   == \A i \in DOMAIN wire : wire[i][1] # "L"

\* With x characters of the command L gone, the monitor is calm, or has some
\* of the digits and a lost character for each it has not, or is in load mode
\* at the right address.
StrayLoading(x) ==
  \/ Calm
  \/ /\ st = "cmd" /\ cmd = "L" /\ Typed(Addr, x) /\ x > 0 /\ ~Said(">")
     /\ "loading" \in lost \/ (nibs = Digs(x) /\ x < 7)
     /\ losses >= Digs(x) - nibs + (IF x = 7 /\ nibs > 0 THEN 1 ELSE 0)
  \/ x = 7 /\ Ready(Addr)

\* An L whose CR is lost takes a digit or two of the data, and is then rejected
\* at a space: its address is not complete unless three characters were lost.
HalfLoad(x) ==
  /\ st = "cmd" /\ cmd = "L" /\ "loading" \in lost /\ job.tool # "c64"
  /\ \/ x = 0 /\ nibs = 4 /\ losses >= 1
     \/ x = 0 /\ nibs = 3 /\ losses >= 2
     \/ x = 1 /\ nibs = 4 /\ losses >= 2

\* In load mode the monitor is never ahead of the line: lost characters only
\* keep it back.
Ahead(x) ==
  /\ st = "load"
  /\ \E u \in 0..Size : /\ addr = (Addr + u) % RAMEnd
                        /\ 2 * u + (IF hi = NoCall THEN 0 ELSE 1) <= NibblesOf(x)

StrayLines(x) == Calm \/ HalfLoad(x) \/ Ahead(x)

\* What a killed process leaves on the line finds a monitor that ignores it, or
\* one that it cannot take out of the image.
StrayCommand(x) ==
  /\ x + Len(wire) <= 7
  /\ \A i \in 1..Len(wire) : wire[i] = LoadCommand(Addr)[x + i]
  /\ cmd = "L" => nibs <= Digs(x)
  /\ Mode = "load" => wire = <<>>

StrayIdle ==
  \/ NoHex
  \/ Mode # "load" /\ cmd # "L" /\ NoL
  \/ part <= Len(Parts) /\ \E x \in 0..7 : StrayCommand(x)
  \/ part <= Len(Parts) /\ \E x \in Nat : DataLeft(x) /\ StrayLines(x)

Stray ==
  StrayHyp =>
    /\ written \subseteq DOMAIN Image
    /\ at = "idle" => StrayIdle
    /\ at = "load" => Calm
    /\ at = "loading" => StrayLoading(Gone(LoadCommand(Addr)))
    /\ at = "lines" => StrayLines(DataGone)
    /\ at = "dot" => Calm \/ (Len(wire) = 2 /\ (st = "load" \/ (st = "cmd" /\ cmd = "L")))
    /\ at = "last" => Mode # "load" /\ cmd # "L" /\ NoL

-----------------------------------------------------------------------------
(* A run that loses nothing. *)

CleanHyp == /\ Uploads /\ lost = {} /\ (job.wake \/ found = "cmd")
            /\ (job.tool = "c64" => found # "load")

\* The monitor has read all of the x characters of a command that have gone.
Came(a, x) == st = "cmd" /\ nibs = Digs(x) /\ addr = Prefix(a, nibs)

CleanLoading(x) ==
  /\ x = 0 => CmdIdle /\ Nothing
  /\ x \in 1..6 => cmd = "L" /\ Came(Addr, x) /\ Nothing
  /\ x = 7 => Ready(Addr) /\ FirstIs(">")

CleanLast(x) ==
  CASE x = 0 -> st = "cmd" /\ cmd = "none"
    [] x > 0 /\ jumps /\ x < Len(job.last[1]) -> cmd = "G" /\ Came(job.run, x)
    [] OTHER -> st = "off" /\ cpu = Ending

Clean ==
  CleanHyp =>
    /\ at = "load" => CmdIdle /\ Nothing
    /\ at = "loading" => CleanLoading(Gone(LoadCommand(Addr)))
    /\ at = "lines" => st = "load"
    /\ at = "dot" => /\ Len(wire) = 2 => st = "load"
                     /\ Len(wire) # 2 => CmdIdle
    /\ (at = "last" /\ line = 1) => CmdIdle

\* It ends with the CPU where its last line puts it.
Finish ==
  CleanHyp =>
    /\ (at = "last" /\ line = 2) => CleanLast(Gone(job.last[1]))
    /\ (at = "last" /\ line = 3) => st = "off" /\ cpu = Ending
    /\ result = "complete" => cpu = Ending

-----------------------------------------------------------------------------
(* The image in memory. *)

FaithHyp ==
  Uploads /\ IF job.tool = "c64" THEN "data" \notin lost
             ELSE lost = {} /\ (job.wake \/ found = "cmd")

\* All of the parts before part p, and w bytes of it, are in memory, each
\* unless a later one is over it.
Done(p, w, i, k) == i < p \/ (i = p /\ k <= w)
At(i, k)         == Parts[i].addr + k - 1
Stored(p, w) ==
  \A i \in DOMAIN Parts : \A k \in DOMAIN Parts[i].data :
    \/ ~Done(p, w, i, k)
    \/ \E j \in DOMAIN Parts : \E l \in DOMAIN Parts[j].data :
         j > i /\ Done(p, w, j, l) /\ At(j, l) = At(i, k)
    \/ At(i, k) \in DOMAIN memory /\ memory[At(i, k)] = Parts[i].data[k]

\* The C64 loader may send its L to a monitor that cannot read it, but then no
\* load prompt comes; otherwise the address arrives whole.
FaithLoading(x) ==
  \/ job.tool = "c64" /\ ~Said(">") /\ Mode \in {"off", "load"}
  \/ /\ Stored(part, 0) /\ ~Said(">") /\ Mode = "cmd" /\ cmd \in {"none", "L"}
     /\ cmd = "L" => Typed(Addr, x)
  \/ Stored(part, 0) /\ x = 7 /\ Ready(Addr)

\* Every character of the data that has gone has been read.
FaithLines(x) ==
  LET w == (x + 1) \div 3 IN
  /\ st = "load" /\ addr = (Addr + w) % RAMEnd /\ Stored(part, w)
  /\ hi = IF x % 3 = 1 THEN Parts[part].data[w + 1] \div 16 ELSE NoCall

Faith ==
  FaithHyp =>
    /\ at \in {"load", "last"} => Stored(part, 0)
    /\ at = "load" => cmd = "none"
    /\ at = "loading" => FaithLoading(Gone(LoadCommand(Addr)))
    /\ at = "lines" => FaithLines(DataGone)
    /\ at = "dot" => Stored(part + 1, 0) /\ cmd = "none"
    /\ result = "complete" => Stored(Len(Parts) + 1, 0)

\* A load mode that an earlier run has left: no prompt, and so the C64 loader
\* gets no further.
Deceived ==
  (job.tool = "c64" /\ found = "load") =>
    /\ at \in {"idle", "wake", "waking", "load", "loading"} /\ result # "complete"
    /\ at \in {"load", "loading"} => Mode = "load" /\ ~Said(">")

\* A buffer that was just cleared is empty, and no message is under way.
Fresh ==
  /\ at = "load" => Nothing
  /\ at = "loading" /\ Gone(LoadCommand(Addr)) = 0 => Nothing

-----------------------------------------------------------------------------
(* Characters and messages. *)

LEMMA Texts ==
  /\ Messages \subseteq Seq(Pieces) /\ <<>> \notin Messages
  /\ {Banner, Prompt, Load, Error, Dump} \subseteq Messages
  /\ \A m \in Messages : Len(m) \in 1..3 /\ Proper(m)
<1>1. Banner \in Seq(Pieces) /\ Len(Banner) = 3 /\ Proper(Banner)
  <2>1. Banner \in Seq(Pieces)
    BY DEF Pieces, Banner
  <2>2. Len(Banner) = 3
    BY DEF Banner
  <2>3. Proper(Banner)
    BY DEF Banner, Proper
  <2> QED
    BY <2>1, <2>2, <2>3
<1>2. Prompt \in Seq(Pieces) /\ Len(Prompt) = 1 /\ Proper(Prompt)
  <2>1. Prompt \in Seq(Pieces)
    BY DEF Pieces, Prompt
  <2>2. Len(Prompt) = 1
    BY DEF Prompt
  <2>3. Proper(Prompt)
    BY DEF Prompt, Proper
  <2> QED
    BY <2>1, <2>2, <2>3
<1>3. Load \in Seq(Pieces) /\ Len(Load) = 1 /\ Proper(Load)
  <2>1. Load \in Seq(Pieces)
    BY DEF Pieces, Load
  <2>2. Len(Load) = 1
    BY DEF Load
  <2>3. Proper(Load)
    BY DEF Load, Proper
  <2> QED
    BY <2>1, <2>2, <2>3
<1>4. Error \in Seq(Pieces) /\ Len(Error) = 3 /\ Proper(Error)
  <2>1. Error \in Seq(Pieces)
    BY DEF Pieces, Error
  <2>2. Len(Error) = 3
    BY DEF Error
  <2>3. Proper(Error)
    BY DEF Error, Proper
  <2> QED
    BY <2>1, <2>2, <2>3
<1>5. Dump \in Seq(Pieces) /\ Len(Dump) = 3 /\ Proper(Dump)
  <2>1. Dump \in Seq(Pieces)
    BY DEF Pieces, Dump
  <2>2. Len(Dump) = 3
    BY DEF Dump
  <2>3. Proper(Dump)
    BY DEF Dump, Proper
  <2> QED
    BY <2>1, <2>2, <2>3
<1>6. \A m \in Messages : m \in {Banner, Prompt, Load, Error, Dump}
  BY DEF Messages
<1>7. \A m \in Messages : m \in Seq(Pieces) /\ Len(m) \in 1..3 /\ Proper(m)
  BY ONLY <1>1, <1>2, <1>3, <1>4, <1>5, <1>6
<1>8. {Banner, Prompt, Load, Error, Dump} \subseteq Messages
  BY DEF Messages
<1>9. <<>> \notin Messages
  <2>1. Len(<<>>) = 0
    OBVIOUS
  <2>2. \A n : n = 0 => n \notin 1..3
    OBVIOUS
  <2>3. <<>> \in Messages => Len(<<>>) \in 1..3
    BY ONLY <1>7
  <2> QED
    BY ONLY <2>1, <2>2, <2>3
<1>10. Messages \subseteq Seq(Pieces)
  BY ONLY <1>7
<1> QED
  BY ONLY <1>7, <1>8, <1>9, <1>10

\* Two texts, one after the other.
LEMMA Joined ==
  ASSUME NEW S, NEW s \in Seq(S), NEW t \in Seq(S)
  PROVE  /\ s \o t \in Seq(S) /\ Len(s \o t) = Len(s) + Len(t)
         /\ \A i \in 1..Len(s) : (s \o t)[i] = s[i]
         /\ \A i \in 1..Len(t) : (s \o t)[Len(s) + i] = t[i]
<1>1. s \o t \in Seq(S) /\ Len(s \o t) = Len(s) + Len(t)
  OBVIOUS
<1>2. \A i \in 1..Len(s) : (s \o t)[i] = s[i]
  OBVIOUS
<1>3. \A i \in 1..Len(t) : (s \o t)[Len(s) + i] = t[i]
  OBVIOUS
<1> QED
  BY ONLY <1>1, <1>2, <1>3

\* What every character is: a digit or a mark.
LEMMA Chars ==
  ASSUME NEW c \in Char
  PROVE  \/ c[1] = "hex" /\ c[2] \in 0..15 /\ c = Hex(c[2])
         \/ c[1] # "hex" /\ c[1] \in Marks /\ c = Ch(c[1])
BY DEF Char, Marks, Ch, Hex

LEMMA WireTail ==
  ASSUME wire \in Seq(Char), wire # <<>>, wire' = Tail(wire)
  PROVE  /\ Head(wire) \in Char /\ Head(wire) = wire[1] /\ wire' \in Seq(Char)
         /\ Len(wire) \in Nat /\ Len(wire) > 0 /\ Len(wire') = Len(wire) - 1
         /\ \A i \in 1..Len(wire') : wire'[i] = wire[i + 1]
OBVIOUS

-----------------------------------------------------------------------------
(* The shape of the monitor. *)

LEMMA SayShape ==
  ASSUME MonitorShape, NEW text \in Messages, NEW next \in {"cmd", "load"},
         Say(text, next), magic' = 0, UNCHANGED <<nibs, addr>>, hi' \in {NoCall} \cup 0..15
  PROVE  MonitorShape'
<1>1. st' = "emit" /\ msg' = text /\ ret' = next /\ cmd' = "none" /\ text # <<>>
  BY Texts DEF Say
<1> QED
  <2>1. /\ st' \in {"off", "cmd", "load", "emit"} /\ ret' \in {"off", "cmd", "load"}
        /\ cmd' \in {"none", "L", "M", "G"} /\ magic' \in 0..3
    BY ONLY <1>1, next \in {"cmd", "load"}, magic' = 0
  <2>2. nibs' \in 0..8 /\ addr' \in 0..(RAMEnd - 1)
    BY ONLY MonitorShape, nibs' = nibs, addr' = addr DEF MonitorShape
  <2>3. /\ st' = "emit" <=> msg' # <<>>
        /\ st' = "emit" => cmd' = "none" /\ ret' # "off"
        /\ st' \in {"off", "load"} => cmd' = "none"
        /\ st' # "off" => magic' = 0
        /\ msg' \in {<<>>} \cup Messages
    BY ONLY <1>1, next \in {"cmd", "load"}, magic' = 0, text \in Messages
  <2> QED
    BY ONLY <2>1, <2>2, <2>3, hi' \in {NoCall} \cup 0..15 DEF MonitorShape

LEMMA EndIs == /\ RAMEnd \in Nat /\ 0 < RAMEnd /\ RAMEnd <= 65536
               /\ \A z : z % RAMEnd = z % 65536
BY DEF RAMEnd

LEMMA AddrRange ==
  ASSUME NEW a \in Int
  PROVE  a % RAMEnd \in 0..(RAMEnd - 1)
<1> QED
  BY ONLY a \in Int, EndIs

LEMMA ReadShape ==
  ASSUME MonitorShape, NEW c \in Char, Read(c)
  PROVE  MonitorShape'
<1>0. {Banner, Prompt, Load, Error, Dump} \subseteq Messages
  BY Texts
<1>a. /\ st \in {"off", "cmd", "load", "emit"} /\ ret \in {"off", "cmd", "load"}
      /\ cmd \in {"none", "L", "M", "G"} /\ nibs \in 0..8 /\ addr \in 0..(RAMEnd - 1)
      /\ hi \in {NoCall} \cup 0..15 /\ magic \in 0..3 /\ (st # "off" => magic = 0)
      /\ (st = "emit" <=> msg # <<>>)
      /\ (st \in {"off", "load"} => cmd = "none")
  BY DEF MonitorShape
<1>b. 0 \in 0..(RAMEnd - 1) /\ RAMEnd \in Int
  BY EndIs
<1>1. CASE Match(c)
  <2>1. CASE magic = 3 /\ c = Wake[4]
    <3>1. Say(Banner, "cmd") /\ magic' = 0 /\ UNCHANGED <<nibs, addr, hi>>
      BY <1>1, <2>1 DEF Match
    <3> QED
      BY <1>0, <1>a, <3>1, SayShape
  <2>2. CASE ~(magic = 3 /\ c = Wake[4])
    <3>1. magic' \in 0..3
      <4>1. (magic' = magic + 1 /\ magic < 3) \/ magic' = 1 \/ magic' = 0
        BY <1>1, <2>2 DEF Match
      <4> QED
        BY ONLY <4>1, <1>a
    <3>2. UNCHANGED <<st, cmd, msg, ret, nibs, addr, hi>> /\ st = "off"
      BY <1>1, <2>2 DEF Match
    <3> QED
      BY ONLY MonitorShape, <3>1, <3>2 DEF MonitorShape
  <2> QED
    BY <2>1, <2>2
<1>2. CASE Letter(c)
  <2>1. /\ st = "cmd" /\ cmd' \in {"L", "M", "G"} /\ addr' = 0 /\ nibs' = 0
        /\ UNCHANGED <<st, magic, hi, msg, ret>>
    BY <1>2 DEF Letter
  <2> QED
    BY ONLY MonitorShape, <2>1, <1>b DEF MonitorShape
<1>3. CASE Digit(c)
  <2>1. c[2] \in 0..15
    BY <1>3, Chars DEF Digit
  <2>2. addr' \in 0..(RAMEnd - 1)
    <3>1. addr' = addr \/ addr' = (16 * addr + c[2]) % RAMEnd
      BY <1>3 DEF Digit
    <3>2. 16 * addr + c[2] \in Int
      BY ONLY <1>a, <2>1, <1>b
    <3> QED
      BY ONLY <3>1, <3>2, <1>a, AddrRange
  <2>3. nibs' \in 0..8
    BY ONLY <1>3, <1>a DEF Digit, Most
  <2>4. st = "cmd" /\ UNCHANGED <<st, magic, cmd, hi, msg, ret>>
    BY <1>3 DEF Digit
  <2> QED
    BY ONLY MonitorShape, <2>2, <2>3, <2>4 DEF MonitorShape
<1>4. CASE Skip(c)
  <2>1. UNCHANGED <<st, magic, cmd, nibs, addr, hi, msg, ret>>
    BY <1>4 DEF Skip, mon
  <2> QED
    BY ONLY MonitorShape, <2>1 DEF MonitorShape
<1>5. CASE OpenLoad(c)
  <2>1. Say(Load, "load") /\ hi' = NoCall /\ UNCHANGED <<magic, nibs, addr>> /\ magic = 0
    BY <1>5, <1>a DEF OpenLoad
  <2> QED
    BY <1>0, <2>1, SayShape
<1>6. CASE DumpRange(c)
  <2>1. Say(Dump, "cmd") /\ UNCHANGED <<magic, nibs, addr, hi>> /\ magic = 0
    BY <1>6, <1>a DEF DumpRange
  <2> QED
    BY <1>0, <1>a, <2>1, SayShape
<1>7. CASE LetGo(c)
  <2>1. /\ st = "cmd" /\ st' = "off" /\ cmd' = "none" /\ nibs' = 0 /\ addr' = 0 /\ hi' = NoCall
        /\ ret' = "off" /\ UNCHANGED <<magic, msg>>
    BY <1>7 DEF LetGo
  <2> QED
    BY ONLY MonitorShape, <2>1, <1>b DEF MonitorShape
<1>8. CASE Nibble(c)
  <2>1. hi' \in {NoCall} \cup 0..15
    BY <1>8, Chars DEF Nibble
  <2>2. addr' \in 0..(RAMEnd - 1)
    <3>1. addr' = addr \/ addr' = (addr + 1) % RAMEnd
      BY <1>8 DEF Nibble
    <3>2. addr + 1 \in Int
      BY ONLY <1>a, <1>b
    <3> QED
      BY ONLY <3>1, <3>2, <1>a, AddrRange
  <2>3. UNCHANGED <<st, magic, cmd, nibs, msg, ret>>
    BY <1>8 DEF Nibble
  <2> QED
    BY ONLY MonitorShape, <2>1, <2>2, <2>3 DEF MonitorShape
<1>9. CASE CloseLoad(c)
  <2>1. Say(Prompt, "cmd") /\ hi' = NoCall /\ UNCHANGED <<magic, nibs, addr>> /\ magic = 0
    BY <1>9, <1>a DEF CloseLoad
  <2> QED
    BY <1>0, <2>1, SayShape
<1>10. CASE Reject(c)
  <2>1. st \in {"cmd", "load"} /\ Say(Error, st) /\ UNCHANGED <<magic, nibs, addr>>
    BY <1>10 DEF Reject
  <2>2. hi' \in {NoCall} \cup 0..15
    BY <1>10, <1>a DEF Reject
  <2> QED
    BY <1>0, <1>a, <2>1, <2>2, SayShape
<1>11. CASE Deaf
  <2>1. UNCHANGED <<st, magic, cmd, nibs, addr, hi, msg, ret>>
    BY <1>11 DEF Deaf, mon
  <2> QED
    BY ONLY MonitorShape, <2>1 DEF MonitorShape
<1> QED
  BY <1>1, <1>2, <1>3, <1>4, <1>5, <1>6, <1>7, <1>8, <1>9, <1>10, <1>11 DEF Read

-----------------------------------------------------------------------------
(* What may be on the wire. *)

PartSet == [addr : 0..(RAMEnd - 1), data : Seq(Byte)]

LEMMA CharOf ==
  /\ \A c \in Marks : Ch(c) \in Char
  /\ \A n \in 0..15 : Hex(n) \in Char
  /\ CR \in Char
BY DEF Char, CR, Marks

LEMMA NibbleOf ==
  ASSUME NEW a \in 0..(RAMEnd - 1)
  PROVE  /\ a \div 4096 \in 0..15 /\ (a \div 256) % 16 \in 0..15
         /\ (a \div 16) % 16 \in 0..15 /\ a % 16 \in 0..15
<1>1. a \in Nat /\ a < 65536
  BY EndIs
<1>2. a \div 4096 \in 0..15
  BY ONLY <1>1
<1>3. a \div 256 \in Nat /\ a \div 16 \in Nat /\ a \in Nat
  BY ONLY <1>1
<1> QED
  BY ONLY <1>2, <1>3

LEMMA NibblesChars ==
  ASSUME NEW a \in 0..(RAMEnd - 1)
  PROVE  Nibbles(a) \in Seq(Char) /\ Len(Nibbles(a)) = 4
<1>1. /\ Hex(a \div 4096) \in Char /\ Hex((a \div 256) % 16) \in Char
      /\ Hex((a \div 16) % 16) \in Char /\ Hex(a % 16) \in Char
  BY NibbleOf, CharOf
<1> QED
  BY ONLY <1>1 DEF Nibbles

LEMMA CommandChars ==
  ASSUME NEW a \in 0..(RAMEnd - 1)
  PROVE  /\ LoadCommand(a) \in Seq(Char) /\ Len(LoadCommand(a)) = 7
         /\ LoadCommand(a)[1] = Ch("L") /\ LoadCommand(a)[2] = Ch("sp")
         /\ LoadCommand(a)[3] = Hex(a \div 4096) /\ LoadCommand(a)[4] = Hex((a \div 256) % 16)
         /\ LoadCommand(a)[5] = Hex((a \div 16) % 16) /\ LoadCommand(a)[6] = Hex(a % 16)
         /\ LoadCommand(a)[7] = CR
<1>1. Ch("L") \in Char /\ Ch("sp") \in Char /\ CR \in Char
  BY CharOf DEF Marks
<1>2. <<Ch("L"), Ch("sp")>> \in Seq(Char) /\ <<CR>> \in Seq(Char)
  BY <1>1
<1>3. Nibbles(a) \in Seq(Char) /\ Len(Nibbles(a)) = 4
  BY NibblesChars
<1>4. <<Ch("L"), Ch("sp")>> \o Nibbles(a) \in Seq(Char)
  BY ONLY <1>2, <1>3
<1>5. /\ Nibbles(a)[1] = Hex(a \div 4096) /\ Nibbles(a)[2] = Hex((a \div 256) % 16)
      /\ Nibbles(a)[3] = Hex((a \div 16) % 16) /\ Nibbles(a)[4] = Hex(a % 16)
  BY DEF Nibbles
<1>6. LoadCommand(a) \in Seq(Char)
  BY ONLY <1>2, <1>4 DEF LoadCommand
<1> DEFINE front == <<Ch("L"), Ch("sp")>> \o Nibbles(a)
<1>7. /\ Len(front) = 6 /\ front[1] = Ch("L") /\ front[2] = Ch("sp")
      /\ \A i \in 1..4 : front[2 + i] = Nibbles(a)[i]
  <2> DEFINE two == <<Ch("L"), Ch("sp")>>
  <2>1. two \in Seq(Char) /\ Len(two) = 2 /\ two[1] = Ch("L") /\ two[2] = Ch("sp")
    BY ONLY <1>2
  <2>2. front = two \o Nibbles(a)
    OBVIOUS
  <2> HIDE DEF two, front
  <2>3. /\ Len(front) = Len(two) + Len(Nibbles(a))
        /\ \A i \in 1..Len(two) : front[i] = two[i]
        /\ \A i \in 1..Len(Nibbles(a)) : front[Len(two) + i] = Nibbles(a)[i]
    <3>1. two \in Seq(Char) /\ Nibbles(a) \in Seq(Char)
      BY <2>1, <1>3
    <3>2. Len(two \o Nibbles(a)) = Len(two) + Len(Nibbles(a))
      BY ONLY <3>1, Joined
    <3>3. \A i \in 1..Len(two) : (two \o Nibbles(a))[i] = two[i]
      BY ONLY <3>1, Joined
    <3>4. \A i \in 1..Len(Nibbles(a)) : (two \o Nibbles(a))[Len(two) + i] = Nibbles(a)[i]
      BY ONLY <3>1, Joined
    <3> QED
      BY ONLY <3>2, <3>3, <3>4, <2>2
  <2> QED
    BY ONLY <2>1, <2>3, <1>3
<1> HIDE DEF front
<1>8. Len(front \o <<CR>>) = 7 /\ (front \o <<CR>>)[7] = CR
  BY ONLY <1>7, <1>2, <1>4 DEF front
<1>9. \A i \in 1..6 : (front \o <<CR>>)[i] = front[i]
  BY ONLY <1>7, <1>2, <1>4 DEF front
<1>10. /\ front[3] = Nibbles(a)[1] /\ front[4] = Nibbles(a)[2]
       /\ front[5] = Nibbles(a)[3] /\ front[6] = Nibbles(a)[4]
  BY ONLY <1>7
<1>11. LoadCommand(a) = front \o <<CR>>
  BY DEF front, LoadCommand
<1> QED
  BY ONLY <1>5, <1>6, <1>7, <1>8, <1>9, <1>10, <1>11

LEMMA WakeChars ==
  /\ Wake \o <<CR>> \in Seq(Char) /\ Len(Wake \o <<CR>>) = 5
  /\ (Wake \o <<CR>>)[1] = Ch("A5") /\ (Wake \o <<CR>>)[2] = Ch("5A")
  /\ (Wake \o <<CR>>)[3] = Ch("C3") /\ (Wake \o <<CR>>)[4] = Ch("3C")
  /\ (Wake \o <<CR>>)[5] = CR
<1>1. Ch("A5") \in Char /\ Ch("5A") \in Char /\ Ch("C3") \in Char /\ Ch("3C") \in Char /\ CR \in Char
  BY CharOf DEF Marks
<1>2. Wake \in Seq(Char) /\ Len(Wake) = 4 /\ <<CR>> \in Seq(Char)
  BY <1>1 DEF Wake
<1>3. Wake[1] = Ch("A5") /\ Wake[2] = Ch("5A") /\ Wake[3] = Ch("C3") /\ Wake[4] = Ch("3C")
  BY DEF Wake
<1> DEFINE last == <<CR>>
<1>4. last \in Seq(Char) /\ Len(last) = 1 /\ last[1] = CR
  BY <1>2
<1> HIDE DEF last
<1>a. /\ Wake \o last \in Seq(Char) /\ Len(Wake \o last) = Len(Wake) + Len(last)
      /\ \A i \in 1..Len(Wake) : (Wake \o last)[i] = Wake[i]
      /\ \A i \in 1..Len(last) : (Wake \o last)[Len(Wake) + i] = last[i]
  <2>0. Wake \in Seq(Char) /\ last \in Seq(Char)
    BY <1>2, <1>4
  <2>1. Wake \o last \in Seq(Char) /\ Len(Wake \o last) = Len(Wake) + Len(last)
    BY ONLY <2>0, Joined
  <2>2. \A i \in 1..Len(Wake) : (Wake \o last)[i] = Wake[i]
    BY ONLY <2>0, Joined
  <2>3. \A i \in 1..Len(last) : (Wake \o last)[Len(Wake) + i] = last[i]
    BY ONLY <2>0, Joined
  <2> QED
    BY ONLY <2>1, <2>2, <2>3
<1>5. Wake \o last \in Seq(Char) /\ Len(Wake \o last) = 5 /\ (Wake \o last)[5] = CR
  BY ONLY <1>a, <1>2, <1>4
<1>6. \A i \in 1..4 : (Wake \o last)[i] = Wake[i]
  BY ONLY <1>a, <1>2
<1> QED
  BY ONLY <1>3, <1>5, <1>6 DEF last

LEMMA EndChars ==
  EndLoad \in Seq(Char) /\ Len(EndLoad) = 2 /\ EndLoad[1] = Ch(".") /\ EndLoad[2] = CR
BY CharOf DEF Marks, EndLoad

\* A data line: three characters a byte.
LEMMA DataLineChars ==
  ASSUME NEW bytes \in Seq(Byte)
  PROVE  /\ DataLine(bytes) \in Seq(Char) /\ Len(DataLine(bytes)) = 3 * Len(bytes)
         /\ \A i \in 1..(3 * Len(bytes)) :
              /\ (i + 2) \div 3 \in 1..Len(bytes)
              /\ i % 3 = 1 => DataLine(bytes)[i] = Hex(bytes[(i + 2) \div 3] \div 16)
              /\ i % 3 = 2 => DataLine(bytes)[i] = Hex(bytes[(i + 2) \div 3] % 16)
              /\ i % 3 = 0 => DataLine(bytes)[i] \in {CR, Ch("sp")}
<1> DEFINE n == Len(bytes)
           B(i) == bytes[(i + 2) \div 3]
<1>1. n \in Nat /\ \A k \in 1..n : bytes[k] \in 0..255
  <2>1. n \in Nat /\ \A k \in 1..n : bytes[k] \in Byte
    OBVIOUS
  <2> QED
    BY ONLY <2>1 DEF Byte
<1>2. \A i \in 1..(3 * n) : (i + 2) \div 3 \in 1..n /\ i % 3 \in 0..2
  BY <1>1
<1>3. \A i \in 1..(3 * n) : B(i) \in 0..255
  BY ONLY <1>1, <1>2
<1>4. \A b \in 0..255 : b \div 16 \in 0..15 /\ b % 16 \in 0..15
  OBVIOUS
<1>5. \A i \in 1..(3 * n) : Hex(B(i) \div 16) \in Char /\ Hex(B(i) % 16) \in Char
  <2> SUFFICES ASSUME NEW i \in 1..(3 * n)
               PROVE  Hex(B(i) \div 16) \in Char /\ Hex(B(i) % 16) \in Char
    OBVIOUS
  <2>1. B(i) \div 16 \in 0..15 /\ B(i) % 16 \in 0..15
    BY <1>3, <1>4
  <2> HIDE DEF B
  <2> QED
    BY <2>1, CharOf
<1>6. \A i \in 1..(3 * n) :
        /\ DataLine(bytes)[i] \in {Hex(B(i) \div 16), Hex(B(i) % 16), CR, Ch("sp")}
        /\ i % 3 = 1 => DataLine(bytes)[i] = Hex(B(i) \div 16)
        /\ i % 3 = 2 => DataLine(bytes)[i] = Hex(B(i) % 16)
        /\ i % 3 = 0 => DataLine(bytes)[i] \in {CR, Ch("sp")}
  BY <1>1, <1>2 DEF DataLine
<1>7. DataLine(bytes) = [i \in 1..(3 * n) |-> DataLine(bytes)[i]] /\ 3 * n \in Nat
  BY <1>1 DEF DataLine
<1>8. CR \in Char /\ Ch("sp") \in Char
  BY CharOf DEF Marks
<1>9. \A i \in 1..(3 * n) : DataLine(bytes)[i] \in Char
  <2> HIDE DEF B
  <2> QED
    BY ONLY <1>5, <1>6, <1>8
<1>10. DataLine(bytes) \in Seq(Char) /\ Len(DataLine(bytes)) = 3 * n
  BY ONLY <1>7, <1>9
<1> QED
  BY ONLY <1>2, <1>6, <1>10

-----------------------------------------------------------------------------
(* What the jobs hold. *)

LEMMA JobOf ==
  ASSUME NEW b \in Boards, NEW j \in Jobs[b]
  PROVE  /\ j.tool \in Tools /\ j.wake \in BOOLEAN /\ j.run \in 0..(RAMEnd - 1)
         /\ j.parts \in Seq(PartSet) /\ Len(j.parts) \in Nat
         /\ \A i \in 1..Len(j.parts) : /\ j.parts[i].addr \in 0..(RAMEnd - 1)
                                       /\ j.parts[i].data \in Seq(Byte)
                                       /\ Len(j.parts[i].data) \in Nat
         /\ j.last \in Seq(Seq(Char)) /\ Len(j.last) \in Nat
         /\ \A i \in 1..Len(j.last) : j.last[i] \in Seq(Char)
         /\ j.tool \in {"c64", "hex", "plain"} => j.parts # <<>>
         /\ j.tool \in {"c64", "probe", "wake"} => j.wake
<1>1. /\ j.tool \in Tools /\ j.wake \in BOOLEAN /\ j.run \in 0..(RAMEnd - 1)
      /\ j.parts \in Seq(PartSet) /\ j.last \in Seq(Seq(Char))
      /\ j.tool \in {"c64", "hex", "plain"} => j.parts # <<>>
      /\ j.tool \in {"c64", "probe", "wake"} => j.wake
  BY ConstantsAssumption DEF PartSet, Refused
<1>2. Len(j.parts) \in Nat /\ \A i \in 1..Len(j.parts) : j.parts[i] \in PartSet
  BY ONLY <1>1
<1>3. Len(j.last) \in Nat /\ \A i \in 1..Len(j.last) : j.last[i] \in Seq(Char)
  BY ONLY <1>1
<1>4. \A p \in PartSet : p.addr \in 0..(RAMEnd - 1) /\ p.data \in Seq(Byte)
  BY DEF PartSet
<1>5. \A s \in Seq(Byte) : Len(s) \in Nat
  OBVIOUS
<1>6. \A i \in 1..Len(j.parts) : /\ j.parts[i].addr \in 0..(RAMEnd - 1)
                                 /\ j.parts[i].data \in Seq(Byte)
                                 /\ Len(j.parts[i].data) \in Nat
  BY ONLY <1>2, <1>4, <1>5
<1> QED
  BY ONLY <1>1, <1>2, <1>3, <1>6

LEMMA PerLine == BytesPerLine \in Nat /\ BytesPerLine > 0 /\ Retries \in Nat /\ Retries > 0
                 /\ MaxRuns \in Nat /\ MaxKills \in Nat /\ MaxLost \in Nat
BY ConstantsAssumption

LEMMA Times ==
  ASSUME NEW a \in Nat, NEW b \in Nat, NEW c \in Nat, a <= b
  PROVE  a * c <= b * c
OBVIOUS

LEMMA DivLaw ==
  ASSUME NEW m \in Nat, NEW b \in Nat \ {0}
  PROVE  m \div b \in Nat /\ (m \div b) * b <= m /\ m < (m \div b + 1) * b
OBVIOUS

\* The k-th line starts within the n bytes if and only if it exists.
LEMMA LineCount ==
  ASSUME NEW n \in Nat, NEW b \in Nat \ {0}, NEW k \in Nat \ {0}
  PROVE  LET c == (n + b - 1) \div b IN
         /\ c \in Nat /\ (k - 1) * b \in Nat /\ k * b = (k - 1) * b + b
         /\ k <= c => (k - 1) * b < n
         /\ k > c => (k - 1) * b >= n
<1> DEFINE c == (n + b - 1) \div b
<1>1. n + b - 1 \in Nat
  OBVIOUS
<1>2. c \in Nat /\ c * b <= n + b - 1 /\ n + b - 1 < (c + 1) * b
  BY <1>1, DivLaw
<1> HIDE DEF c
<1>3. (k - 1) * b \in Nat /\ k * b = (k - 1) * b + b
  OBVIOUS
<1>4. k <= c => (k - 1) * b < n
  <2>1. k <= c => k * b <= c * b
    BY <1>2, Times
  <2>2. k * b \in Int /\ c * b \in Int
    BY <1>2
  <2> QED
    BY <1>2, <1>3, <2>1, <2>2
<1>5. k > c => (k - 1) * b >= n
  <2>1. k > c => c * b <= (k - 1) * b
    BY <1>2, Times
  <2>2. c * b \in Int /\ (c + 1) * b = c * b + b
    BY <1>2
  <2> QED
    BY <1>2, <1>3, <2>1, <2>2
<1> QED
  BY <1>2, <1>3, <1>4, <1>5 DEF c

\* A line of a part is a run of its bytes, and the lines follow each other.
LEMMA LineOf ==
  ASSUME NEW data \in Seq(Byte), NEW k \in Nat \ {0}
  PROVE  /\ Len(HexLines(data, BytesPerLine)) \in Nat
         /\ (k - 1) * BytesPerLine \in Nat
         /\ k * BytesPerLine = (k - 1) * BytesPerLine + BytesPerLine
         /\ k > Len(HexLines(data, BytesPerLine)) => (k - 1) * BytesPerLine >= Len(data)
         /\ k <= Len(HexLines(data, BytesPerLine)) =>
              /\ (k - 1) * BytesPerLine < Len(data)
              /\ HexLines(data, BytesPerLine)[k] \in Seq(Byte)
              /\ Len(HexLines(data, BytesPerLine)[k]) =
                   Lesser(k * BytesPerLine, Len(data)) - (k - 1) * BytesPerLine
              /\ \A i \in 1..Len(HexLines(data, BytesPerLine)[k]) :
                   HexLines(data, BytesPerLine)[k][i] = data[(k - 1) * BytesPerLine + i]
<1> DEFINE n == Len(data)
           b == BytesPerLine
           c == (n + b - 1) \div b
           from == (k - 1) * b
           to == Lesser(k * b, n)
<1>1. n \in Nat /\ b \in Nat \ {0}
  BY PerLine
<1>2. /\ c \in Nat /\ from \in Nat /\ k * b = from + b
      /\ k <= c => from < n
      /\ k > c => from >= n
  <2> HIDE DEF n, b
  <2> QED
    BY <1>1, LineCount
<1>3. Len(HexLines(data, b)) = c /\ (k <= c => HexLines(data, b)[k] = SubSeq(data, from + 1, to))
  <2>1. HexLines(data, b) = [i \in 1..c |-> SubSeq(data, (i - 1) * b + 1, Lesser(i * b, n))]
    BY DEF HexLines
  <2>2. k \in 1..c => HexLines(data, b)[k] = SubSeq(data, from + 1, to)
    BY <2>1
  <2> HIDE DEF c
  <2>3. Len(HexLines(data, b)) = c
    <3> DEFINE F(i) == SubSeq(data, (i - 1) * b + 1, Lesser(i * b, n))
    <3>1. HexLines(data, b) = [i \in 1..c |-> F(i)]
      BY <2>1
    <3> HIDE DEF F, n, b
    <3>2. Len([i \in 1..c |-> F(i)]) = c
      BY ONLY <1>2
    <3> QED
      BY ONLY <3>1, <3>2
  <2> QED
    BY <1>2, <2>2, <2>3
<1>4. ASSUME k <= c
      PROVE  /\ SubSeq(data, from + 1, to) \in Seq(Byte)
             /\ Len(SubSeq(data, from + 1, to)) = to - from
             /\ \A i \in 1..(to - from) : SubSeq(data, from + 1, to)[i] = data[from + i]
  <2>1. to \in Nat /\ to <= n /\ from < to /\ from \in Nat
    <3> HIDE DEF c, from, n, b
    <3> QED
      BY <1>1, <1>2, <1>4 DEF Lesser
  <2> HIDE DEF from, to, c, b
  <2>2. SubSeq(data, from + 1, to) \in Seq(Byte)
    BY ONLY <2>1, data \in Seq(Byte)
  <2>3. Len(SubSeq(data, from + 1, to)) = to - from
    BY ONLY <2>1, data \in Seq(Byte)
  <2>4. \A i \in 1..(to - from) : SubSeq(data, from + 1, to)[i] = data[from + i]
    BY ONLY <2>1, data \in Seq(Byte)
  <2> QED
    BY ONLY <2>2, <2>3, <2>4
<1> HIDE DEF c, from, to
<1> QED
  BY ONLY <1>2, <1>3, <1>4 DEF from, to

-----------------------------------------------------------------------------
(* The shape is kept. *)

LEMMA ProperJoined ==
  ASSUME NEW s \in Seq(Pieces), NEW t \in Seq(Pieces), Proper(s), Proper(t)
  PROVE  s \o t \in Seq(Pieces) /\ Proper(s \o t)
<1> DEFINE u == s \o t
<1>1. /\ u \in Seq(Pieces) /\ Len(u) = Len(s) + Len(t)
      /\ \A i \in 1..Len(s) : u[i] = s[i]
      /\ \A i \in 1..Len(t) : u[Len(s) + i] = t[i]
  BY Joined
<1> HIDE DEF u
<1>2. Len(s) \in Nat /\ Len(t) \in Nat /\ DOMAIN s = 1..Len(s) /\ DOMAIN t = 1..Len(t) /\ DOMAIN u = 1..Len(u)
  BY ONLY <1>1, s \in Seq(Pieces), t \in Seq(Pieces)
<1>3. ASSUME NEW i \in DOMAIN u
      PROVE  /\ u[i] \in {"?", "FPGA_MONITOR", "dump"} =>
                  i + 2 <= Len(u) /\ u[i + 1] = "eol" /\ u[i + 2] = "."
             /\ u[i] = "eol" => i + 1 <= Len(u) /\ u[i + 1] = "."
  <2>1. CASE i <= Len(s)
    <3>1. i \in 1..Len(s) /\ u[i] = s[i]
      BY ONLY <1>1, <1>2, <1>3, <2>1
    <3>2. /\ s[i] \in {"?", "FPGA_MONITOR", "dump"} =>
                  i + 2 <= Len(s) /\ s[i + 1] = "eol" /\ s[i + 2] = "."
          /\ s[i] = "eol" => i + 1 <= Len(s) /\ s[i + 1] = "."
      BY ONLY <3>1, <1>2, Proper(s) DEF Proper
    <3> QED
      BY ONLY <1>1, <1>2, <3>1, <3>2
  <2>2. CASE i > Len(s)
    <3> DEFINE k == i - Len(s)
    <3>1. k \in 1..Len(t) /\ u[i] = t[k] /\ i = Len(s) + k
      <4>1. k \in 1..Len(t) /\ i = Len(s) + k
        BY ONLY <1>1, <1>2, <1>3, <2>2
      <4> HIDE DEF k
      <4> QED
        BY ONLY <1>1, <4>1
    <3> HIDE DEF k
    <3>2. /\ t[k] \in {"?", "FPGA_MONITOR", "dump"} =>
                  k + 2 <= Len(t) /\ t[k + 1] = "eol" /\ t[k + 2] = "."
          /\ t[k] = "eol" => k + 1 <= Len(t) /\ t[k + 1] = "."
      BY ONLY <3>1, <1>2, Proper(t) DEF Proper
    <3>3. /\ k + 1 <= Len(t) => u[i + 1] = t[k + 1]
          /\ k + 2 <= Len(t) => u[i + 2] = t[k + 2]
      <4>1. k \in Nat /\ k > 0 /\ i + 1 = Len(s) + (k + 1) /\ i + 2 = Len(s) + (k + 2)
        BY ONLY <3>1, <1>2
      <4>2. k + 1 <= Len(t) => k + 1 \in 1..Len(t)
        BY ONLY <4>1, <1>2
      <4>3. k + 2 <= Len(t) => k + 2 \in 1..Len(t)
        BY ONLY <4>1, <1>2
      <4>4. k + 1 <= Len(t) => u[Len(s) + (k + 1)] = t[k + 1]
        BY ONLY <1>1, <4>2
      <4>5. k + 2 <= Len(t) => u[Len(s) + (k + 2)] = t[k + 2]
        BY ONLY <1>1, <4>3
      <4> QED
        BY ONLY <4>1, <4>4, <4>5
    <3> QED
      BY ONLY <1>1, <1>2, <3>1, <3>2, <3>3
  <2> QED
    BY ONLY <1>2, <1>3, <2>1, <2>2
<1> QED
  BY ONLY <1>1, <1>3 DEF Proper, u

LEMMA ShapeKept ==
  ASSUME Shape, UNCHANGED board, wire' \in Seq(Char), rx' = rx \/ rx' = <<>>
  PROVE  Shape'
<1>1. UNCHANGED <<st, magic, cmd, nibs, addr, hi, msg, ret, memory, cpu>>
  BY DEF board, mon
<1>2. MonitorShape'
  BY <1>1 DEF Shape, MonitorShape
<1>3. rx' \in Seq(Pieces) /\ Proper(rx')
  <2>1. <<>> \in Seq(Pieces) /\ Proper(<<>>)
    BY DEF Proper
  <2>2. rx \in Seq(Pieces) /\ Proper(rx)
    BY DEF Shape
  <2> QED
    BY ONLY <2>1, <2>2, rx' = rx \/ rx' = <<>>
<1> QED
  BY <1>1, <1>2, <1>3 DEF Shape

LEMMA HoldShape ==
  ASSUME MonitorShape, MonitorShape', Hold, cpu = <<"held", 0>> <=> st # "off"
  PROVE  cpu' = <<"held", 0>> <=> st' # "off"
<1>1. st = "off" /\ st' # "off" => cpu' = <<"held", 0>>
  BY DEF Hold
<1>2. st # "off" /\ st' = "off" => cpu'[1] # "held"
  BY DEF Hold
<1>3. (st = "off" <=> st' = "off") => cpu' = cpu
  BY DEF Hold
<1>4. <<"held", 0>>[1] = "held"
  OBVIOUS
<1> QED
  BY <1>1, <1>2, <1>3, <1>4

LEMMA WriteShape ==
  ASSUME MonitorShape, NEW c \in Char, Write(c), \A a \in DOMAIN memory : memory[a] \in Byte
  PROVE  \A a \in (DOMAIN memory)' : memory'[a] \in Byte
<1>1. CASE st = "load" /\ c[1] = "hex" /\ hi # NoCall
  <2>1. hi \in 0..15 /\ c[2] \in 0..15
    BY <1>1, Chars DEF MonitorShape
  <2>2. 16 * hi + c[2] \in Byte
    BY ONLY <2>1 DEF Byte
  <2>3. memory' = [a \in DOMAIN memory \cup {addr} |-> IF a = addr THEN 16 * hi + c[2] ELSE memory[a]]
    BY <1>1 DEF Write
  <2> QED
    BY ONLY <2>2, <2>3, \A a \in DOMAIN memory : memory[a] \in Byte
<1>2. CASE ~(st = "load" /\ c[1] = "hex" /\ hi # NoCall)
  BY <1>2 DEF Write
<1> QED
  BY <1>1, <1>2

LEMMA EmittedShape ==
  ASSUME Shape, Emitted
  PROVE  Shape'
<1>1. /\ st = "emit" /\ st' = ret /\ msg' = <<>> /\ ret # "off" /\ msg \in Messages
      /\ UNCHANGED <<wire, magic, cmd, nibs, addr, hi, ret, memory, cpu>>
  BY DEF Emitted, Shape, MonitorShape
<1>2. MonitorShape'
  BY <1>1 DEF Shape, MonitorShape
<1>3. rx' \in Seq(Pieces) /\ Proper(rx')
  <2>1. msg \in Seq(Pieces) /\ Proper(msg) /\ rx \in Seq(Pieces) /\ Proper(rx)
    BY <1>1, Texts DEF Shape
  <2>2. rx \o msg \in Seq(Pieces) /\ Proper(rx \o msg)
    BY <2>1, ProperJoined
  <2>3. rx' = rx \/ rx' = rx \o msg
    BY DEF Emitted
  <2> QED
    BY ONLY <2>1, <2>2, <2>3
<1> QED
  BY <1>1, <1>2, <1>3 DEF Shape

LEMMA TakeShape ==
  ASSUME Shape, Take
  PROVE  Shape'
<1>1. /\ Head(wire) \in Char /\ wire' \in Seq(Char) /\ rx' = rx
      /\ Read(Head(wire)) /\ Write(Head(wire)) /\ Hold
  BY WireTail DEF Shape, Take, pc
<1>2. MonitorShape'
  BY <1>1, ReadShape DEF Shape
<1>3. \A a \in (DOMAIN memory)' : memory'[a] \in Byte
  BY <1>1, WriteShape DEF Shape
<1>4. cpu' = <<"held", 0>> <=> st' # "off"
  BY <1>1, <1>2, HoldShape DEF Shape
<1> QED
  BY <1>1, <1>2, <1>3, <1>4 DEF Shape

LEMMA KilledWire ==
  ASSUME wire \in Seq(Char), NEW n \in 0..Len(wire)
  PROVE  /\ SubSeq(wire, 1, n) \in Seq(Char) /\ Len(SubSeq(wire, 1, n)) = n
         /\ \A i \in 1..n : SubSeq(wire, 1, n)[i] = wire[i]
<1>1. Len(wire) \in Nat /\ n \in Nat
  OBVIOUS
<1>2. SubSeq(wire, 1, n) \in Seq(Char)
  BY ONLY <1>1, wire \in Seq(Char), n \in 0..Len(wire)
<1>3. Len(SubSeq(wire, 1, n)) = n
  BY ONLY <1>1, wire \in Seq(Char), n \in 0..Len(wire)
<1>4. \A i \in 1..n : SubSeq(wire, 1, n)[i] = wire[i]
  BY ONLY <1>1, wire \in Seq(Char), n \in 0..Len(wire)
<1> QED
  BY ONLY <1>2, <1>3, <1>4

LEMMA ShapeNext ==
  ASSUME Shape, Steps, [Next]_vars
  PROVE  Shape'
<1>0. wire \in Seq(Char)
  BY DEF Shape
<1>a. jumps \in Boards /\ job \in Jobs[jumps]
  BY DEF Steps
<1>1. CASE SendWake
  <2>1. UNCHANGED board /\ wire' = Wake \o <<CR>> /\ (rx' = rx \/ rx' = <<>>)
    BY <1>1 DEF SendWake, Send
  <2> QED
    BY <2>1, WakeChars, ShapeKept
<1>2. CASE WakeAnswered
  BY <1>0, <1>2, ShapeKept DEF WakeAnswered, Hear
<1>3. CASE SendLoad
  <2>1. part \in 1..Len(Parts) /\ UNCHANGED board /\ wire' = LoadCommand(Parts[part].addr) /\ rx' = rx
    BY <1>3, <1>a, JobOf DEF SendLoad, Send, Steps, Parts
  <2>2. Parts[part].addr \in 0..(RAMEnd - 1)
    BY <1>a, <2>1, JobOf DEF Parts
  <2>3. wire' \in Seq(Char)
    BY ONLY <2>1, <2>2, CommandChars
  <2> QED
    BY <2>1, <2>3, ShapeKept
<1>4. CASE LoadAnswered
  BY <1>0, <1>4, ShapeKept DEF LoadAnswered, Hear
<1>5. CASE SendLine
  <2>1. /\ part \in 1..Len(Parts) /\ line \in Nat \ {0} /\ UNCHANGED board
        /\ wire' = DataLine(Lines[line]) /\ rx' = rx /\ line <= Len(Lines)
    BY <1>5, <1>a, JobOf DEF SendLine, Send, Steps, Parts
  <2>2. Parts[part].data \in Seq(Byte)
    BY <1>a, <2>1, JobOf DEF Parts
  <2>3. Lines[line] \in Seq(Byte)
    BY <2>1, <2>2, LineOf DEF Lines
  <2>4. wire' \in Seq(Char)
    BY ONLY <2>1, <2>3, DataLineChars
  <2> QED
    BY <2>1, <2>4, ShapeKept
<1>6. CASE SendDot
  BY <1>6, EndChars, ShapeKept DEF SendDot, Send
<1>7. CASE DotAnswered
  BY <1>0, <1>7, ShapeKept DEF DotAnswered, Hear
<1>8. CASE SendLast
  <2>1. /\ line \in 1..Len(job.last) /\ UNCHANGED board /\ wire' = job.last[line] /\ rx' = <<>>
    BY <1>8, <1>a, JobOf DEF SendLast, Send, Steps
  <2>2. wire' \in Seq(Char)
    BY <1>a, <2>1, JobOf
  <2> QED
    BY <2>1, <2>2, ShapeKept
<1>9. CASE Complete
  BY <1>0, <1>9, ShapeKept DEF Complete, Hear
<1>10. CASE Take
  BY <1>10, TakeShape
<1>11. CASE Emitted
  BY <1>11, EmittedShape
<1>12. CASE Lose
  BY <1>0, <1>12, WireTail, ShapeKept DEF Lose, pc
<1>13. ASSUME NEW j \in Jobs[jumps], Start(j) PROVE Shape'
  BY <1>0, <1>13, ShapeKept DEF Start
<1>14. ASSUME NEW n \in 0..Len(wire), Kill(n) PROVE Shape'
  <2>1. UNCHANGED board /\ wire' = SubSeq(wire, 1, n) /\ rx' = <<>>
    BY <1>14 DEF Kill
  <2> QED
    BY <1>0, <2>1, KilledWire, ShapeKept
<1>15. CASE UNCHANGED vars
  BY <1>0, <1>15, ShapeKept DEF vars, pc
<1> QED
  BY <1>1, <1>2, <1>3, <1>4, <1>5, <1>6, <1>7, <1>8, <1>9, <1>10, <1>11, <1>12, <1>13, <1>14, <1>15
     DEF Next, PcMoves, BoardMoves

-----------------------------------------------------------------------------
(* The steps of the process. *)

LEMMA ShapeInit == Init => Shape
<1> SUFFICES ASSUME Init PROVE Shape
  OBVIOUS
<1>1. MonitorShape
  BY EndIs DEF Init, MonitorShape
<1>2. cpu = <<"held", 0>> <=> st # "off"
  <2>1. <<"resumed", 0>> # <<"held", 0>>
    OBVIOUS
  <2> QED
    BY <2>1 DEF Init
<1>3. <<>> \in Seq(Char) /\ <<>> \in Seq(Pieces) /\ Proper(<<>>) /\ DOMAIN <<>> = {}
  BY DEF Proper
<1> QED
  BY <1>1, <1>2, <1>3 DEF Init, Shape

LEMMA StepsInit == Init => Steps
BY PerLine DEF Init, Steps, Quiet, Sent

LEMMA StepsNext ==
  ASSUME Shape, Steps, [Next]_vars
  PROVE  Steps'
<1>a. /\ jumps \in Boards /\ job \in Jobs[jumps] /\ Len(Parts) \in Nat
      /\ part \in Nat /\ part > 0 /\ line \in Nat /\ line > 0
      /\ tries \in 0..Retries /\ runs \in 0..MaxRuns /\ kills \in 0..MaxKills /\ losses \in 0..MaxLost
  BY JobOf DEF Steps, Parts
<1>b. /\ Retries \in Nat /\ Retries > 0 /\ MaxRuns \in Nat /\ MaxKills \in Nat /\ MaxLost \in Nat
  BY PerLine
<1>1. CASE SendWake
  BY <1>1, <1>a, <1>b DEF SendWake, Send, Steps, Parts, board, bounds, history, Quiet, Sent
<1>2. CASE WakeAnswered
  BY <1>2, <1>a, <1>b DEF WakeAnswered, Hear, Goto, Exit, AfterPart, Steps, Parts, board, mon, bounds, history, Quiet, Sent
<1>3. CASE SendLoad
  BY <1>3, <1>a, <1>b DEF SendLoad, Send, Goto, Steps, Parts, board, bounds, history, Quiet, Sent
<1>4. CASE LoadAnswered
  BY <1>4, <1>a, <1>b DEF LoadAnswered, Hear, Goto, Exit, Steps, Parts, board, mon, bounds, history, Quiet, Sent
<1>5. CASE SendLine
  BY <1>5, <1>a, <1>b DEF SendLine, Send, Goto, Steps, Parts, board, bounds, history, Quiet, Sent
<1>6. CASE SendDot
  BY <1>6, <1>a, <1>b DEF SendDot, Send, Goto, Steps, Parts, board, bounds, history, Quiet, Sent
<1>7. CASE DotAnswered
  BY <1>7, <1>a, <1>b DEF DotAnswered, Hear, Goto, Exit, AfterPart, Steps, Parts, board, mon, bounds, history, Quiet, Sent
<1>8. CASE SendLast
  BY <1>8, <1>a, <1>b DEF SendLast, Send, Goto, Steps, Parts, board, bounds, history, Quiet, Sent
<1>9. CASE Complete
  BY <1>9, <1>a, <1>b DEF Complete, Hear, Exit, Steps, Parts, board, mon, bounds, history, Quiet, Sent
<1>10. CASE Take
  BY <1>10, <1>a, <1>b DEF Take, Steps, Parts, pc, bounds, Quiet, Sent
<1>11. CASE Emitted
  BY <1>11, <1>a, <1>b DEF Emitted, Steps, Parts, bounds, history, Quiet, Sent
<1>12. CASE Lose
  <2>1. /\ UNCHANGED <<jumps, job, at, tries, part, line, result, runs, kills, found, st>>
        /\ wire # <<>> /\ losses' = losses + 1 /\ losses < MaxLost
    BY <1>12 DEF Lose, pc, board, mon
  <2>2. lost' # {}
    BY <1>12 DEF Lose
  <2>3. losses' \in 0..MaxLost /\ losses' # 0
    BY ONLY <2>1, <1>a, <1>b
  <2> QED
    BY <1>a, <2>1, <2>2, <2>3 DEF Steps, Parts, Quiet, Sent
<1>13. ASSUME NEW j \in Jobs[jumps], Start(j) PROVE Steps'
  BY <1>13, <1>a, <1>b, JobOf DEF Start, Shape, MonitorShape, Steps, Parts, board, mon, Quiet, Sent
<1>14. ASSUME NEW n \in 0..Len(wire), Kill(n) PROVE Steps'
  BY <1>14, <1>a, <1>b DEF Kill, Exit, Steps, Parts, board, mon, history, Quiet, Sent
<1>15. CASE UNCHANGED vars
  BY <1>15, <1>a DEF vars, pc, board, mon, bounds, history, Steps, Parts, Quiet, Sent
<1> QED
  BY <1>1, <1>2, <1>3, <1>4, <1>5, <1>6, <1>7, <1>8, <1>9, <1>10, <1>11, <1>12, <1>13, <1>14, <1>15
     DEF Next, PcMoves, BoardMoves

-----------------------------------------------------------------------------
(* What is left on the wire. *)

LEMMA RestWhole ==
  ASSUME NEW text \in Seq(Char)
  PROVE  IsRest(text, text) /\ IsRest(<<>>, text)
<1>1. Len(text) \in Nat /\ Len(<<>>) = 0
  OBVIOUS
<1>2. \A i \in 1..Len(text) : Len(text) - Len(text) + i = i
  BY <1>1
<1> QED
  BY ONLY <1>1, <1>2 DEF IsRest

\* The first character is the one after those that have gone.
LEMMA RestTail ==
  ASSUME NEW text \in Seq(Char), wire \in Seq(Char), wire # <<>>, wire' = Tail(wire), Left(text)
  PROVE  /\ IsRest(wire', text)
         /\ Gone(text) \in 0..(Len(text) - 1) /\ Len(text) - Len(wire') = Gone(text) + 1
         /\ Head(wire) = text[Gone(text) + 1]
         /\ Len(wire) = Len(text) - Gone(text)
<1>1. /\ Head(wire) = wire[1] /\ Len(wire) \in Nat /\ Len(wire) > 0 /\ Len(wire') = Len(wire) - 1
      /\ \A i \in 1..Len(wire') : wire'[i] = wire[i + 1]
  BY WireTail
<1>2. Len(text) \in Nat /\ Len(wire) <= Len(text)
      /\ \A i \in 1..Len(wire) : wire[i] = text[Len(text) - Len(wire) + i]
  BY DEF Left, IsRest
<1>3. wire[1] = text[Len(text) - Len(wire) + 1]
  BY ONLY <1>1, <1>2
<1>4. \A i \in 1..Len(wire') : wire'[i] = text[Len(text) - Len(wire') + i]
  <2> SUFFICES ASSUME NEW i \in 1..Len(wire')
               PROVE  wire'[i] = text[Len(text) - Len(wire') + i]
    OBVIOUS
  <2>1. i + 1 \in 1..Len(wire) /\ Len(text) - Len(wire) + (i + 1) = Len(text) - Len(wire') + i
    BY ONLY <1>1, <1>2, i \in 1..Len(wire')
  <2>2. wire[i + 1] = text[Len(text) - Len(wire) + (i + 1)]
    BY ONLY <1>2, <2>1
  <2> QED
    BY <1>1, <2>1, <2>2
<1> QED
  BY ONLY <1>1, <1>2, <1>3, <1>4 DEF IsRest, Gone

\* Where a process is with its parts and its last lines.
LEMMA Place ==
  ASSUME Steps
  PROVE  /\ part \in Nat /\ line \in Nat /\ part > 0 /\ line > 0 /\ Len(Parts) \in Nat
         /\ part <= Len(Parts) => /\ part \in 1..Len(Parts) /\ Addr \in 0..(RAMEnd - 1)
                                  /\ Parts[part].data \in Seq(Byte) /\ Size \in Nat
                                  /\ LoadCommand(Addr) \in Seq(Char) /\ Len(LoadCommand(Addr)) = 7
         /\ Len(job.last) \in Nat /\ \A i \in 1..Len(job.last) : job.last[i] \in Seq(Char)
<1>1. jumps \in Boards /\ job \in Jobs[jumps]
  BY DEF Steps
<1>2. part \in Nat /\ line \in Nat /\ part > 0 /\ line > 0
  BY DEF Steps
<1>3. /\ Len(Parts) \in Nat /\ Len(job.last) \in Nat /\ \A i \in 1..Len(job.last) : job.last[i] \in Seq(Char)
      /\ \A i \in 1..Len(Parts) : /\ Parts[i].addr \in 0..(RAMEnd - 1)
                                  /\ Parts[i].data \in Seq(Byte)
                                  /\ Len(Parts[i].data) \in Nat
  BY <1>1, JobOf DEF Parts
<1>4. part <= Len(Parts) => part \in 1..Len(Parts)
  BY ONLY <1>2, <1>3
<1>5. part <= Len(Parts) => /\ Addr \in 0..(RAMEnd - 1) /\ Parts[part].data \in Seq(Byte) /\ Size \in Nat
  BY ONLY <1>3, <1>4 DEF Addr, Size
<1>6. part <= Len(Parts) => LoadCommand(Addr) \in Seq(Char) /\ Len(LoadCommand(Addr)) = 7
  BY ONLY <1>5, CommandChars
<1> QED
  BY ONLY <1>2, <1>3, <1>4, <1>5, <1>6

\* Data: what has gone grows by one.
LEMMA DataTail ==
  ASSUME wire \in Seq(Char), wire # <<>>, wire' = Tail(wire), UNCHANGED <<job, part, line>>,
         DataLeft(DataGone), Size \in Nat, SentBytes \in Nat
  PROVE  /\ DataLeft(DataGone)' /\ DataGone \in Nat /\ DataGone' = DataGone + 1
         /\ DataGone < 3 * Size /\ IsData(DataGone + 1, Head(wire))
<1>1. /\ Head(wire) = wire[1] /\ Len(wire) \in Nat /\ Len(wire) > 0 /\ Len(wire') = Len(wire) - 1
      /\ \A i \in 1..Len(wire') : wire'[i] = wire[i + 1]
  BY WireTail
<1>2. SentBytes' = SentBytes /\ Size' = Size
  BY DEF SentBytes, Size, Parts
<1>3. DataGone' = DataGone + 1 /\ DataGone \in Int
  BY ONLY <1>1, <1>2, SentBytes \in Nat DEF DataGone
<1>4. \A i, c : IsData(i, c)' <=> IsData(i, c)
  BY DEF IsData, Parts
<1> DEFINE g == DataGone
           P(i, c) == IsData(i, c)
<1>5. /\ g \in Nat /\ g + Len(wire) <= 3 * Size
      /\ \A i \in 1..Len(wire) : P(g + i, wire[i])
  BY DEF DataLeft
<1> HIDE DEF g, P
<1>6. P(g + 1, Head(wire)) /\ g < 3 * Size
  BY ONLY <1>1, <1>5, Size \in Nat
<1>7. \A i \in 1..Len(wire') : P(g + 1 + i, wire'[i])
  <2> SUFFICES ASSUME NEW i \in 1..Len(wire') PROVE P(g + 1 + i, wire'[i])
    OBVIOUS
  <2>1. i + 1 \in 1..Len(wire) /\ g + 1 + i = g + (i + 1)
    BY ONLY <1>1, <1>5, i \in 1..Len(wire')
  <2> QED
    BY <1>1, <1>5, <2>1
<1>8. g + 1 \in Nat /\ g + 1 + Len(wire') <= 3 * Size
  BY ONLY <1>1, <1>5, Size \in Nat
<1>9. DataLeft(DataGone)'
  BY <1>2, <1>3, <1>4, <1>7, <1>8 DEF DataLeft, g, P
<1> QED
  BY ONLY <1>3, <1>5, <1>6, <1>9 DEF g, P

\* A line of n bytes, sent when 3 * m characters of the part have gone.
LEMMA IsDataLine ==
  ASSUME NEW m \in Nat, NEW n \in Nat, NEW bytes \in Seq(Byte), Len(bytes) = n,
         \A q \in 1..n : bytes[q] = Parts[part].data[m + q],
         NEW i \in 1..(3 * n)
  PROVE  IsData(3 * m + i, DataLine(bytes)[i])
<1> DEFINE d == Parts[part].data
           c == DataLine(bytes)[i]
           q == (i + 2) \div 3
<1>1. /\ q \in 1..n
      /\ i % 3 = 1 => c = Hex(bytes[q] \div 16)
      /\ i % 3 = 2 => c = Hex(bytes[q] % 16)
      /\ i % 3 = 0 => c \in {CR, Ch("sp")}
  BY DataLineChars
<1>2. (3 * m + i) % 3 = i % 3 /\ (3 * m + i + 2) \div 3 = m + q /\ i % 3 \in 0..2
  OBVIOUS
<1>3. bytes[q] = d[m + q]
  BY <1>1
<1> DEFINE x == 3 * m + i
           p == m + q
<1>a. x % 3 = i % 3 /\ (x + 2) \div 3 = p /\ bytes[q] = d[p]
  BY ONLY <1>2, <1>3
<1> SUFFICES IsData(x, c)
  OBVIOUS
<1> HIDE DEF d, c, q, x, p
<1>4. CASE i % 3 = 0
  BY ONLY <1>1, <1>a, <1>4 DEF IsData
<1>5. CASE i % 3 = 1
  <2>1. c = Hex(d[p] \div 16)
    BY ONLY <1>1, <1>a, <1>5
  <2> QED
    BY ONLY <1>a, <1>5, <2>1 DEF IsData, d
<1>6. CASE i % 3 = 2
  <2>1. c = Hex(d[p] % 16)
    BY ONLY <1>1, <1>a, <1>6
  <2> QED
    BY ONLY <1>a, <1>6, <2>1 DEF IsData, d
<1> QED
  BY <1>2, <1>4, <1>5, <1>6

LEMMA Progress ==
  ASSUME Steps, part <= Len(Parts)
  PROVE  /\ SentBytes \in 0..Size /\ (line - 1) * BytesPerLine \in Nat
         /\ line * BytesPerLine = (line - 1) * BytesPerLine + BytesPerLine
         /\ line <= Len(Lines) => SentBytes = (line - 1) * BytesPerLine /\ SentBytes < Size
         /\ line > Len(Lines) => SentBytes = Size
         /\ line = 1 => SentBytes = 0
<1> DEFINE m == (line - 1) * BytesPerLine
<1>1. line \in Nat \ {0} /\ Parts[part].data \in Seq(Byte) /\ Size \in Nat /\ Size = Len(Parts[part].data)
  BY Place DEF Size
<1>2. /\ m \in Nat /\ line * BytesPerLine = m + BytesPerLine
      /\ line > Len(Lines) => m >= Size
      /\ line <= Len(Lines) => m < Size
  BY <1>1, LineOf DEF Lines
<1>3. line = 1 => m = 0
  BY PerLine
<1>4. SentBytes = Lesser(m, Size)
  BY DEF SentBytes
<1> HIDE DEF m
<1>5. /\ SentBytes \in 0..Size
      /\ line <= Len(Lines) => SentBytes = m /\ SentBytes < Size
      /\ line > Len(Lines) => SentBytes = Size
      /\ line = 1 => SentBytes = 0
  BY ONLY <1>1, <1>2, <1>3, <1>4 DEF Lesser
<1> QED
  BY <1>2, <1>5 DEF m

\* The next line starts where the last one ended.
LEMMA LineSent ==
  ASSUME Shape, Steps, SendLine
  PROVE  /\ DataLeft(DataGone)' /\ DataGone \in Nat /\ DataGone' = DataGone
         /\ DataGone = 3 * SentBytes /\ SentBytes \in Nat
<1>0. /\ part <= Len(Parts) /\ wire = <<>> /\ line <= Len(Lines) /\ line' = line + 1
      /\ UNCHANGED <<job, part>> /\ wire' = DataLine(Lines[line])
  BY DEF SendLine, Goto, Send, Steps, Sent
<1> DEFINE m == (line - 1) * BytesPerLine
           n == Len(Lines[line])
           t == Lesser(line * BytesPerLine, Size)
<1>1. SentBytes = m /\ m \in Nat /\ m < Size /\ Size \in Nat /\ line \in Nat /\ line > 0
  BY <1>0, Progress, Place
<1>2. /\ Lines[line] \in Seq(Byte) /\ n = t - m
      /\ \A q \in 1..n : Lines[line][q] = Parts[part].data[m + q]
  <2>1. Parts[part].data \in Seq(Byte) /\ line \in Nat \ {0}
    BY <1>0, Place
  <2>2. LET data == Parts[part].data IN
        /\ HexLines(data, BytesPerLine)[line] \in Seq(Byte)
        /\ Len(HexLines(data, BytesPerLine)[line]) =
             Lesser(line * BytesPerLine, Len(data)) - (line - 1) * BytesPerLine
        /\ \A i \in 1..Len(HexLines(data, BytesPerLine)[line]) :
             HexLines(data, BytesPerLine)[line][i] = data[(line - 1) * BytesPerLine + i]
    BY <1>0, <2>1, LineOf DEF Lines
  <2> QED
    BY ONLY <2>2 DEF Lines, Size
<1>3. line * BytesPerLine = m + BytesPerLine /\ BytesPerLine \in Nat /\ BytesPerLine > 0
  BY <1>0, Progress, PerLine
<1>4. SentBytes' = t /\ Size' = Size
  <2>1. (line + 1) - 1 = line
    BY <1>1
  <2> QED
    BY <1>0, <2>1 DEF SentBytes, Size, Parts
<1>5. Len(wire') = 3 * n /\ \A i \in 1..(3 * n) : IsData(3 * m + i, wire'[i])
  <2>1. Len(DataLine(Lines[line])) = 3 * n
    BY <1>2, DataLineChars
  <2>2. n \in Nat
    BY <1>2
  <2> HIDE DEF m, n
  <2>3. ASSUME NEW i \in 1..(3 * n) PROVE IsData(3 * m + i, DataLine(Lines[line])[i])
    BY <1>1, <1>2, <2>2, IsDataLine DEF n
  <2> QED
    BY <1>0, <2>1, <2>3
<1>6. t \in Nat /\ t <= Size /\ m < t
  <2> HIDE DEF m, n
  <2> QED
    BY ONLY <1>1, <1>3 DEF Lesser
<1>7. DataGone = 3 * m
  <2>1. Len(wire) = 0
    BY <1>0
  <2> HIDE DEF m
  <2> QED
    BY ONLY <2>1, <1>1 DEF DataGone
<1>8. DataGone' = 3 * m
  <2> HIDE DEF m, n, t
  <2> QED
    BY ONLY <1>1, <1>2, <1>4, <1>5, <1>6 DEF DataGone
<1>9. \A i, c : IsData(i, c)' <=> IsData(i, c)
  BY <1>0 DEF IsData, Parts
<1> DEFINE P(i, c) == IsData(i, c)
<1>10. DataLeft(DataGone)'
  <2>1. 3 * m \in Nat /\ 3 * m + Len(wire') <= 3 * Size
    <3> HIDE DEF m, n, t
    <3> QED
      BY ONLY <1>1, <1>2, <1>5, <1>6
  <2>2. \A i \in 1..Len(wire') : P(3 * m + i, wire'[i])
    <3> HIDE DEF m, n
    <3> QED
      BY ONLY <1>5
  <2>3. \A i, c : IsData(i, c)' <=> P(i, c)
    BY ONLY <1>9
  <2> HIDE DEF m, n, P
  <2> QED
    BY ONLY <1>4, <1>8, <2>1, <2>2, <2>3 DEF DataLeft
<1> HIDE DEF m
<1> QED
  BY ONLY <1>1, <1>7, <1>8, <1>10

LEMMA SendingInit == Init => Sending
BY DEF Init, Sending

\* While the wire and the step are as they were.
LEMMA SendingKept ==
  ASSUME Sending, UNCHANGED <<job, at, part, line, wire>>
  PROVE  Sending'
<1>1. \A i, c : IsData(i, c)' <=> IsData(i, c)
  BY DEF IsData, Parts
<1>2. DataGone' = DataGone /\ Size' = Size /\ Addr' = Addr
  BY DEF DataGone, SentBytes, Size, Addr, Parts
<1>3. DataLeft(DataGone)' <=> DataLeft(DataGone)
  <2> DEFINE g == DataGone
             P(i, c) == IsData(i, c)
  <2>1. DataLeft(DataGone) <=>
          /\ g \in Nat /\ g + Len(wire) <= 3 * Size
          /\ \A i \in 1..Len(wire) : P(g + i, wire[i])
    BY DEF DataLeft
  <2>2. DataGone' = g /\ \A i, c : IsData(i, c)' <=> P(i, c)
    BY <1>1, <1>2
  <2> HIDE DEF g, P
  <2>3. DataLeft(DataGone)' <=>
          /\ g \in Nat /\ g + Len(wire) <= 3 * Size
          /\ \A i \in 1..Len(wire) : P(g + i, wire[i])
    BY <1>2, <2>2 DEF DataLeft
  <2> QED
    BY <2>1, <2>3
<1> QED
  BY <1>2, <1>3 DEF Sending, Left

\* The next character is taken, or lost.
LEMMA SendingTail ==
  ASSUME Shape, Steps, Sending, wire # <<>>, wire' = Tail(wire), UNCHANGED <<job, at, part, line>>
  PROVE  Sending'
<1>0. wire \in Seq(Char) /\ Addr' = Addr
  BY DEF Shape, Addr, Parts
<1>1. CASE at = "waking"
  <2>1. IsRest(wire', Wake \o <<CR>>)
    BY <1>0, <1>1, WakeChars, RestTail DEF Sending
  <2> QED
    BY <1>1, <2>1 DEF Sending, Left
<1>2. CASE at = "loading"
  <2>1. LoadCommand(Addr) \in Seq(Char)
    BY <1>2, Place DEF Steps
  <2>2. IsRest(wire', LoadCommand(Addr))
    BY <1>0, <1>2, <2>1, RestTail DEF Sending
  <2> QED
    BY <1>0, <1>2, <2>2 DEF Sending, Left
<1>3. CASE at = "lines"
  <2>1. part <= Len(Parts)
    BY <1>3 DEF Steps
  <2>2. Size \in Nat /\ SentBytes \in Nat
    BY <2>1, Place, Progress
  <2>3. DataLeft(DataGone)' /\ DataGone' \in Nat
    BY <1>0, <1>3, <2>2, DataTail DEF Sending
  <2> QED
    BY <1>3, <2>3 DEF Sending
<1>4. CASE at = "dot"
  <2>1. IsRest(wire', EndLoad)
    BY <1>0, <1>4, EndChars, RestTail DEF Sending
  <2> QED
    BY <1>4, <2>1 DEF Sending, Left
<1>5. CASE at = "last"
  <2>1. line > 1 /\ line <= Len(job.last) + 1 /\ Left(job.last[line - 1]) /\ line \in Nat /\ Len(job.last) \in Nat
    BY <1>5, Place DEF Sending
  <2>2. line - 1 \in 1..Len(job.last)
    BY ONLY <2>1
  <2>3. IsRest(wire', job.last[line - 1])
    BY <1>0, <2>1, <2>2, Place, RestTail
  <2> QED
    BY <1>5, <2>1, <2>3 DEF Sending, Left
<1> QED
  BY <1>1, <1>2, <1>3, <1>4, <1>5 DEF Sending

LEMMA SendingNext ==
  ASSUME Shape, Steps, Sending, [Next]_vars
  PROVE  Sending'
<1>1. CASE SendWake
  BY <1>1, WakeChars, RestWhole DEF SendWake, Send, Sending, Left
<1>2. CASE WakeAnswered
  <2>1. at' \in {"wake", "load", "last", "idle"} /\ wire' = <<>>
    BY <1>2 DEF WakeAnswered, Goto, Exit, AfterPart, Hear, Quiet, Sent
  <2>2. line' = line /\ (at' = "last" => line = 1) /\ job' = job
    BY <1>2 DEF WakeAnswered, Goto, Exit, Steps
  <2> QED
    BY <2>1, <2>2, Place DEF Sending
<1>3. CASE SendLoad
  <2>1. /\ part <= Len(Parts) /\ UNCHANGED <<job, part, line>> /\ at' = "loading"
        /\ wire' = LoadCommand(Addr)
    BY <1>3 DEF SendLoad, Goto, Send, Steps, Addr
  <2>2. Addr' = Addr /\ IsRest(wire', LoadCommand(Addr))
    BY <2>1, Place, RestWhole DEF Addr, Parts
  <2> QED
    BY <2>1, <2>2 DEF Sending, Left
<1>4. CASE LoadAnswered
  <2>1. CASE at' = "lines"
    <3>1. /\ at = "loading" /\ line' = 1 /\ UNCHANGED <<part, job>> /\ wire' = <<>>
          /\ part <= Len(Parts)
      BY <1>4, <2>1 DEF LoadAnswered, Goto, Exit, Hear, Quiet, Sent, Steps
    <3>2. Size' = Size /\ Size \in Nat
      BY <3>1, Place DEF Size, Parts
    <3>3. DataGone' = 0
      <4>1. (1 - 1) * BytesPerLine = 0
        BY PerLine
      <4>2. SentBytes' = 0
        BY ONLY <3>1, <3>2, <4>1 DEF SentBytes, Lesser
      <4>3. Len(wire') = 0
        BY <3>1
      <4> QED
        BY ONLY <4>2, <4>3 DEF DataGone
    <3>4. DataLeft(DataGone)'
      BY ONLY <3>1, <3>2, <3>3 DEF DataLeft
    <3> QED
      BY <2>1, <3>3, <3>4 DEF Sending
  <2>2. at' \in {"lines", "idle"}
    BY <1>4 DEF LoadAnswered, Goto, Exit
  <2> QED
    BY <2>1, <2>2 DEF Sending
<1>5. CASE SendLine
  <2>1. at' = "lines"
    BY <1>5 DEF SendLine, Goto
  <2>2. DataLeft(DataGone)' /\ DataGone' \in Nat
    BY <1>5, LineSent
  <2> QED
    BY <2>1, <2>2 DEF Sending
<1>6. CASE SendDot
  BY <1>6, EndChars, RestWhole DEF SendDot, Goto, Send, Sending, Left
<1>7. CASE DotAnswered
  BY <1>7, Place DEF DotAnswered, Goto, Exit, AfterPart, Hear, Sending, Quiet, Sent
<1>8. CASE SendLast
  <2>1. /\ at' = "last" /\ line' = line + 1 /\ job' = job /\ wire' = job.last[line]
        /\ line \in 1..Len(job.last) /\ line' - 1 = line
    BY <1>8, Place DEF SendLast, Goto, Send
  <2>2. IsRest(wire', job.last[line]) /\ Len(job.last) \in Nat
    BY <2>1, Place, RestWhole
  <2> QED
    BY <2>1, <2>2 DEF Sending, Left
<1>9. CASE Complete
  BY <1>9 DEF Complete, Exit, Sending
<1>10. CASE Take
  BY <1>10, SendingTail DEF Take, pc
<1>11. CASE Emitted
  BY <1>11, SendingKept DEF Emitted
<1>12. CASE Lose
  BY <1>12, SendingTail DEF Lose, pc
<1>13. ASSUME NEW j \in Jobs[jumps], Start(j) PROVE Sending'
  <2>1. at' \in {"wake", "last", "load"} /\ wire' = <<>> /\ line' = 1 /\ job' = j
    BY <1>13 DEF Start, Quiet, Sent
  <2>2. Len(j.last) \in Nat
    BY JobOf DEF Steps
  <2> QED
    BY <2>1, <2>2 DEF Sending
<1>14. ASSUME NEW n \in 0..Len(wire), Kill(n) PROVE Sending'
  BY <1>14 DEF Kill, Exit, Sending
<1>15. CASE UNCHANGED vars
  BY <1>15, SendingKept DEF vars, pc
<1> QED
  BY <1>1, <1>2, <1>3, <1>4, <1>5, <1>6, <1>7, <1>8, <1>9, <1>10, <1>11, <1>12, <1>13, <1>14, <1>15
     DEF Next, PcMoves, BoardMoves

-----------------------------------------------------------------------------
(* What the process hears. *)

LEMMA MessageTexts ==
  ASSUME NEW m \in Messages
  PROVE  /\ In("FPGA_MONITOR", m) <=> m = Banner
         /\ In(">", m) <=> m = Load
         /\ In("?", m) <=> m = Error
         /\ m[1] = "?" <=> m = Error
         /\ m # Load => m[Len(m)] = "."
         /\ m # <<>> /\ Len(m) \in Nat /\ Len(m) > 0 /\ m \in Seq(Pieces)
<1>0. m # <<>> /\ Len(m) \in Nat /\ Len(m) > 0 /\ m \in Seq(Pieces)
  BY Texts
<1>1. CASE m = Banner
  BY <1>0, <1>1 DEF Banner, Load, Error, In
<1>2. CASE m = Prompt
  BY <1>0, <1>2 DEF Prompt, Banner, Load, Error, In
<1>3. CASE m = Load
  BY <1>0, <1>3 DEF Load, Banner, Error, In
<1>4. CASE m = Error
  BY <1>0, <1>4 DEF Error, Banner, Load, In
<1>5. CASE m = Dump
  BY <1>0, <1>5 DEF Dump, Banner, Load, Error, In
<1> QED
  BY <1>1, <1>2, <1>3, <1>4, <1>5 DEF Messages

LEMMA FiveTexts ==
  /\ Banner \in Messages /\ Prompt \in Messages /\ Load \in Messages /\ Error \in Messages /\ Dump \in Messages
  /\ Banner # Load /\ Banner # Error /\ Load # Error /\ Dump # Load /\ Dump # Error /\ Dump # Banner
  /\ Prompt # Load /\ Prompt # Error /\ Prompt # Banner
BY Texts DEF Banner, Prompt, Load, Error, Dump

LEMMA InJoined ==
  ASSUME NEW s \in Seq(Pieces), NEW t \in Seq(Pieces), NEW p
  PROVE  In(p, s \o t) <=> In(p, s) \/ In(p, t)
<1> DEFINE u == s \o t
<1>1. /\ u \in Seq(Pieces) /\ Len(u) = Len(s) + Len(t)
      /\ \A i \in 1..Len(s) : u[i] = s[i]
      /\ \A i \in 1..Len(t) : u[Len(s) + i] = t[i]
  BY Joined
<1> HIDE DEF u
<1>2. Len(s) \in Nat /\ Len(t) \in Nat /\ DOMAIN s = 1..Len(s) /\ DOMAIN t = 1..Len(t) /\ DOMAIN u = 1..Len(u)
  BY ONLY <1>1, s \in Seq(Pieces), t \in Seq(Pieces)
<1>3. ASSUME NEW i \in DOMAIN u, u[i] = p PROVE In(p, s) \/ In(p, t)
  <2>1. CASE i <= Len(s)
    BY ONLY <1>1, <1>2, <1>3, <2>1 DEF In
  <2>2. CASE i > Len(s)
    <3>1. i - Len(s) \in 1..Len(t) /\ i = Len(s) + (i - Len(s))
      BY ONLY <1>1, <1>2, <1>3, <2>2
    <3>2. t[i - Len(s)] = p
      BY <1>1, <1>3, <3>1
    <3> QED
      BY ONLY <1>2, <3>1, <3>2 DEF In
  <2> QED
    BY ONLY <1>2, <1>3, <2>1, <2>2
<1>4. ASSUME NEW i \in DOMAIN s, s[i] = p PROVE In(p, u)
  <2>1. i \in DOMAIN u /\ u[i] = p
    BY ONLY <1>1, <1>2, <1>4
  <2> QED
    BY ONLY <2>1 DEF In
<1>5. ASSUME NEW i \in DOMAIN t, t[i] = p PROVE In(p, u)
  <2>1. Len(s) + i \in DOMAIN u /\ u[Len(s) + i] = p
    BY ONLY <1>1, <1>2, <1>5
  <2> QED
    BY ONLY <2>1 DEF In
<1> QED
  BY ONLY <1>3, <1>4, <1>5 DEF In, u

\* A message that has left is as good as one that is leaving.
LEMMA EmittedHeard ==
  ASSUME Shape, Emitted
  PROVE  /\ st = "emit" /\ UNCHANGED <<job, at, tries, part, line, result, wire, jumps, memory, cpu,
                                      magic, cmd, nibs, addr, hi, ret, bounds, history>>
         /\ Mode' = Mode /\ st' = ret /\ msg' = <<>> /\ CmdIdle' = CmdIdle /\ Calm' = Calm /\ ~Nothing
         /\ at # "idle" => /\ ~Nothing'
                           /\ \A p : Said(p)' <=> Said(p)
                           /\ \A p : FirstIs(p)' <=> FirstIs(p)
                           /\ \A p : LastIs(p)' <=> LastIs(p)
<1>1. /\ st = "emit" /\ st' = ret /\ msg' = <<>> /\ ret \in {"cmd", "load"} /\ msg \in Messages
      /\ UNCHANGED <<job, at, tries, part, line, result, wire, jumps, memory, cpu,
                     magic, cmd, nibs, addr, hi, ret, bounds, history>>
      /\ at # "idle" => rx' = rx \o msg
  BY DEF Emitted, Shape, MonitorShape
<1>2. Mode' = Mode /\ CmdIdle' = CmdIdle /\ Calm' = Calm
  BY ONLY <1>1 DEF Mode, CmdIdle, Calm
<1>3. /\ rx \in Seq(Pieces) /\ msg \in Seq(Pieces) /\ msg # <<>> /\ Len(msg) \in Nat /\ Len(msg) > 0
      /\ Len(rx) \in Nat /\ (rx = <<>> <=> Len(rx) = 0)
  BY <1>1, MessageTexts DEF Shape
<1>4. ASSUME at # "idle"
      PROVE  /\ ~Nothing'
             /\ \A p : Said(p)' <=> Said(p)
             /\ \A p : FirstIs(p)' <=> FirstIs(p)
             /\ \A p : LastIs(p)' <=> LastIs(p)
  <2>0. rx' = rx \o msg
    BY <1>1, <1>4
  <2>1. /\ rx' \in Seq(Pieces) /\ Len(rx') = Len(rx) + Len(msg)
        /\ \A i \in 1..Len(rx) : rx'[i] = rx[i]
        /\ \A i \in 1..Len(msg) : rx'[Len(rx) + i] = msg[i]
    BY <1>3, <2>0, Joined
  <2>2. rx' # <<>> /\ rx'[Len(rx')] = msg[Len(msg)]
    BY ONLY <1>3, <2>1
  <2>3. rx # <<>> => rx'[1] = rx[1]
    BY ONLY <1>3, <2>1
  <2>4. rx = <<>> => rx'[1] = msg[1]
    <3>1. rx = <<>> => rx'[Len(rx) + 1] = msg[1] /\ Len(rx) + 1 = 1
      BY ONLY <1>3, <2>1
    <3> QED
      BY <3>1
  <2>5. \A p : In(p, rx') <=> In(p, rx) \/ In(p, msg)
    BY <1>3, <2>0, InJoined
  <2>6. \A p : ~In(p, <<>>)
    BY DEF In
  <2>7. \A p : Said(p)' <=> Said(p)
    BY <1>1, <2>5, <2>6 DEF Said
  <2>8. \A p : FirstIs(p)' <=> FirstIs(p)
    BY <1>1, <1>3, <2>2, <2>3, <2>4 DEF FirstIs
  <2>9. \A p : LastIs(p)' <=> LastIs(p)
    BY <1>1, <1>3, <2>2 DEF LastIs
  <2> QED
    BY <2>2, <2>7, <2>8, <2>9 DEF Nothing
<1> QED
  BY <1>1, <1>2, <1>3, <1>4 DEF Nothing

\* The monitor and what it has said, while nothing changes them.
LEMMA HeardKept ==
  ASSUME UNCHANGED <<rx, mon>>
  PROVE  /\ Mode' = Mode /\ CmdIdle' = CmdIdle /\ Calm' = Calm /\ Nothing' = Nothing
         /\ \A p : Said(p)' <=> Said(p)
         /\ \A p : FirstIs(p)' <=> FirstIs(p)
         /\ \A p : LastIs(p)' <=> LastIs(p)
BY DEF mon, Mode, CmdIdle, Calm, Nothing, Said, In, FirstIs, LastIs

LEMMA SaidHeard ==
  ASSUME MonitorShape, st # "emit", NEW text \in Messages, NEW next \in {"cmd", "load"},
         Say(text, next), rx' = rx
  PROVE  /\ msg = <<>> /\ Mode = st /\ Mode' = next /\ cmd' = "none" /\ st' = "emit" /\ ~Nothing'
         /\ \A p : Said(p)' <=> Said(p) \/ In(p, text)
         /\ \A p : FirstIs(p)' <=> FirstIs(p) \/ (Nothing /\ text[1] = p)
         /\ \A p : LastIs(p)' <=> text[Len(text)] = p
<1>1. /\ msg = <<>> /\ st' = "emit" /\ msg' = text /\ ret' = next /\ cmd' = "none" /\ text # <<>>
  BY MessageTexts DEF MonitorShape, Say
<1>2. \A p : ~In(p, <<>>)
  BY DEF In
<1>3. \A p : Said(p)' <=> Said(p) \/ In(p, text)
  BY <1>1, <1>2 DEF Said, In
<1> QED
  BY <1>1, <1>3 DEF Mode, Nothing, FirstIs, LastIs

\* The next character of the wake sequence, and what the matcher makes of it.
LEMMA WakeHead ==
  ASSUME Shape, at = "waking", Sending, wire # <<>>
  PROVE  /\ Len(wire) \in 1..5 /\ Len(Tail(wire)) = Len(wire) - 1
         /\ Len(wire) = 5 => Head(wire) = Ch("A5")
         /\ Len(wire) = 4 => Head(wire) = Ch("5A")
         /\ Len(wire) = 3 => Head(wire) = Ch("C3")
         /\ Len(wire) = 2 => Head(wire) = Ch("3C")
         /\ Len(wire) = 1 => Head(wire) = CR
<1> DEFINE text == Wake \o <<CR>>
<1>1. text \in Seq(Char) /\ Len(text) = 5 /\ wire \in Seq(Char)
  BY WakeChars DEF Shape
<1>2. /\ Len(wire) \in Nat /\ Len(wire) > 0 /\ Len(wire) <= 5 /\ Head(wire) = wire[1]
      /\ \A i \in 1..Len(wire) : wire[i] = text[5 - Len(wire) + i]
  <2>1. IsRest(wire, text)
    BY DEF Sending, Left
  <2>2. Len(wire) \in Nat /\ Len(wire) > 0 /\ Head(wire) = wire[1]
    BY <1>1
  <2> HIDE DEF text
  <2> QED
    BY ONLY <1>1, <2>1, <2>2 DEF IsRest
<1>3. Head(wire) = text[6 - Len(wire)]
  <2>1. 5 - Len(wire) + 1 = 6 - Len(wire) /\ 1 \in 1..Len(wire)
    BY ONLY <1>2
  <2> QED
    BY <1>2, <2>1
<1>4. Len(Tail(wire)) = Len(wire) - 1
  BY <1>1
<1>5. text[1] = Ch("A5") /\ text[2] = Ch("5A") /\ text[3] = Ch("C3") /\ text[4] = Ch("3C") /\ text[5] = CR
  BY WakeChars
<1> HIDE DEF text
<1>a. Len(wire) \in Nat /\ Len(wire) > 0 /\ Len(wire) <= 5
  BY <1>2
<1>6. /\ Len(wire) = 5 => 6 - Len(wire) = 1
      /\ Len(wire) = 4 => 6 - Len(wire) = 2
      /\ Len(wire) = 3 => 6 - Len(wire) = 3
      /\ Len(wire) = 2 => 6 - Len(wire) = 4
      /\ Len(wire) = 1 => 6 - Len(wire) = 5
      /\ Len(wire) \in 1..5
  <2> DEFINE n == Len(wire)
  <2>1. n \in Nat /\ n > 0 /\ n <= 5
    BY <1>a
  <2> HIDE DEF n
  <2>2. /\ n = 5 => 6 - n = 1
        /\ n = 4 => 6 - n = 2
        /\ n = 3 => 6 - n = 3
        /\ n = 2 => 6 - n = 4
        /\ n = 1 => 6 - n = 5
        /\ n \in 1..5
    BY ONLY <2>1
  <2> QED
    BY <2>2 DEF n
<1> QED
  BY ONLY <1>3, <1>4, <1>5, <1>6

LEMMA WakeTexts ==
  /\ Wake[1] = Ch("A5") /\ Wake[2] = Ch("5A") /\ Wake[3] = Ch("C3") /\ Wake[4] = Ch("3C")
  /\ \A a, b : Ch(a) = Ch(b) <=> a = b
  /\ \A a, n : Ch(a)[1] = a /\ Hex(n)[1] = "hex" /\ Hex(n)[2] = n
BY DEF Wake, Ch, Hex

LEMMA WakeMatch ==
  ASSUME Shape, at = "waking", Sending, wire # <<>>, Match(Head(wire)), st = "off"
  PROVE  \/ Len(wire) = 2 /\ magic = 3 /\ Say(Banner, "cmd") /\ magic' = 0
         \/ /\ UNCHANGED <<st, cmd, msg, ret>> /\ ~(Len(wire) = 2 /\ magic = 3)
            /\ magic' = IF Len(wire) = 5 THEN IF magic < 3 THEN 1 ELSE 0
                        ELSE IF Len(wire) = 4 THEN IF magic = 1 THEN 2 ELSE 0
                        ELSE IF Len(wire) = 3 THEN IF magic = 2 THEN 3 ELSE 0
                        ELSE 0
<1> DEFINE c == Head(wire)
           n == Len(wire)
<1>1. /\ n \in 1..5
      /\ n = 5 => c = Ch("A5")
      /\ n = 4 => c = Ch("5A")
      /\ n = 3 => c = Ch("C3")
      /\ n = 2 => c = Ch("3C")
      /\ n = 1 => c = Ch("cr")
  BY WakeHead DEF CR
<1>2. /\ c = Wake[1] <=> n = 5
      /\ c = Wake[2] <=> n = 4
      /\ c = Wake[3] <=> n = 3
      /\ c = Wake[4] <=> n = 2
  <2> HIDE DEF c, n
  <2> QED
    BY ONLY <1>1, WakeTexts
<1>3. magic \in 0..3
  BY DEF Shape, MonitorShape
<1>4. magic < 3 => (c = Wake[magic + 1] <=> n = 5 - magic)
  <2> HIDE DEF c, n
  <2>1. CASE magic = 0
    BY ONLY <1>1, <1>2, <2>1
  <2>2. CASE magic = 1
    BY ONLY <1>1, <1>2, <2>2
  <2>3. CASE magic = 2
    BY ONLY <1>1, <1>2, <2>3
  <2> QED
    BY ONLY <1>3, <2>1, <2>2, <2>3
<1>5. \/ magic = 3 /\ c = Wake[4] /\ Say(Banner, "cmd") /\ magic' = 0
      \/ /\ ~(magic = 3 /\ c = Wake[4]) /\ UNCHANGED <<st, cmd, msg, ret>>
         /\ magic' = IF magic < 3 /\ c = Wake[magic + 1] THEN magic + 1
                     ELSE IF magic < 3 /\ c = Wake[1] THEN 1 ELSE 0
  BY DEF Match
<1> HIDE DEF c, n
<1> DEFINE new == IF magic < 3 /\ c = Wake[magic + 1] THEN magic + 1
                  ELSE IF magic < 3 /\ c = Wake[1] THEN 1 ELSE 0
           got == IF n = 5 THEN IF magic < 3 THEN 1 ELSE 0
                  ELSE IF n = 4 THEN IF magic = 1 THEN 2 ELSE 0
                  ELSE IF n = 3 THEN IF magic = 2 THEN 3 ELSE 0
                  ELSE 0
<1>6. ~(magic = 3 /\ n = 2) => new = got
  <2>1. CASE magic < 3 /\ n = 5 - magic
    <3>1. new = magic + 1
      BY <1>4, <2>1
    <3>2. got = magic + 1
      BY ONLY <1>1, <1>3, <2>1
    <3> QED
      BY <3>1, <3>2
  <2>2. CASE magic < 3 /\ n # 5 - magic
    <3>1. new = IF n = 5 THEN 1 ELSE 0
      BY <1>2, <1>4, <2>2
    <3>2. got = IF n = 5 THEN 1 ELSE 0
      BY ONLY <1>1, <1>3, <2>2
    <3> QED
      BY <3>1, <3>2
  <2>3. CASE magic = 3
    <3>1. new = 0
      BY <2>3
    <3>2. got = 0
      BY <2>3
    <3> QED
      BY <3>1, <3>2
  <2> QED
    BY ONLY <1>3, <2>1, <2>2, <2>3
<1>7. \/ magic = 3 /\ n = 2 /\ Say(Banner, "cmd") /\ magic' = 0
      \/ ~(magic = 3 /\ n = 2) /\ UNCHANGED <<st, cmd, msg, ret>> /\ magic' = got
  <2> HIDE DEF new, got
  <2>1. \/ magic = 3 /\ n = 2 /\ Say(Banner, "cmd") /\ magic' = 0
        \/ ~(magic = 3 /\ n = 2) /\ UNCHANGED <<st, cmd, msg, ret>> /\ magic' = new
    BY <1>2, <1>5 DEF new
  <2> QED
    BY ONLY <1>6, <2>1
<1> QED
  BY <1>7 DEF n, got

\* What the monitor does with it.
LEMMA WakeTake ==
  ASSUME Shape, at = "waking", Sending, Take
  PROVE  /\ Len(wire) \in 1..5 /\ Len(wire') = Len(wire) - 1
         /\ UNCHANGED <<job, at, tries, part, line, rx, losses, lost, found>>
         /\ \/ st = "off" /\ Len(wire) = 2 /\ magic = 3 /\ Say(Banner, "cmd") /\ magic' = 0
            \/ /\ st = "off" /\ UNCHANGED <<st, cmd, msg, ret>> /\ ~(Len(wire) = 2 /\ magic = 3)
               /\ magic' = IF Len(wire) = 5 THEN IF magic < 3 THEN 1 ELSE 0
                           ELSE IF Len(wire) = 4 THEN IF magic = 1 THEN 2 ELSE 0
                           ELSE IF Len(wire) = 3 THEN IF magic = 2 THEN 3 ELSE 0
                           ELSE 0
            \/ st \in {"cmd", "load"} /\ Len(wire) > 1 /\ Say(Error, st)
            \/ st \in {"cmd", "load"} /\ Len(wire) = 1 /\ cmd = "none" /\ UNCHANGED mon
            \/ /\ st = "cmd" /\ Len(wire) = 1 /\ cmd # "none"
               /\ \/ UNCHANGED mon
                  \/ st' = "off" /\ cmd' = "none" /\ msg' = msg
                  \/ Say(Load, "load")
                  \/ Say(Dump, "cmd")
                  \/ Say(Error, "cmd")
            \/ st = "emit" /\ UNCHANGED mon
<1> DEFINE c == Head(wire)
           n == Len(wire)
<1>0. /\ wire # <<>> /\ wire' = Tail(wire) /\ Read(c)
      /\ UNCHANGED <<job, at, tries, part, line, rx, losses, lost, found>>
  BY DEF Take, pc, bounds
<1>1. /\ n \in 1..5 /\ Len(wire') = n - 1
      /\ n = 5 => c = Ch("A5")
      /\ n = 4 => c = Ch("5A")
      /\ n = 3 => c = Ch("C3")
      /\ n = 2 => c = Ch("3C")
      /\ n = 1 => c = Ch("cr")
  BY <1>0, WakeHead DEF CR
<1>2. n > 1 => c[1] \in {"A5", "5A", "C3", "3C"}
  <2> HIDE DEF c, n
  <2> QED
    BY ONLY <1>1, WakeTexts
<1>3. n = 1 => c = CR /\ c[1] = "cr"
  BY <1>1, WakeTexts DEF CR
<1>4. st \in {"off", "cmd", "load", "emit"} /\ (st = "load" => cmd = "none")
  BY DEF Shape, MonitorShape
<1> DEFINE Heard ==
                \/ st = "off" /\ Len(wire) = 2 /\ magic = 3 /\ Say(Banner, "cmd") /\ magic' = 0
                \/ /\ st = "off" /\ UNCHANGED <<st, cmd, msg, ret>> /\ ~(Len(wire) = 2 /\ magic = 3)
                   /\ magic' = IF Len(wire) = 5 THEN IF magic < 3 THEN 1 ELSE 0
                               ELSE IF Len(wire) = 4 THEN IF magic = 1 THEN 2 ELSE 0
                               ELSE IF Len(wire) = 3 THEN IF magic = 2 THEN 3 ELSE 0
                               ELSE 0
                \/ st \in {"cmd", "load"} /\ Len(wire) > 1 /\ Say(Error, st)
                \/ st \in {"cmd", "load"} /\ Len(wire) = 1 /\ cmd = "none" /\ UNCHANGED mon
                \/ /\ st = "cmd" /\ Len(wire) = 1 /\ cmd # "none"
                   /\ \/ UNCHANGED mon
                      \/ st' = "off" /\ cmd' = "none" /\ msg' = msg
                      \/ Say(Load, "load")
                      \/ Say(Dump, "cmd")
                      \/ Say(Error, "cmd")
                \/ st = "emit" /\ UNCHANGED mon
<1>a. SUFFICES Heard
  BY ONLY <1>0, <1>1, <1>a
<1> HIDE DEF Heard
<1>5. CASE st = "off"
  <2>1. Match(c)
    BY <1>0, <1>5 DEF Read, Letter, Digit, Skip, OpenLoad, DumpRange, LetGo, Nibble, CloseLoad, Reject, Deaf
  <2> QED
    BY <1>0, <1>1, <1>5, <2>1, WakeMatch DEF Heard
<1>6. CASE st \in {"cmd", "load"} /\ n > 1
  <2>1. Reject(c)
    <3>1. c[1] \notin {"L", "M", "G", "hex", "sp", "cr", "."} /\ c # CR /\ c # Ch(".")
      BY ONLY <1>2, <1>6, WakeTexts DEF CR
    <3> HIDE DEF c
    <3> QED
      BY ONLY <1>0, <1>6, <3>1 DEF Read, Match, Letter, Digit, Skip, OpenLoad, DumpRange, LetGo, Nibble,
                                 CloseLoad, Deaf, Space
  <2>2. Say(Error, st)
    BY <2>1 DEF Reject
  <2> QED
    BY <1>0, <1>1, <1>6, <2>2 DEF Heard
<1>7. CASE st \in {"cmd", "load"} /\ n = 1 /\ cmd = "none"
  <2>1. UNCHANGED mon
    <3> HIDE DEF c
    <3>1. c # Ch(".")
      BY ONLY <1>3, <1>7, WakeTexts
    <3>2. ~Match(c) /\ ~Deaf
      BY ONLY <1>7 DEF Match, Deaf
    <3>3. ~Letter(c) /\ ~Digit(c) /\ ~OpenLoad(c) /\ ~DumpRange(c)
      BY ONLY <1>3, <1>7 DEF Letter, Digit, OpenLoad, DumpRange
    <3>4. ~LetGo(c) /\ ~Nibble(c) /\ ~CloseLoad(c) /\ ~Reject(c)
      BY ONLY <1>3, <1>7, <3>1 DEF LetGo, Nibble, CloseLoad, Reject
    <3>5. Skip(c)
      BY ONLY <1>0, <3>2, <3>3, <3>4 DEF Read
    <3> QED
      BY ONLY <3>5 DEF Skip
  <2> QED
    BY <1>0, <1>1, <1>7, <2>1 DEF Heard
<1>8. CASE st = "cmd" /\ n = 1 /\ cmd # "none"
  <2>1. \/ UNCHANGED mon
        \/ st' = "off" /\ cmd' = "none" /\ msg' = msg
        \/ Say(Load, "load")
        \/ Say(Dump, "cmd")
        \/ Say(Error, "cmd")
    <3> HIDE DEF c
    <3> QED
      BY ONLY <1>0, <1>3, <1>8 DEF Read, Match, Letter, Digit, Skip, OpenLoad, DumpRange, LetGo, Nibble,
                                 CloseLoad, Deaf, Reject
  <2> QED
    BY <1>0, <1>1, <1>8, <2>1 DEF Heard
<1>9. CASE st = "emit"
  <2>1. UNCHANGED mon
    BY <1>0, <1>9 DEF Read, Match, Letter, Digit, Skip, OpenLoad, DumpRange, LetGo, Nibble,
                                 CloseLoad, Deaf, Reject
  <2> QED
    BY <1>0, <1>1, <1>9, <2>1 DEF Heard
<1> QED
  BY ONLY <1>1, <1>4, <1>5, <1>6, <1>7, <1>8, <1>9

-----------------------------------------------------------------------------
(* Waking the monitor. *)

LEMMA CreditTake ==
  ASSUME Credit, NEW n \in 1..5, Len(wire) = n, Len(wire') = n - 1, magic \in 0..3,
         UNCHANGED <<losses, tries, found>>, losses \in Nat, tries \in Nat,
         ~(n = 2 /\ magic = 3),
         magic' = IF n = 5 THEN IF magic < 3 THEN 1 ELSE 0
                  ELSE IF n = 4 THEN IF magic = 1 THEN 2 ELSE 0
                  ELSE IF n = 3 THEN IF magic = 2 THEN 3 ELSE 0
                  ELSE 0
  PROVE  Credit'
<1> DEFINE spare == losses + Half - tries
<1>1. spare \in Int /\ spare' = spare
  BY DEF Half
<1>2. \/ spare >= Owed
      \/ n = 5 /\ spare + 1 >= Owed
      \/ n \in 2..4 /\ magic = 5 - n /\ spare >= -1
      \/ n = 1 /\ spare >= 0
  BY DEF Credit
<1>3. Owed = (IF magic = 3 THEN 1 ELSE 0) /\ Owed' = (IF magic' = 3 THEN 1 ELSE 0)
  BY DEF Owed
<1> HIDE DEF spare
<1>4. \/ spare >= Owed'
      \/ n - 1 = 5 /\ spare + 1 >= Owed'
      \/ n - 1 \in 2..4 /\ magic' = 5 - (n - 1) /\ spare >= -1
      \/ n - 1 = 1 /\ spare >= 0
  <2>1. CASE n = 5
    BY ONLY <1>1, <1>2, <1>3, <2>1, magic \in 0..3, magic' = IF magic < 3 THEN 1 ELSE 0
  <2>2. CASE n = 4
    BY ONLY <1>1, <1>2, <1>3, <2>2, magic \in 0..3, magic' = IF magic = 1 THEN 2 ELSE 0
  <2>3. CASE n = 3
    BY ONLY <1>1, <1>2, <1>3, <2>3, magic \in 0..3, magic' = IF magic = 2 THEN 3 ELSE 0
  <2>4. CASE n = 2
    BY ONLY <1>1, <1>2, <1>3, <2>4, magic \in 0..3, magic' = 0, ~(n = 2 /\ magic = 3)
  <2>5. CASE n = 1
    BY ONLY <1>1, <1>2, <1>3, <2>5, magic \in 0..3, magic' = 0
  <2> QED
    BY ONLY <2>1, <2>2, <2>3, <2>4, <2>5, n \in 1..5
<1>5. \/ spare' >= Owed'
      \/ Len(wire') = 5 /\ spare' + 1 >= Owed'
      \/ Len(wire') \in 2..4 /\ magic' = 5 - Len(wire') /\ spare' >= -1
      \/ Len(wire') = 1 /\ spare' >= 0
  BY <1>1, <1>4
<1> QED
  BY ONLY <1>5 DEF Credit, spare

LEMMA CreditLose ==
  ASSUME Credit, NEW n \in 1..5, Len(wire) = n, Len(wire') = n - 1, magic \in 0..3,
         losses' = losses + 1, UNCHANGED <<magic, tries, found>>, losses \in Nat, tries \in Nat
  PROVE  Credit'
<1> DEFINE spare == losses + Half - tries
<1>1. spare \in Int /\ spare' = spare + 1
  BY DEF Half
<1>2. \/ spare >= Owed
      \/ n = 5 /\ spare + 1 >= Owed
      \/ n \in 2..4 /\ magic = 5 - n /\ spare >= -1
      \/ n = 1 /\ spare >= 0
  BY DEF Credit
<1>3. Owed = (IF magic = 3 THEN 1 ELSE 0) /\ Owed' = (IF magic = 3 THEN 1 ELSE 0)
  BY DEF Owed
<1> HIDE DEF spare
<1>4. \/ spare + 1 >= Owed
      \/ n - 1 = 1 /\ spare + 1 >= 0
  BY ONLY <1>1, <1>2, <1>3, magic \in 0..3, n \in 1..5
<1>5. \/ spare' >= Owed'
      \/ Len(wire') = 1 /\ spare' >= 0
  BY <1>1, <1>3, <1>4
<1> QED
  BY ONLY <1>5 DEF Credit, spare


LEMMA WakingTake ==
  ASSUME Shape, Steps, Sending, Waking, Take, at = "waking"
  PROVE  Waking'
<1>1. /\ Len(wire) \in 1..5 /\ Len(wire') = Len(wire) - 1
      /\ UNCHANGED <<job, at, tries, part, line, rx, losses, lost, found>>
  BY WakeTake
<1>2. /\ MonitorShape /\ magic \in 0..3 /\ st \in {"off", "cmd", "load", "emit"}
      /\ (st # "emit" => msg = <<>>) /\ (st = "load" => cmd = "none")
  BY DEF Shape, MonitorShape
<1>3. tries \in Nat /\ losses \in Nat /\ tries > 0
  BY PerLine DEF Steps, Waking
<1>4. Keeps' = Keeps /\ job' = job
  BY <1>1 DEF Keeps
<1>w. /\ Said("FPGA_MONITOR") => CmdIdle /\ LastIs(".")
      /\ found = "load" => Mode = "load"
      /\ found = "cmd" => CmdIdle
      /\ found # "load" /\ Keeps => (Nothing => Mode # "load") /\ (FirstIs("?") => CmdIdle)
      /\ found \in {"off", "half_awake"} => Said("FPGA_MONITOR") \/ (st = "off" /\ Credit)
      /\ (found \in {"cmd", "load"} /\ job.tool \in {"c64", "probe"}) =>
           FirstIs("?") \/ (Nothing /\ \/ losses >= tries
                                       \/ Len(wire) = 5 /\ losses + 1 >= tries)
      /\ (found = "typing" /\ job.tool \in {"c64", "probe"}) =>
           \/ losses >= 4 \/ FirstIs("?")
           \/ /\ Nothing /\ st = "cmd" /\ cmd # "none" /\ tries <= 1
              /\ tries = 1 => losses >= 5 - Len(wire)
  BY DEF Waking
<1> SUFFICES
      /\ Said("FPGA_MONITOR")' => CmdIdle' /\ LastIs(".")'
      /\ found = "load" => Mode' = "load"
      /\ found = "cmd" => CmdIdle'
      /\ found # "load" /\ Keeps => (Nothing' => Mode' # "load") /\ (FirstIs("?")' => CmdIdle')
      /\ found \in {"off", "half_awake"} => Said("FPGA_MONITOR")' \/ (st' = "off" /\ Credit')
      /\ (found \in {"cmd", "load"} /\ job.tool \in {"c64", "probe"}) =>
           FirstIs("?")' \/ (Nothing' /\ losses >= tries)
      /\ (found = "typing" /\ job.tool \in {"c64", "probe"}) =>
           \/ losses >= 4 \/ FirstIs("?")'
           \/ /\ Nothing' /\ st' = "cmd" /\ cmd' # "none" /\ tries <= 1
              /\ tries = 1 => losses >= 5 - Len(wire')
  BY <1>1, <1>3, <1>4 DEF Waking
<1>5. CASE st = "off" /\ Len(wire) = 2 /\ magic = 3 /\ Say(Banner, "cmd") /\ magic' = 0
  <2>1. /\ Mode = "off" /\ Mode' = "cmd" /\ CmdIdle' /\ Said("FPGA_MONITOR")' /\ LastIs(".")' /\ ~Nothing'
        /\ FirstIs("?")' <=> FirstIs("?")
    BY <1>1, <1>2, <1>5, SaidHeard, MessageTexts, FiveTexts DEF CmdIdle
  <2> QED
    BY <1>w, <1>1, <1>3, <1>5, <2>1 DEF CmdIdle
<1>6. CASE /\ st = "off" /\ UNCHANGED <<st, cmd, msg, ret>> /\ ~(Len(wire) = 2 /\ magic = 3)
           /\ magic' = IF Len(wire) = 5 THEN IF magic < 3 THEN 1 ELSE 0
                       ELSE IF Len(wire) = 4 THEN IF magic = 1 THEN 2 ELSE 0
                       ELSE IF Len(wire) = 3 THEN IF magic = 2 THEN 3 ELSE 0
                       ELSE 0
  <2>1. /\ Mode' = Mode /\ Mode = "off" /\ CmdIdle' = CmdIdle /\ Nothing' = Nothing
        /\ \A p : Said(p)' <=> Said(p)
        /\ \A p : FirstIs(p)' <=> FirstIs(p)
        /\ \A p : LastIs(p)' <=> LastIs(p)
    BY <1>1, <1>6 DEF Mode, CmdIdle, Nothing, Said, In, FirstIs, LastIs
  <2>2. Credit => Credit'
    BY <1>1, <1>2, <1>3, <1>6, CreditTake
  <2> QED
    BY <1>w, <1>1, <1>3, <1>6, <2>1, <2>2 DEF CmdIdle
<1>7. CASE st \in {"cmd", "load"} /\ Len(wire) > 1 /\ Say(Error, st)
  <2>1. /\ Mode = st /\ Mode' = st /\ cmd' = "none" /\ ~Nothing'
        /\ Said("FPGA_MONITOR")' <=> Said("FPGA_MONITOR")
        /\ LastIs(".")'
        /\ FirstIs("?")' <=> FirstIs("?") \/ Nothing
    BY <1>1, <1>2, <1>7, SaidHeard, MessageTexts, FiveTexts
  <2> QED
    BY <1>w, <1>1, <1>3, <1>7, <2>1 DEF CmdIdle
<1>8. CASE st \in {"cmd", "load"} /\ Len(wire) = 1 /\ cmd = "none" /\ UNCHANGED mon
  <2>1. /\ Mode' = Mode /\ CmdIdle' = CmdIdle /\ Nothing' = Nothing /\ Mode = st /\ UNCHANGED <<st, cmd>>
        /\ \A p : Said(p)' <=> Said(p)
        /\ \A p : FirstIs(p)' <=> FirstIs(p)
        /\ \A p : LastIs(p)' <=> LastIs(p)
    BY <1>1, <1>8, HeardKept DEF Mode, mon
  <2> QED
    BY <1>w, <1>1, <1>3, <1>8, <2>1 DEF CmdIdle
<1>9. CASE /\ st = "cmd" /\ Len(wire) = 1 /\ cmd # "none"
           /\ \/ UNCHANGED mon
              \/ st' = "off" /\ cmd' = "none" /\ msg' = msg
              \/ Say(Load, "load")
              \/ Say(Dump, "cmd")
              \/ Say(Error, "cmd")
  <2>0. ~CmdIdle /\ Mode = "cmd"
    BY <1>9 DEF CmdIdle, Mode
  <2>1. CASE UNCHANGED mon
    <3>1. /\ Mode' = Mode /\ CmdIdle' = CmdIdle /\ Nothing' = Nothing
          /\ \A p : Said(p)' <=> Said(p)
          /\ \A p : FirstIs(p)' <=> FirstIs(p)
      BY <1>1, <2>1, HeardKept
    <3> QED
      BY <1>w, <1>1, <1>3, <1>9, <2>0, <3>1
  <2>2. CASE st' = "off" /\ cmd' = "none" /\ msg' = msg
    <3>1. /\ Mode' = "off" /\ Nothing' = Nothing
          /\ \A p : Said(p)' <=> Said(p)
          /\ \A p : FirstIs(p)' <=> FirstIs(p)
      BY <1>1, <2>2 DEF Mode, Nothing, Said, In, FirstIs
    <3> QED
      BY <1>w, <1>1, <1>3, <1>9, <2>0, <3>1
  <2>3. CASE Say(Load, "load") \/ Say(Dump, "cmd")
    <3>1. /\ ~Nothing'
          /\ Said("FPGA_MONITOR")' <=> Said("FPGA_MONITOR")
          /\ FirstIs("?")' <=> FirstIs("?")
      BY <1>1, <1>2, <1>9, <2>3, SaidHeard, MessageTexts, FiveTexts
    <3> QED
      BY <1>w, <1>1, <1>3, <1>9, <2>0, <3>1
  <2>4. CASE Say(Error, "cmd")
    <3>1. /\ ~Nothing' /\ CmdIdle'
          /\ Said("FPGA_MONITOR")' <=> Said("FPGA_MONITOR")
          /\ FirstIs("?") => FirstIs("?")'
      BY <1>1, <1>2, <1>9, <2>4, SaidHeard, MessageTexts, FiveTexts DEF CmdIdle
    <3> QED
      BY <1>w, <1>1, <1>3, <1>9, <2>0, <3>1
  <2> QED
    BY <1>9, <2>1, <2>2, <2>3, <2>4
<1>10. CASE st = "emit" /\ UNCHANGED mon
  <2>1. /\ Mode' = Mode /\ CmdIdle' = CmdIdle /\ Nothing' = Nothing /\ ~Nothing
        /\ \A p : Said(p)' <=> Said(p)
        /\ \A p : FirstIs(p)' <=> FirstIs(p)
        /\ \A p : LastIs(p)' <=> LastIs(p)
    BY <1>1, <1>2, <1>10, HeardKept DEF Nothing, MonitorShape
  <2> QED
    BY <1>w, <1>1, <1>3, <1>10, <2>1
<1> QED
  BY WakeTake, <1>5, <1>6, <1>7, <1>8, <1>9, <1>10

-----------------------------------------------------------------------------
(* What the tools look for. *)

LEMMA EqualTexts ==
  ASSUME NEW S, NEW s \in Seq(S), NEW t \in Seq(S), Len(s) = Len(t), \A k \in 1..Len(s) : s[k] = t[k]
  PROVE  s = t
OBVIOUS

LEMMA StartsAtIff ==
  ASSUME NEW text \in Seq(Pieces), NEW piece \in Seq(Pieces), Len(piece) > 0, NEW i \in 1..(Len(text) + 1)
  PROVE  StartsAt(text, i, piece) <=>
           /\ i + Len(piece) - 1 <= Len(text)
           /\ \A k \in 1..Len(piece) : text[i + k - 1] = piece[k]
<1> DEFINE n == Len(text)
           p == Len(piece)
           m == Lesser(i + p - 1, n)
           s == SubSeq(text, i, m)
<1>1. n \in Nat /\ p \in Nat /\ p > 0 /\ i \in Nat /\ i > 0 /\ i <= n + 1
  OBVIOUS
<1>2. m \in Nat /\ m >= i - 1 /\ m <= n /\ m <= i + p - 1 /\ (m = i + p - 1 <=> i + p - 1 <= n)
  <2> HIDE DEF n, p
  <2> QED
    BY ONLY <1>1 DEF Lesser
<1>3. s \in Seq(Pieces) /\ Len(s) = m - i + 1 /\ \A k \in 1..(m - i + 1) : s[k] = text[i + k - 1]
  <2> HIDE DEF m, p
  <2>1. s \in Seq(Pieces)
    BY ONLY <1>1, <1>2, text \in Seq(Pieces)
  <2>2. Len(s) = m - i + 1
    BY ONLY <1>1, <1>2, text \in Seq(Pieces)
  <2>3. \A k \in 1..(m - i + 1) : s[k] = text[i + k - 1]
    BY ONLY <1>1, <1>2, text \in Seq(Pieces)
  <2> QED
    BY ONLY <2>1, <2>2, <2>3
<1>4. StartsAt(text, i, piece) <=> s = piece
  BY DEF StartsAt
<1> HIDE DEF s, m, n, p
<1>5. ASSUME s = piece
      PROVE  i + p - 1 <= n /\ \A k \in 1..p : text[i + k - 1] = piece[k]
  <2>1. m - i + 1 = p
    BY ONLY <1>3, <1>5 DEF p
  <2>2. i + p - 1 <= n
    BY ONLY <1>1, <1>2, <2>1
  <2>3. \A k \in 1..p : text[i + k - 1] = piece[k]
    BY ONLY <1>3, <1>5, <2>1
  <2> QED
    BY ONLY <2>2, <2>3
<1>6. ASSUME i + p - 1 <= n, \A k \in 1..p : text[i + k - 1] = piece[k]
      PROVE  s = piece
  <2>1. m - i + 1 = p
    BY ONLY <1>1, <1>2, <1>6
  <2>2. Len(s) = p /\ \A k \in 1..p : s[k] = piece[k]
    BY ONLY <1>3, <1>6, <2>1
  <2> QED
    BY <1>3, <2>2, EqualTexts DEF p
<1>7. s = piece <=> i + p - 1 <= n /\ \A k \in 1..p : text[i + k - 1] = piece[k]
  BY <1>5, <1>6
<1> QED
  BY <1>4, <1>7 DEF n, p

LEMMA Heard ==
  ASSUME NEW text \in Seq(Pieces), Proper(text)
  PROVE  /\ Contains(text, <<"FPGA_MONITOR">>) <=> In("FPGA_MONITOR", text)
         /\ Contains(text, <<"?">>) <=> In("?", text)
         /\ HasMonitorReady(text) <=> In("FPGA_MONITOR", text) \/ (text # <<>> /\ text[1] = "?")
         /\ HasPrompt(text, ">") => In(">", text)
         /\ text # <<>> /\ text[1] = ">" => HasPrompt(text, ">")
         /\ \A tool : ~Refuses(tool, text)
<1>1. Len(text) \in Nat /\ DOMAIN text = 1..Len(text) /\ (text = <<>> <=> Len(text) = 0)
  OBVIOUS
<1>2. \A i \in 1..Len(text) :
        /\ text[i] \in {"?", "FPGA_MONITOR", "dump"} =>
             i + 2 <= Len(text) /\ text[i + 1] = "eol" /\ text[i + 2] = "."
        /\ text[i] = "eol" => i + 1 <= Len(text) /\ text[i + 1] = "."
  BY <1>1 DEF Proper
<1>3. ASSUME NEW p \in Pieces
      PROVE  Contains(text, <<p>>) <=> In(p, text)
  <2>1. <<p>> \in Seq(Pieces) /\ Len(<<p>>) = 1 /\ <<p>>[1] = p
    OBVIOUS
  <2> DEFINE piece == <<p>>
  <2>2. \A i \in 1..Len(text) : StartsAt(text, i, piece) <=> text[i] = p
    <3> SUFFICES ASSUME NEW i \in 1..Len(text) PROVE StartsAt(text, i, piece) <=> text[i] = p
      OBVIOUS
    <3>1. piece \in Seq(Pieces) /\ Len(piece) = 1 /\ piece[1] = p /\ i \in 1..(Len(text) + 1)
      BY <1>1, <2>1
    <3> HIDE DEF piece
    <3>2. StartsAt(text, i, piece) <=>
           /\ i + Len(piece) - 1 <= Len(text)
           /\ \A k \in 1..Len(piece) : text[i + k - 1] = piece[k]
      <4>1. Len(piece) > 0
        BY <3>1
      <4> QED
        BY <3>1, <4>1, StartsAtIff
    <3>3. i + 1 - 1 = i
      BY <3>1, <1>1
    <3>4. (\A k \in 1..1 : text[i + k - 1] = piece[k]) <=> text[i] = p
      BY <3>1, <3>3
    <3> QED
      BY <1>1, <3>1, <3>2, <3>4
  <2> QED
    BY <1>1, <2>2 DEF Contains, In
<1>4. Contains(text, <<"FPGA_MONITOR">>) <=> In("FPGA_MONITOR", text)
  BY <1>3 DEF Pieces
<1>5. Contains(text, <<"?">>) <=> In("?", text)
  BY <1>3 DEF Pieces
<1>6. In("FPGA_MONITOR", text) => HasPrompt(text, ".")
  <2> SUFFICES ASSUME NEW i \in 1..Len(text), text[i] = "FPGA_MONITOR" PROVE HasPrompt(text, ".")
    BY <1>1 DEF In
  <2>1. i + 2 \in DOMAIN text /\ text[i + 1] = "eol" /\ text[i + 2] = "." /\ (i + 2) - 1 = i + 1
    BY <1>1, <1>2
  <2> QED
    BY ONLY <2>1 DEF HasPrompt
<1>7. StartsAt(text, 1, Error) <=> text # <<>> /\ text[1] = "?"
  <2>1. Error \in Seq(Pieces) /\ Len(Error) = 3 /\ Error[1] = "?" /\ Error[2] = "eol" /\ Error[3] = "."
    BY DEF Error, Pieces
  <2>2. 1 \in 1..(Len(text) + 1) /\ Len(Error) > 0
    BY <1>1, <2>1
  <2>3. StartsAt(text, 1, Error) <=>
           /\ 1 + Len(Error) - 1 <= Len(text)
           /\ \A k \in 1..Len(Error) : text[1 + k - 1] = Error[k]
    BY <2>1, <2>2, StartsAtIff
  <2>4. StartsAt(text, 1, Error) => text # <<>> /\ text[1] = "?"
    <3>1. 1 \in 1..Len(Error) /\ 1 + 1 - 1 = 1
      BY <2>1
    <3> QED
      BY <1>1, <2>1, <2>3, <3>1
  <2>5. ASSUME text # <<>>, text[1] = "?" PROVE StartsAt(text, 1, Error)
    <3>1. Len(text) >= 3 /\ text[2] = "eol" /\ text[3] = "."
      <4>1. 1 \in 1..Len(text) /\ 1 + 1 = 2 /\ 1 + 2 = 3
        BY <1>1, <2>5
      <4> QED
        BY <1>1, <1>2, <2>5, <4>1
    <3>2. \A k \in 1..3 : text[1 + k - 1] = Error[k]
      <4>1. \A k \in 1..3 : 1 + k - 1 = k /\ (k = 1 \/ k = 2 \/ k = 3)
        OBVIOUS
      <4> QED
        BY <2>1, <2>5, <3>1, <4>1
    <3> QED
      BY <1>1, <2>1, <2>3, <3>1, <3>2
  <2> QED
    BY <2>4, <2>5
<1>8. ~Contains(text, <<"eol">> \o Error)
  <2> DEFINE piece == <<"eol">> \o Error
  <2>1. piece \in Seq(Pieces) /\ Len(piece) = 4 /\ piece[1] = "eol" /\ piece[2] = "?"
    BY DEF Error, Pieces
  <2> HIDE DEF piece
  <2>2. ASSUME NEW i \in 1..Len(text), StartsAt(text, i, piece) PROVE FALSE
    <3>1. \A k \in 1..Len(piece) : text[i + k - 1] = piece[k]
      <4>1. i \in 1..(Len(text) + 1) /\ Len(piece) > 0
        BY <1>1, <2>1
      <4> QED
        BY <2>1, <2>2, <4>1, StartsAtIff
    <3>2. i + 1 - 1 = i /\ i + 2 - 1 = i + 1 /\ 1 \in 1..Len(piece) /\ 2 \in 1..Len(piece)
      BY <1>1, <2>1
    <3>3. text[i] = "eol" /\ text[i + 1] = "?"
      BY <2>1, <3>1, <3>2
    <3> QED
      BY <1>2, <3>3
  <2> QED
    BY <1>1, <2>2 DEF Contains, piece
<1>9. \A tool : ~Refuses(tool, text)
  <2> DEFINE piece == <<"eol", "?", "eol">>
  <2>1. piece \in Seq(Pieces) /\ Len(piece) = 3 /\ piece[1] = "eol" /\ piece[2] = "?"
    BY DEF Pieces
  <2> HIDE DEF piece
  <2>2. ASSUME NEW i \in 1..Len(text), StartsAt(text, i, piece) PROVE FALSE
    <3>1. \A k \in 1..Len(piece) : text[i + k - 1] = piece[k]
      <4>1. i \in 1..(Len(text) + 1) /\ Len(piece) > 0
        BY <1>1, <2>1
      <4> QED
        BY <2>1, <2>2, <4>1, StartsAtIff
    <3>2. i + 1 - 1 = i /\ i + 2 - 1 = i + 1 /\ 1 \in 1..Len(piece) /\ 2 \in 1..Len(piece)
      BY <1>1, <2>1
    <3>3. text[i] = "eol" /\ text[i + 1] = "?"
      BY <2>1, <3>1, <3>2
    <3> QED
      BY <1>2, <3>3
  <2>3. ~Contains(text, <<"eol", "?", "eol">>)
    BY <1>1, <2>2 DEF Contains, piece
  <2>4. ASSUME NEW i \in DOMAIN text, text[i] = "?", \A j \in DOMAIN text \ {i} : text[j] = "eol" PROVE FALSE
    <3>1. i + 2 \in DOMAIN text \ {i} /\ text[i + 2] = "."
      BY <1>1, <1>2, <2>4
    <3> QED
      BY <2>4, <3>1
  <2> QED
    BY <2>3, <2>4 DEF Refuses
<1>10. HasPrompt(text, ">") => In(">", text)
  BY DEF HasPrompt, In
<1>11. text # <<>> /\ text[1] = ">" => HasPrompt(text, ">")
  <2>1. text # <<>> => 1 \in DOMAIN text
    BY <1>1
  <2>2. ~(1 > 1)
    OBVIOUS
  <2> QED
    BY <2>1, <2>2, Zenon DEF HasPrompt
<1> QED
  BY <1>4, <1>5, <1>6, <1>7, <1>8, <1>9, <1>10, <1>11 DEF HasMonitorReady

LEMMA WakingInit == Init => Waking
BY DEF Init, Waking

LEMMA WakingLose ==
  ASSUME Shape, Steps, Sending, Waking, Lose, at = "waking"
  PROVE  Waking'
<1>1. /\ Len(wire) \in 1..5 /\ Len(wire') = Len(wire) - 1 /\ losses' = losses + 1
      /\ UNCHANGED <<job, at, tries, rx, mon, found>>
  BY WakeHead DEF Lose, pc, board
<1>2. magic \in 0..3 /\ tries \in Nat /\ losses \in Nat /\ UNCHANGED <<st, magic, cmd>>
  BY <1>1, PerLine DEF Shape, MonitorShape, Steps, mon
<1>3. /\ Mode' = Mode /\ CmdIdle' = CmdIdle /\ Nothing' = Nothing
      /\ \A p : Said(p)' <=> Said(p)
      /\ \A p : FirstIs(p)' <=> FirstIs(p)
      /\ \A p : LastIs(p)' <=> LastIs(p)
  BY <1>1, HeardKept
<1>4. Credit => Credit'
  BY <1>1, <1>2, CreditLose
<1>5. Keeps' = Keeps
  BY <1>1 DEF Keeps
<1>6. /\ losses >= 4 => losses' >= 4
      /\ losses >= tries => losses' >= tries
      /\ losses + 1 >= tries => losses' >= tries
      /\ losses >= 5 - Len(wire) => losses' >= 5 - Len(wire')
  BY ONLY <1>1, <1>2
<1> QED
  BY <1>1, <1>2, <1>3, <1>4, <1>5, <1>6 DEF Waking

LEMMA WakingEmitted ==
  ASSUME Shape, Steps, Waking, Emitted, at = "waking"
  PROVE  Waking'
<1>1. /\ st = "emit" /\ UNCHANGED <<job, at, tries, wire, found, losses>>
      /\ Mode' = Mode /\ CmdIdle' = CmdIdle /\ ~Nothing /\ ~Nothing'
      /\ Said("FPGA_MONITOR")' <=> Said("FPGA_MONITOR")
      /\ FirstIs("?")' <=> FirstIs("?")
      /\ LastIs(".")' <=> LastIs(".")
  BY EmittedHeard DEF bounds, history
<1>2. Keeps' = Keeps
  BY <1>1 DEF Keeps
<1> QED
  BY <1>1, <1>2 DEF Waking

LEMMA WakingSent ==
  ASSUME Shape, Steps, Waking, SendWake
  PROVE  Waking'
<1>1. /\ at = "wake" /\ at' = "waking" /\ wire = <<>> /\ wire' = Wake \o <<CR>> /\ tries' = tries + 1
      /\ rx' = IF Keeps THEN rx ELSE <<>>
      /\ UNCHANGED <<job, mon, found, losses>>
  BY DEF SendWake, Send, Sent, board, bounds, history, Keeps
<1>2. Len(wire) = 0 /\ Len(wire') = 5
  BY <1>1, WakeChars
<1>3. /\ st # "emit" /\ msg = <<>> /\ magic \in 0..3 /\ tries \in Nat /\ losses \in Nat
      /\ UNCHANGED <<st, magic, cmd, msg>>
  BY <1>1, PerLine DEF Steps, Shape, MonitorShape, Quiet, mon
<1>4. /\ Mode' = Mode /\ CmdIdle' = CmdIdle /\ Keeps' = Keeps
      /\ Keeps => /\ Nothing' = Nothing
                  /\ FirstIs("?")' <=> FirstIs("?")
  BY <1>1, <1>3 DEF mon, Mode, CmdIdle, Nothing, FirstIs, Keeps
<1>5. ~Said("FPGA_MONITOR") /\ ~Said("FPGA_MONITOR")'
  <2>1. ~Said("FPGA_MONITOR")
    BY <1>1 DEF Waking
  <2>2. ~In("FPGA_MONITOR", <<>>)
    BY DEF In
  <2>3. rx' = rx \/ rx' = <<>>
    BY <1>1
  <2> QED
    BY <1>3, <2>1, <2>2, <2>3 DEF Said
<1>6. Credit => Credit'
  <2> DEFINE spare == losses + Half - tries
  <2>1. spare \in Int /\ spare' = spare - 1 /\ Owed' = Owed
    BY <1>1, <1>3 DEF Half, Owed
  <2>2. Credit => spare >= Owed
    BY <1>2 DEF Credit
  <2>3. Owed \in Int
    BY DEF Owed
  <2> HIDE DEF spare
  <2>4. Credit => spare' + 1 >= Owed'
    BY ONLY <2>1, <2>2, <2>3
  <2> QED
    BY <1>2, <2>4 DEF Credit, spare
<1>w. /\ found = "load" => Mode = "load"
      /\ found = "cmd" => CmdIdle
      /\ found # "load" /\ Keeps => (Nothing => Mode # "load") /\ (FirstIs("?") => CmdIdle)
      /\ found \in {"off", "half_awake"} => (st = "off" /\ Credit)
      /\ (found \in {"cmd", "load"} /\ job.tool \in {"c64", "probe"}) =>
           FirstIs("?") \/ (Nothing /\ losses >= tries)
      /\ (found = "typing" /\ job.tool \in {"c64", "probe"}) =>
           \/ losses >= 4 \/ FirstIs("?")
           \/ /\ Nothing /\ st = "cmd" /\ cmd # "none" /\ tries <= 1
              /\ tries = 1 => losses >= 5
  BY <1>1, <1>2, <1>5 DEF Waking
<1>7. job.tool \in {"c64", "probe"} => Keeps
  BY DEF Keeps
<1>8. /\ tries' > 0 /\ (losses >= tries => losses + 1 >= tries')
      /\ tries <= 1 /\ (tries = 1 => losses >= 5) => losses >= 4 \/ (tries' <= 1 /\ (tries' = 1 => losses >= 5 - 5))
  BY ONLY <1>1, <1>3
<1> SUFFICES
      /\ found = "load" => Mode = "load"
      /\ found = "cmd" => CmdIdle
      /\ found # "load" /\ Keeps => (Nothing' => Mode # "load") /\ (FirstIs("?")' => CmdIdle)
      /\ found \in {"off", "half_awake"} => (st = "off" /\ Credit')
      /\ (found \in {"cmd", "load"} /\ job.tool \in {"c64", "probe"}) =>
           FirstIs("?")' \/ (Nothing' /\ losses + 1 >= tries')
      /\ (found = "typing" /\ job.tool \in {"c64", "probe"}) =>
           \/ losses >= 4 \/ FirstIs("?")'
           \/ /\ Nothing' /\ st = "cmd" /\ cmd # "none" /\ tries' <= 1
              /\ tries' = 1 => losses >= 5 - 5
  BY <1>1, <1>2, <1>3, <1>4, <1>5, <1>8 DEF Waking
<1> QED
  BY <1>4, <1>6, <1>w, <1>7, <1>8

LEMMA WakingStart ==
  ASSUME Shape, Steps, NEW j \in Jobs[jumps], Start(j)
  PROVE  Waking'
<1>1. /\ wire = <<>> /\ st # "emit" /\ msg = <<>> /\ at' \in {"wake", "last", "load"}
      /\ UNCHANGED <<wire, st, magic, cmd, msg, ret>>
      /\ rx' = <<>> /\ tries' = 0 /\ losses' = 0 /\ magic \in 0..3
      /\ (st \in {"off", "load"} => cmd = "none") /\ (st # "off" => magic = 0)
      /\ st \in {"off", "cmd", "load"}
  BY DEF Start, Quiet, Sent, board, mon, Shape, MonitorShape
<1>2. found' = IF cmd # "none" THEN "typing" ELSE IF magic = 3 THEN "half_awake" ELSE st
  BY DEF Start
<1>3. ~In("FPGA_MONITOR", <<>>)
  BY DEF In
<1>4. ~Said("FPGA_MONITOR")' /\ Nothing' /\ ~FirstIs("?")' /\ Mode' = st /\ (CmdIdle' <=> st = "cmd" /\ cmd = "none")
  BY <1>1, <1>3 DEF Said, Nothing, FirstIs, Mode, CmdIdle
<1>5. Len(wire') = 0
  BY <1>1
<1>6. found' \in {"off", "half_awake"} => Credit'
  <2>1. CASE magic = 3
    <3>1. found' = "half_awake" \/ found' = "typing"
      BY <1>2, <2>1
    <3>2. found' = "half_awake" => Half' = 1
      BY DEF Half
    <3>3. Owed' = 1
      BY <1>1, <2>1 DEF Owed
    <3>4. found' = "half_awake" => losses' + Half' - tries' >= Owed'
      BY ONLY <1>1, <3>2, <3>3
    <3> QED
      BY <3>1, <3>4 DEF Credit
  <2>2. CASE magic # 3
    <3>1. Owed' = 0
      BY <1>1, <2>2 DEF Owed
    <3>2. Half' = 0 \/ Half' = 1
      BY DEF Half
    <3>3. losses' = 0 /\ tries' = 0
      BY <1>1
    <3>4. losses' + Half' - tries' >= Owed'
      BY ONLY <3>1, <3>2, <3>3
    <3> QED
      BY <3>4 DEF Credit
  <2> QED
    BY <2>1, <2>2
<1> QED
  BY <1>1, <1>2, <1>4, <1>5, <1>6 DEF Waking

LEMMA NotWoken ==
  ASSUME Shape, Waking, Quiet, at = "waking", ~Woken
  PROVE  ~Said("FPGA_MONITOR") /\ (job.tool \in {"c64", "probe"} => ~FirstIs("?"))
<1>1. msg = <<>> /\ rx \in Seq(Pieces) /\ Proper(rx)
  BY DEF Quiet, Shape, MonitorShape
<1>2. /\ Said("FPGA_MONITOR") <=> In("FPGA_MONITOR", rx)
      /\ FirstIs("?") <=> rx # <<>> /\ rx[1] = "?"
      /\ LastIs(".") => rx[Len(rx)] = "."
  BY <1>1 DEF Said, In, FirstIs, LastIs
<1>3. /\ BannerSeen <=> In("FPGA_MONITOR", rx)
      /\ LoaderWoken <=> In("FPGA_MONITOR", rx) \/ (rx # <<>> /\ rx[1] = "?")
  BY <1>1, Heard DEF BannerSeen, LoaderWoken
<1>4. Said("FPGA_MONITOR") => LastIs(".")
  BY DEF Waking
<1> QED
  BY <1>2, <1>3, <1>4 DEF Woken, TerminalWoken

LEMMA WokenIdle ==
  ASSUME Shape, Waking, Quiet, at = "waking", Woken
  PROVE  /\ found # "load" => CmdIdle
         /\ job.tool \notin {"c64", "probe"} => CmdIdle
<1>1. msg = <<>> /\ rx \in Seq(Pieces) /\ Proper(rx)
  BY DEF Quiet, Shape, MonitorShape
<1>2. /\ Said("FPGA_MONITOR") <=> In("FPGA_MONITOR", rx)
      /\ FirstIs("?") <=> rx # <<>> /\ rx[1] = "?"
  BY <1>1 DEF Said, In, FirstIs
<1>3. /\ BannerSeen <=> In("FPGA_MONITOR", rx)
      /\ LoaderWoken <=> In("FPGA_MONITOR", rx) \/ (rx # <<>> /\ rx[1] = "?")
  BY <1>1, Heard DEF BannerSeen, LoaderWoken
<1>4. /\ Said("FPGA_MONITOR") => CmdIdle
      /\ found # "load" /\ Keeps /\ FirstIs("?") => CmdIdle
  BY DEF Waking
<1> QED
  BY <1>2, <1>3, <1>4 DEF Woken, TerminalWoken, Keeps

LEMMA WakingAnswered ==
  ASSUME Shape, Steps, Waking, WakeAnswered
  PROVE  Waking'
<1>1. CASE at' # "wake"
  <2>1. at' \in {"idle", "load", "last", "wake"}
    BY DEF WakeAnswered, Goto, Exit, AfterPart
  <2> QED
    BY <1>1, <2>1 DEF Waking
<1>2. CASE at' = "wake"
  <2>1. at = "waking" /\ wire = <<>> /\ ~Woken
        /\ UNCHANGED <<job, tries, rx, wire, mon, losses, found, board>>
    BY <1>2 DEF WakeAnswered, Goto, Exit, AfterPart, Hear, Quiet, Sent, board, bounds
  <2>2. /\ Mode' = Mode /\ CmdIdle' = CmdIdle /\ Nothing' = Nothing
        /\ \A p : Said(p)' <=> Said(p)
        /\ \A p : FirstIs(p)' <=> FirstIs(p)
        /\ \A p : LastIs(p)' <=> LastIs(p)
    BY <2>1, HeardKept
  <2>3. ~Said("FPGA_MONITOR")
    BY <2>1, NotWoken DEF WakeAnswered
  <2>4. UNCHANGED <<st, cmd, magic>> /\ Keeps' = Keeps /\ Credit' = Credit
    BY <2>1 DEF mon, Keeps, Credit, Half, Owed
  <2> QED
    BY <1>2, <2>1, <2>2, <2>3, <2>4 DEF Waking
<1> QED
  BY <1>1, <1>2

LEMMA WakingAway ==
  ASSUME at' \notin {"wake", "waking"}
  PROVE  Waking'
BY DEF Waking

LEMMA WakingNext ==
  ASSUME Shape, Steps, Sending, Waking, [Next]_vars
  PROVE  Waking'
<1>1. CASE SendWake
  BY <1>1, WakingSent
<1>2. CASE WakeAnswered
  BY <1>2, WakingAnswered
<1>3. CASE SendLoad \/ LoadAnswered \/ SendLine \/ SendDot \/ DotAnswered \/ SendLast \/ Complete
  BY <1>3, WakingAway DEF SendLoad, LoadAnswered, SendLine, SendDot, DotAnswered, SendLast, Complete,
                          Goto, Exit, AfterPart
<1>4. CASE Take
  <2>1. at' = at /\ at # "wake"
    BY <1>4 DEF Take, pc, Steps, Quiet, Sent
  <2> QED
    BY <1>4, <2>1, WakingTake, WakingAway DEF Steps
<1>5. CASE Emitted
  <2>1. at' = at /\ at # "wake"
    BY <1>5 DEF Emitted, Steps, Quiet, Sent
  <2> QED
    BY <1>5, <2>1, WakingEmitted, WakingAway DEF Steps
<1>6. CASE Lose
  <2>1. at' = at /\ at # "wake"
    BY <1>6 DEF Lose, pc, Steps, Quiet, Sent
  <2> QED
    BY <1>6, <2>1, WakingLose, WakingAway DEF Steps
<1>7. ASSUME NEW j \in Jobs[jumps], Start(j) PROVE Waking'
  BY <1>7, WakingStart
<1>8. ASSUME NEW n \in 0..Len(wire), Kill(n) PROVE Waking'
  BY <1>8, WakingAway DEF Kill, Exit
<1>9. CASE UNCHANGED vars
  <2>1. UNCHANGED <<job, at, tries, rx, wire, mon, found, losses, st, magic, cmd>>
    BY <1>9 DEF vars, pc, board, mon, bounds, history
  <2>2. /\ Mode' = Mode /\ CmdIdle' = CmdIdle /\ Nothing' = Nothing
        /\ \A p : Said(p)' <=> Said(p)
        /\ \A p : FirstIs(p)' <=> FirstIs(p)
        /\ \A p : LastIs(p)' <=> LastIs(p)
    BY <2>1, HeardKept
  <2>3. Keeps' = Keeps /\ Credit' = Credit
    BY <2>1 DEF Keeps, Credit, Half, Owed
  <2> QED
    BY <2>1, <2>2, <2>3 DEF Waking
<1> QED
  BY <1>1, <1>2, <1>3, <1>4, <1>5, <1>6, <1>7, <1>8, <1>9 DEF Next, PcMoves, BoardMoves

-----------------------------------------------------------------------------
(* What the monitor makes of a character of each kind. *)

LEMMA ReadEmit ==
  ASSUME NEW c \in Char, Read(c), st = "emit"
  PROVE  UNCHANGED mon
BY DEF Read, Match, Letter, Digit, Skip, OpenLoad, DumpRange, LetGo, Nibble, CloseLoad, Reject, Deaf

LEMMA ReadOff ==
  ASSUME MonitorShape, NEW c \in Char, Read(c), st = "off", c[1] \notin {"A5", "5A", "C3", "3C"}
  PROVE  UNCHANGED <<st, cmd, nibs, addr, hi, msg, ret>> /\ magic' = 0
<1>1. Match(c)
  BY DEF Read, Letter, Digit, Skip, OpenLoad, DumpRange, LetGo, Nibble, CloseLoad, Reject, Deaf
<1>2. c # Wake[1] /\ c # Wake[2] /\ c # Wake[3] /\ c # Wake[4]
  BY WakeTexts
<1>3. magic \in 0..3
  BY DEF MonitorShape
<1>4. magic < 3 => c # Wake[magic + 1]
  <2>1. CASE magic = 0
    BY <1>2, <2>1
  <2>2. CASE magic = 1
    BY <1>2, <2>2
  <2>3. CASE magic = 2
    BY <1>2, <2>3
  <2> QED
    BY ONLY <1>3, <2>1, <2>2, <2>3
<1> QED
  BY ONLY <1>1, <1>2, <1>4 DEF Match

LEMMA ReadSpace ==
  ASSUME MonitorShape, NEW c \in Char, Read(c), st \in {"cmd", "load"}, Space(c)
  PROVE  /\ st = "load" \/ cmd = "none" => UNCHANGED mon
         /\ cmd = "L" /\ nibs = 0 => UNCHANGED mon
         /\ cmd = "L" /\ nibs = 4 => OpenLoad(c)
         /\ cmd = "L" /\ nibs \notin {0, 4} => Reject(c)
         /\ cmd = "G" /\ nibs = 0 => IF c = CR THEN LetGo(c) ELSE UNCHANGED mon
         /\ cmd = "G" /\ nibs = 4 => LetGo(c)
         /\ cmd = "G" /\ nibs \notin {0, 4} => Reject(c)
<1>1. (st = "load" => cmd = "none") /\ nibs \in 0..8
  BY DEF MonitorShape
<1>2. c[1] \in {"sp", "cr"} /\ c # Ch(".")
  BY WakeTexts DEF Space
<1>3. ~Match(c) /\ ~Letter(c) /\ ~Digit(c) /\ ~Nibble(c) /\ ~CloseLoad(c) /\ ~Deaf
  BY <1>2 DEF Match, Letter, Digit, Nibble, CloseLoad, Deaf
<1>4. Skip(c) \/ OpenLoad(c) \/ DumpRange(c) \/ LetGo(c) \/ Reject(c)
  BY <1>3 DEF Read
<1>5. CASE st = "load" \/ cmd = "none"
  <2>1. Skip(c)
    BY <1>1, <1>2, <1>4, <1>5 DEF OpenLoad, DumpRange, LetGo, Reject
  <2> QED
    BY <1>1, <1>5, <2>1 DEF Skip
<1>6. CASE st = "cmd" /\ cmd = "L"
  <2>1. Most = 4
    BY <1>6 DEF Most
  <2>2. CASE nibs = 0
    <3>1. Skip(c)
      BY <1>2, <1>4, <1>6, <2>2 DEF OpenLoad, DumpRange, LetGo, Reject, Space
    <3> QED
      BY <1>6, <2>2, <3>1 DEF Skip
  <2>3. CASE nibs = 4
    <3>1. OpenLoad(c)
      BY <1>2, <1>4, <1>6, <2>1, <2>3 DEF Skip, DumpRange, LetGo, Reject, Space
    <3> QED
      BY <1>6, <2>3, <3>1
  <2>4. CASE nibs \notin {0, 4}
    <3>1. Reject(c)
      BY <1>2, <1>4, <1>6, <2>1, <2>4 DEF Skip, OpenLoad, DumpRange, LetGo, Space
    <3> QED
      BY <1>6, <2>4, <3>1
  <2> QED
    BY <1>6, <2>2, <2>3, <2>4
<1>7. CASE st = "cmd" /\ cmd = "G"
  <2>1. Most = 4
    BY <1>7 DEF Most
  <2>2. CASE nibs = 0 /\ c = CR
    <3>1. LetGo(c)
      BY <1>2, <1>4, <1>7, <2>2 DEF OpenLoad, DumpRange, Skip, Reject, Space
    <3> QED
      BY <1>7, <2>2, <3>1
  <2>3. CASE nibs = 0 /\ c # CR
    <3>1. Skip(c)
      BY <1>2, <1>4, <1>7, <2>3 DEF OpenLoad, DumpRange, LetGo, Reject, Space
    <3> QED
      BY <1>7, <2>3, <3>1 DEF Skip
  <2>4. CASE nibs = 4
    <3>1. LetGo(c)
      BY <1>2, <1>4, <1>7, <2>1, <2>4 DEF Skip, DumpRange, OpenLoad, Reject, Space
    <3> QED
      BY <1>7, <2>4, <3>1
  <2>5. CASE nibs \notin {0, 4}
    <3>1. Reject(c)
      BY <1>2, <1>4, <1>7, <2>1, <2>5 DEF Skip, OpenLoad, DumpRange, LetGo, Space
    <3> QED
      BY <1>7, <2>5, <3>1
  <2> QED
    BY <1>7, <2>2, <2>3, <2>4, <2>5
<1> QED
  BY <1>1, <1>5, <1>6, <1>7

LEMMA ReadHex ==
  ASSUME MonitorShape, NEW c \in Char, Read(c), st \in {"cmd", "load"}, c[1] = "hex"
  PROVE  /\ st = "load" => Nibble(c)
         /\ st = "cmd" /\ (cmd = "none" \/ nibs >= Most) => Reject(c)
         /\ st = "cmd" /\ cmd # "none" /\ nibs < Most => Digit(c)
<1>1. /\ c[1] \notin {"sp", "cr", "L", "M", "G", "."} /\ c # CR /\ c # Ch(".") /\ ~Space(c)
      /\ nibs \in 0..8 /\ (Most = 8 \/ Most = 4)
  BY WakeTexts DEF Space, MonitorShape, CR, Most
<1>2. CASE st = "load"
  BY <1>1, <1>2 DEF Read, Match, Letter, Digit, Skip, OpenLoad, DumpRange, LetGo, CloseLoad, Reject, Deaf
<1>3. CASE st = "cmd" /\ (cmd = "none" \/ nibs >= Most)
  BY <1>1, <1>3 DEF Read, Match, Letter, Digit, Skip, OpenLoad, DumpRange, LetGo, CloseLoad, Nibble, Deaf
<1>4. CASE st = "cmd" /\ cmd # "none" /\ nibs < Most
  BY <1>1, <1>4 DEF Read, Match, Letter, Skip, OpenLoad, DumpRange, LetGo, CloseLoad, Nibble, Reject, Deaf
<1> QED
  BY <1>2, <1>3, <1>4

LEMMA ReadMark ==
  ASSUME MonitorShape, NEW c \in Char, Read(c), st \in {"cmd", "load"}, c[1] \in {"L", ".", "G"}
  PROVE  /\ st = "load" /\ c[1] # "." => Reject(c)
         /\ st = "load" /\ c[1] = "." => CloseLoad(c)
         /\ st = "cmd" /\ cmd = "none" /\ c[1] = "L" => Letter(c)
         /\ st = "cmd" /\ cmd = "none" /\ c[1] = "." => Reject(c)
         /\ st = "cmd" /\ cmd = "none" /\ c[1] = "G" => IF jumps THEN Letter(c) ELSE LetGo(c)
         /\ st = "cmd" /\ cmd # "none" => Reject(c)
<1>1. c[1] \notin {"sp", "cr", "M", "hex"} /\ c # CR /\ ~Space(c) /\ (c = Ch(".") => c[1] = ".")
  BY WakeTexts DEF Space, CR
<1>2. CASE st = "load" /\ c[1] # "."
  BY <1>1, <1>2 DEF Read, Match, Letter, Digit, Skip, OpenLoad, DumpRange, LetGo, CloseLoad, Nibble, Deaf
<1>3. CASE st = "load" /\ c[1] = "."
  BY <1>1, <1>3 DEF Read, Match, Letter, Digit, Skip, OpenLoad, DumpRange, LetGo, Reject, Nibble, Deaf
<1>4. CASE st = "cmd" /\ cmd = "none" /\ c[1] = "L"
  BY <1>1, <1>4 DEF Read, Match, Digit, Skip, OpenLoad, DumpRange, LetGo, CloseLoad, Nibble, Reject, Deaf
<1>5. CASE st = "cmd" /\ cmd = "none" /\ c[1] = "."
  BY <1>1, <1>5 DEF Read, Match, Letter, Digit, Skip, OpenLoad, DumpRange, LetGo, CloseLoad, Nibble, Deaf
<1>6. CASE st = "cmd" /\ cmd = "none" /\ c[1] = "G"
  BY <1>1, <1>6 DEF Read, Match, Letter, Digit, Skip, OpenLoad, DumpRange, LetGo, CloseLoad, Nibble, Reject, Deaf
<1>7. CASE st = "cmd" /\ cmd # "none"
  BY <1>1, <1>7 DEF Read, Match, Letter, Digit, Skip, OpenLoad, DumpRange, LetGo, CloseLoad, Nibble, Deaf
<1> QED
  BY <1>2, <1>3, <1>4, <1>5, <1>6, <1>7

-----------------------------------------------------------------------------
(* The digits of an address. *)

DigitOf(a, k) == CASE k = 1 -> a \div 4096 [] k = 2 -> (a \div 256) % 16
                   [] k = 3 -> (a \div 16) % 16 [] OTHER -> a % 16

LEMMA Sixteen ==
  ASSUME NEW n \in Nat, n < 65536
  PROVE  /\ (16 * (n \div 16) + (n % 16)) % 65536 = n /\ n % 16 \in 0..15
         /\ n \div 16 \in Nat /\ n \div 16 < 65536
<1>1. 16 * (n \div 16) + (n % 16) = n
  OBVIOUS
<1>2. n % 65536 = n
  OBVIOUS
<1>3. n % 16 \in 0..15
  OBVIOUS
<1>4. n \div 16 \in Nat /\ n \div 16 < 65536
  OBVIOUS
<1> QED
  BY ONLY <1>1, <1>2, <1>3, <1>4

LEMMA PrefixStep ==
  ASSUME NEW a \in 0..(RAMEnd - 1)
  PROVE  /\ Prefix(a, 0) = 0 /\ Prefix(a, 4) = a
         /\ \A k \in 0..3 : /\ (16 * Prefix(a, k) + DigitOf(a, k + 1)) % RAMEnd = Prefix(a, k + 1)
                            /\ DigitOf(a, k + 1) \in 0..15
<1>0. a \in Nat /\ a < 65536
  BY EndIs
<1> DEFINE b == a \div 16
           c == a \div 256
           d == a \div 4096
<1>1. /\ Prefix(a, 0) = 0 /\ Prefix(a, 1) = d /\ Prefix(a, 2) = c /\ Prefix(a, 3) = b
      /\ Prefix(a, 4) = a
  BY DEF Prefix
<1>2. DigitOf(a, 1) = d /\ DigitOf(a, 2) = c % 16 /\ DigitOf(a, 3) = b % 16 /\ DigitOf(a, 4) = a % 16
  BY DEF DigitOf
<1>3. c = b \div 16
  BY ONLY <1>0
<1>4. d = c \div 16
  BY ONLY <1>0
<1>5. d \in 0..15
  BY ONLY <1>0
<1>6. (16 * 0 + d) % 65536 = d
  <2> HIDE DEF d
  <2> QED
    BY ONLY <1>5
<1>7. (16 * b + (a % 16)) % 65536 = a /\ a % 16 \in 0..15 /\ b \in Nat /\ b < 65536
  BY ONLY <1>0, Sixteen
<1> HIDE DEF b
<1>8. (16 * c + (b % 16)) % 65536 = b /\ b % 16 \in 0..15 /\ c \in Nat /\ c < 65536
  BY ONLY <1>3, <1>7, Sixteen
<1> HIDE DEF c
<1>9. (16 * d + (c % 16)) % 65536 = c /\ c % 16 \in 0..15
  BY ONLY <1>4, <1>8, Sixteen
<1> HIDE DEF d
<1> DEFINE F(x, y) == (16 * x + y) % 65536
           r2 == c % 16
           r3 == b % 16
           r4 == a % 16
<1>10. /\ F(0, d) = d /\ F(d, r2) = c /\ F(c, r3) = b /\ F(b, r4) = a
       /\ d \in 0..15 /\ r2 \in 0..15 /\ r3 \in 0..15 /\ r4 \in 0..15
  <2>1. F(0, d) = d
    BY ONLY <1>6
  <2>2. F(d, r2) = c
    BY ONLY <1>9
  <2>3. F(c, r3) = b
    BY ONLY <1>8
  <2>4. F(b, r4) = a
    BY ONLY <1>7
  <2>5. r2 \in 0..15 /\ r3 \in 0..15 /\ r4 \in 0..15
    BY ONLY <1>7, <1>8, <1>9
  <2> QED
    BY ONLY <1>5, <2>1, <2>2, <2>3, <2>4, <2>5
<1>11. DigitOf(a, 1) = d /\ DigitOf(a, 2) = r2 /\ DigitOf(a, 3) = r3 /\ DigitOf(a, 4) = r4
  BY ONLY <1>2, Zenon
<1>12. \A x, y : F(x, y) = (16 * x + y) % RAMEnd
  BY ONLY EndIs
<1> HIDE DEF F, r2, r3, r4
<1>13. ASSUME NEW k \in 0..3
       PROVE  F(Prefix(a, k), DigitOf(a, k + 1)) = Prefix(a, k + 1) /\ DigitOf(a, k + 1) \in 0..15
  <2>1. CASE k = 0
    BY ONLY <1>1, <1>10, <1>11, <2>1
  <2>2. CASE k = 1
    BY ONLY <1>1, <1>10, <1>11, <2>2
  <2>3. CASE k = 2
    BY ONLY <1>1, <1>10, <1>11, <2>3
  <2>4. CASE k = 3
    BY ONLY <1>1, <1>10, <1>11, <2>4
  <2> QED
    BY ONLY <1>13, <2>1, <2>2, <2>3, <2>4
<1> QED
  BY ONLY <1>1, <1>12, <1>13, Zenon

-----------------------------------------------------------------------------
(* The command L, character by character. *)

\* The next character of a command, of which x have gone.
LEMMA CommandHead ==
  ASSUME NEW letter \in Marks, NEW a \in 0..(RAMEnd - 1), NEW text \in Seq(Char), Len(text) = 7,
         text[1] = Ch(letter), text[2] = Ch("sp"),
         text[3] = Hex(DigitOf(a, 1)), text[4] = Hex(DigitOf(a, 2)),
         text[5] = Hex(DigitOf(a, 3)), text[6] = Hex(DigitOf(a, 4)), text[7] = CR,
         wire \in Seq(Char), wire # <<>>, wire' = Tail(wire), Left(text), NEW x, x = Gone(text)
  PROVE  /\ x \in 0..6 /\ Len(text) - Len(wire') = x + 1 /\ Head(wire) \in Char
         /\ x = 0 => Head(wire) = Ch(letter)
         /\ x = 1 => Head(wire) = Ch("sp")
         /\ x \in 2..5 => Head(wire) = Hex(DigitOf(a, x - 1)) /\ DigitOf(a, x - 1) \in 0..15
         /\ x = 6 => Head(wire) = CR
<1>5. \A k \in 0..3 : DigitOf(a, k + 1) \in 0..15
  BY ONLY a \in 0..(RAMEnd - 1), PrefixStep
<1>6. Gone(text) \in 0..(Len(text) - 1) /\ Len(text) - Len(wire') = Gone(text) + 1
      /\ Head(wire) = text[Gone(text) + 1] /\ Head(wire) \in Char
  <2>1. wire \in Seq(Char) /\ wire # <<>> /\ wire' = Tail(wire) /\ text \in Seq(Char) /\ Left(text)
    OBVIOUS
  <2> QED
    BY ONLY <2>1, RestTail, WireTail
<1> DEFINE c == Head(wire)
           T(i) == text[i]
<1>8. x \in 0..6 /\ c = T(x + 1) /\ Len(text) - Len(wire') = x + 1
  BY <1>6
<1>9. /\ T(1) = Ch(letter) /\ T(2) = Ch("sp") /\ T(7) = CR
      /\ T(3) = Hex(DigitOf(a, 1)) /\ T(4) = Hex(DigitOf(a, 2))
      /\ T(5) = Hex(DigitOf(a, 3)) /\ T(6) = Hex(DigitOf(a, 4))
  OBVIOUS
<1> HIDE DEF c, T
<1>10. /\ x = 0 => c = Ch(letter)
       /\ x = 1 => c = Ch("sp")
       /\ x = 6 => c = CR
  BY ONLY <1>8, <1>9
<1>11. ASSUME x \in 2..5
       PROVE  c = Hex(DigitOf(a, x - 1)) /\ DigitOf(a, x - 1) \in 0..15
  <2>1. x - 2 \in 0..3 /\ (x - 2) + 1 = x - 1
    BY ONLY <1>11
  <2>2. DigitOf(a, x - 1) \in 0..15
    BY ONLY <1>5, <2>1
  <2>3. x = 2 \/ x = 3 \/ x = 4 \/ x = 5
    BY ONLY <1>11
  <2>4. c = Hex(DigitOf(a, x - 1))
    BY ONLY <1>8, <1>9, <2>3
  <2> QED
    BY ONLY <2>2, <2>4
<1> QED
  BY <1>6, <1>8, <1>10, <1>11 DEF c

LEMMA LoadHead ==
  ASSUME Shape, Steps, Sending, at = "loading", wire # <<>>, wire' = Tail(wire),
         NEW x, x = Gone(LoadCommand(Addr))
  PROVE  /\ x \in 0..6 /\ Len(LoadCommand(Addr)) - Len(wire') = x + 1 /\ Head(wire) \in Char
         /\ Addr \in 0..(RAMEnd - 1)
         /\ x = 0 => Head(wire) = Ch("L")
         /\ x = 1 => Head(wire) = Ch("sp")
         /\ x \in 2..5 => Head(wire) = Hex(DigitOf(Addr, x - 1)) /\ DigitOf(Addr, x - 1) \in 0..15
         /\ x = 6 => Head(wire) = CR
<1> DEFINE a == Addr
           text == LoadCommand(a)
<1>1. wire \in Seq(Char) /\ a \in 0..(RAMEnd - 1) /\ Left(text) /\ "L" \in Marks /\ x = Gone(text)
  BY Place DEF Steps, Shape, Sending, Marks
<1> HIDE DEF a
<1>2. /\ text \in Seq(Char) /\ Len(text) = 7 /\ text[1] = Ch("L") /\ text[2] = Ch("sp")
      /\ text[3] = Hex(DigitOf(a, 1)) /\ text[4] = Hex(DigitOf(a, 2))
      /\ text[5] = Hex(DigitOf(a, 3)) /\ text[6] = Hex(DigitOf(a, 4))
      /\ text[7] = CR
  <2>1. /\ DigitOf(a, 1) = a \div 4096 /\ DigitOf(a, 2) = (a \div 256) % 16
        /\ DigitOf(a, 3) = (a \div 16) % 16 /\ DigitOf(a, 4) = a % 16
    BY DEF DigitOf
  <2>2. /\ text \in Seq(Char) /\ Len(text) = 7 /\ text[1] = Ch("L") /\ text[2] = Ch("sp")
        /\ text[3] = Hex(a \div 4096) /\ text[4] = Hex((a \div 256) % 16)
        /\ text[5] = Hex((a \div 16) % 16) /\ text[6] = Hex(a % 16)
        /\ text[7] = CR
    BY ONLY <1>1, CommandChars
  <2> QED
    BY ONLY <2>1, <2>2
<1> HIDE DEF text
<1>3. /\ x \in 0..6 /\ Len(text) - Len(wire') = x + 1 /\ Head(wire) \in Char
      /\ x = 0 => Head(wire) = Ch("L")
      /\ x = 1 => Head(wire) = Ch("sp")
      /\ x \in 2..5 => Head(wire) = Hex(DigitOf(a, x - 1)) /\ DigitOf(a, x - 1) \in 0..15
      /\ x = 6 => Head(wire) = CR
  BY ONLY <1>1, <1>2, wire # <<>>, wire' = Tail(wire), CommandHead, ZenonT(40)
<1> QED
  BY <1>1, <1>3 DEF a, text

LEMMA DigsStep ==
  /\ Digs(0) = 0 /\ Digs(1) = 0 /\ Digs(2) = 0 /\ Digs(6) = 4 /\ Digs(7) = 4
  /\ \A x \in 2..5 : Digs(x) = x - 2 /\ Digs(x + 1) = x - 1
BY DEF Digs

\* With nothing lost the monitor is in the command, and at its end it says
\* the prompt of the load mode.
LEMMA CleanTake ==
  ASSUME Shape, Steps, Sending, at = "loading", Take, NEW x, x = Gone(LoadCommand(Addr)),
         CleanLoading(x)
  PROVE  CleanLoading(x + 1)'
<1> DEFINE c == Head(wire)
           a == Addr
<1>1. /\ wire # <<>> /\ wire' = Tail(wire) /\ Read(c) /\ UNCHANGED <<job, at, part, line, rx>>
  BY DEF Take, pc
<1>2. /\ x \in 0..6 /\ c \in Char /\ a \in 0..(RAMEnd - 1)
      /\ x = 0 => c = Ch("L")
      /\ x = 1 => c = Ch("sp")
      /\ x \in 2..5 => c = Hex(DigitOf(a, x - 1)) /\ DigitOf(a, x - 1) \in 0..15
      /\ x = 6 => c = CR
  BY <1>1, LoadHead
<1>3. Addr' = a /\ a' = a
  BY <1>1 DEF Addr, Parts
<1>4. /\ Prefix(a, 0) = 0 /\ Prefix(a, 4) = a
      /\ \A k \in 0..3 : (16 * Prefix(a, k) + DigitOf(a, k + 1)) % RAMEnd = Prefix(a, k + 1)
  BY <1>2, PrefixStep
<1>5. MonitorShape /\ (st = "emit" <=> msg # <<>>)
  BY DEF Shape, MonitorShape
<1> HIDE DEF a, c
<1>6. CASE x = 0
  <2>1. st = "cmd" /\ cmd = "none" /\ Nothing
    BY <1>5, <1>6 DEF CleanLoading, CmdIdle, Mode, Nothing
  <2>2. c[1] = "L"
    BY <1>2, <1>6, WakeTexts
  <2>3. Letter(c)
    BY <1>1, <1>2, <1>5, <2>1, <2>2, ReadMark
  <2>4. st' = "cmd" /\ cmd' = "L" /\ addr' = 0 /\ nibs' = 0 /\ msg' = msg
    BY <2>1, <2>2, <2>3 DEF Letter
  <2>5. x + 1 = 1
    BY <1>6
  <2>6. Came(a, 1)' /\ Nothing'
    BY <1>1, <1>3, <1>4, <2>1, <2>4, DigsStep DEF Came, Nothing
  <2> QED
    BY <1>3, <2>4, <2>5, <2>6 DEF CleanLoading, Came
<1>7. CASE x = 1
  <2>1. st = "cmd" /\ cmd = "L" /\ nibs = 0 /\ addr = 0 /\ Nothing
    BY <1>4, <1>7, DigsStep DEF CleanLoading, Came, a
  <2>2. Space(c)
    BY <1>2, <1>7, WakeTexts DEF Space
  <2>3. UNCHANGED mon
    BY <1>1, <1>2, <1>5, <2>1, <2>2, ReadSpace
  <2>4. x + 1 = 2
    BY <1>7
  <2>5. Came(a, 2)' /\ Nothing' /\ cmd' = "L"
    BY <1>1, <1>3, <1>4, <2>1, <2>3, DigsStep DEF Came, Nothing, mon
  <2> QED
    BY <1>3, <2>4, <2>5 DEF CleanLoading, Came
<1>8. CASE x \in 2..5
  <2>0. x \in 1..6 /\ Digs(x) = x - 2 /\ Digs(x + 1) = x - 1
    BY <1>8, DigsStep
  <2>1. st = "cmd" /\ cmd = "L" /\ nibs = x - 2 /\ addr = Prefix(a, nibs) /\ Nothing
    BY <2>0 DEF CleanLoading, Came, a
  <2>2. c[1] = "hex" /\ c[2] = DigitOf(a, x - 1)
    BY <1>2, <1>8, WakeTexts
  <2>3. Most = 4 /\ nibs < 4 /\ nibs \in 0..3 /\ nibs + 1 = x - 1 /\ x + 1 \in 1..6 /\ x + 1 # 0 /\ x + 1 # 7
    BY <1>8, <2>1 DEF Most
  <2>4. Digit(c)
    BY <1>1, <1>2, <1>5, <2>1, <2>2, <2>3, ReadHex
  <2>5. /\ nibs' = nibs + 1 /\ addr' = (16 * addr + c[2]) % RAMEnd
        /\ UNCHANGED <<st, cmd, msg>>
    BY <2>3, <2>4 DEF Digit
  <2>6. addr' = Prefix(a, nibs + 1)
    BY <1>4, <2>1, <2>2, <2>3, <2>5
  <2>7. Came(a, x + 1)' /\ Nothing' /\ cmd' = "L"
    BY <1>1, <1>3, <2>0, <2>1, <2>3, <2>5, <2>6 DEF Came, Nothing
  <2> QED
    BY <1>3, <2>3, <2>7 DEF CleanLoading, Came
<1>9. CASE x = 6
  <2>1. st = "cmd" /\ cmd = "L" /\ nibs = 4 /\ addr = a /\ Nothing
    BY <1>4, <1>9, DigsStep DEF CleanLoading, Came, a
  <2>2. Space(c)
    BY <1>2, <1>9, WakeTexts DEF Space, CR
  <2>3. OpenLoad(c)
    BY <1>1, <1>2, <1>5, <2>1, <2>2, ReadSpace
  <2>4. Say(Load, "load") /\ hi' = NoCall /\ addr' = addr
    BY <2>3 DEF OpenLoad
  <2>5. x + 1 = 7 /\ st # "emit"
    BY <1>9, <2>1
  <2>6. Mode' = "load" /\ FirstIs(">")'
    <3>1. Load \in Messages /\ Load[1] = ">"
      BY FiveTexts DEF Load
    <3> QED
      BY <1>1, <1>5, <2>1, <2>4, <2>5, <3>1, SaidHeard
  <2> QED
    BY <1>3, <2>1, <2>4, <2>5, <2>6 DEF CleanLoading, Ready
<1> QED
  <2>1. x = 0 \/ x = 1 \/ x \in 2..5 \/ x = 6
    BY <1>2
  <2> QED
    BY <1>6, <1>7, <1>8, <1>9, <2>1

LEMMA LinesHead ==
  ASSUME Shape, Steps, Sending, at = "lines", wire # <<>>, wire' = Tail(wire)
  PROVE  Head(wire) \in Char /\ Head(wire)[1] \in {"hex", "sp", "cr"}
<1> DEFINE g == DataGone
           c == Head(wire)
<1>1. part <= Len(Parts) /\ wire \in Seq(Char) /\ c = wire[1] /\ c \in Char
  BY WireTail DEF Steps, Shape
<1>2. g \in Nat /\ IsData(g + 1, c)
  <2>1. /\ g \in Nat /\ \A i \in 1..Len(wire) : IsData(g + i, wire[i])
    BY DEF Sending, DataLeft
  <2>2. 1 \in 1..Len(wire)
    BY WireTail, <1>1
  <2> QED
    BY ONLY <1>1, <2>1, <2>2
<1> HIDE DEF g, c
<1>3. (g + 1) % 3 = 0 \/ (g + 1) % 3 = 1 \/ (g + 1) % 3 = 2
  BY ONLY <1>2
<1>4. c = CR \/ c = Ch("sp") \/ \E n : c = Hex(n)
  BY ONLY <1>2, <1>3 DEF IsData
<1> QED
  BY <1>1, <1>4, WakeTexts DEF CR, c

LEMMA DotHead ==
  ASSUME Shape, Sending, at = "dot", wire # <<>>, wire' = Tail(wire)
  PROVE  /\ Len(wire) \in 1..2 /\ Len(wire') = Len(wire) - 1 /\ Head(wire) \in Char
         /\ Len(wire) = 2 => Head(wire) = Ch(".")
         /\ Len(wire) = 1 => Head(wire) = CR
<1> DEFINE text == EndLoad
           g == Gone(text)
<1>1. text \in Seq(Char) /\ Len(text) = 2 /\ text[1] = Ch(".") /\ text[2] = CR
  BY EndChars
<1>2. wire \in Seq(Char) /\ Left(text)
  BY DEF Shape, Sending
<1>3. Len(wire') = Len(wire) - 1 /\ Head(wire) \in Char
  BY <1>2, WireTail
<1> HIDE DEF text
<1>a. g \in 0..(Len(text) - 1) /\ Head(wire) = text[g + 1] /\ Len(wire) = Len(text) - g
  BY <1>1, <1>2, RestTail
<1> HIDE DEF g
<1>4. g \in 0..1 /\ Head(wire) = text[g + 1] /\ Len(wire) = 2 - g
  BY ONLY <1>1, <1>a
<1>5. g = 0 \/ g = 1
  BY ONLY <1>4
<1> QED
  BY ONLY <1>1, <1>3, <1>4, <1>5

\* When a wake succeeds, the monitor is in its start state, except that the
\* C64 loader may be deceived by a load mode that an earlier run has left.
LEMMA WokenClean ==
  ASSUME Shape, Steps, Waking, WakeAnswered, CleanHyp, at' \in {"load", "last"}
  PROVE  CmdIdle' /\ Nothing' /\ line' = 1
<1>1. /\ Woken /\ rx' = <<>> /\ line' = line /\ line = 1 /\ at = "waking" /\ Quiet /\ st # "emit"
      /\ UNCHANGED <<job, mon, wire>>
  BY DEF WakeAnswered, Goto, Exit, Hear, AfterPart, Steps, Quiet, board
<1>2. Uploads /\ (Keeps => found # "load")
  BY DEF CleanHyp, Uploads, Keeps
<1>3. CmdIdle
  BY <1>1, <1>2, WokenIdle DEF Uploads, Keeps
<1>4. msg = <<>>
  BY <1>1 DEF Shape, MonitorShape
<1> QED
  BY <1>1, <1>3, <1>4 DEF CmdIdle, Mode, Nothing, mon

LEMMA CleanEmitted ==
  ASSUME Shape, Steps, Clean, Emitted
  PROVE  Clean'
<1> SUFFICES ASSUME CleanHyp' PROVE Clean'
  BY DEF Clean
<1>1. /\ st = "emit" /\ UNCHANGED <<job, at, tries, part, line, result, wire, jumps, memory, cpu,
                                    magic, cmd, nibs, addr, hi, ret, bounds, history>>
      /\ Mode' = Mode /\ st' = ret /\ CmdIdle' = CmdIdle /\ ~Nothing
      /\ at # "idle" => (FirstIs(">")' <=> FirstIs(">"))
  BY EmittedHeard
<1>2. CleanHyp
  BY <1>1 DEF CleanHyp, Uploads, history
<1>3. Addr' = Addr /\ Gone(LoadCommand(Addr))' = Gone(LoadCommand(Addr))
  BY <1>1 DEF Addr, Parts, Gone
<1>4. at = "loading" => CleanLoading(Gone(LoadCommand(Addr)))'
  <2> DEFINE x == Gone(LoadCommand(Addr))
  <2>1. x' = x
    BY <1>3
  <2>2. at = "loading" => CleanLoading(x)
    BY <1>2 DEF Clean
  <2> HIDE DEF x
  <2>3. at = "loading" => x # 0 /\ x \notin 1..6
    BY <1>1, <2>2 DEF CleanLoading
  <2>4. at = "loading" => CleanLoading(x)'
    BY <1>1, <1>3, <2>1, <2>2, <2>3 DEF CleanLoading, Ready
  <2> QED
    BY <2>4 DEF x
<1> QED
  BY <1>1, <1>2, <1>4 DEF Clean

LEMMA CleanBoard ==
  ASSUME Shape, Steps, Sending, Clean, Take
  PROVE  Clean'
<1> SUFFICES ASSUME CleanHyp' PROVE Clean'
  BY DEF Clean
<1> DEFINE c == Head(wire)
<1>1. /\ wire # <<>> /\ wire' = Tail(wire) /\ Read(c) /\ UNCHANGED <<job, at, part, line, rx, result, lost, found, jumps>>
  BY DEF Take, pc
<1>2. CleanHyp
  BY <1>1 DEF CleanHyp, Uploads
<1>3. MonitorShape /\ (st = "emit" <=> msg # <<>>) /\ (st \in {"off", "load"} => cmd = "none")
  BY DEF Shape, MonitorShape
<1>4. CASE at = "loading"
  <2>0. PICK x : x = Gone(LoadCommand(Addr))
    OBVIOUS
  <2>1. CleanLoading(x)
    BY <1>2, <1>4, <2>0 DEF Clean
  <2>2. CleanLoading(x + 1)'
    BY <1>4, <2>0, <2>1, CleanTake
  <2>3. Addr' = Addr
    BY <1>1 DEF Addr, Parts
  <2>4. Gone(LoadCommand(Addr))' = x + 1
    BY <1>1, <1>4, <2>0, <2>3, LoadHead DEF Gone
  <2>5. CleanLoading(Gone(LoadCommand(Addr)))'
    BY <2>2, <2>4
  <2> QED
    BY <1>1, <1>4, <2>5 DEF Clean
<1>5. CASE at = "lines"
  <2>1. st = "load"
    BY <1>2, <1>5 DEF Clean
  <2>2. c \in Char /\ c[1] \in {"hex", "sp", "cr"}
    BY <1>1, <1>5, LinesHead
  <2>3. st' = "load"
    <3>1. CASE c[1] = "hex"
      BY <1>1, <1>3, <2>1, <2>2, <3>1, ReadHex DEF Nibble
    <3>2. CASE c[1] # "hex"
      BY <1>1, <1>3, <2>1, <2>2, <3>2, ReadSpace DEF Space, mon
    <3> QED
      BY <3>1, <3>2
  <2> QED
    BY <1>1, <1>5, <2>3 DEF Clean
<1>6. CASE at = "dot"
  <2>1. /\ Len(wire) \in 1..2 /\ Len(wire') = Len(wire) - 1 /\ c \in Char
        /\ Len(wire) = 2 => c = Ch(".")
        /\ Len(wire) = 1 => c = CR
    BY <1>1, <1>6, DotHead
  <2>2. CmdIdle' /\ Len(wire') # 2
    <3>1. CASE Len(wire) = 2
      <4>1. st = "load" /\ c = Ch(".") /\ c[1] = "."
        BY <1>2, <1>6, <2>1, <3>1, WakeTexts DEF Clean
      <4>2. CloseLoad(c)
        BY <1>1, <1>3, <2>1, <4>1, ReadMark
      <4>3. CmdIdle' /\ 2 - 1 # 2
        BY <4>2 DEF CloseLoad, Say, CmdIdle, Mode
      <4> QED
        BY <2>1, <3>1, <4>3
    <3>2. CASE Len(wire) = 1
      <4>1. CmdIdle /\ c = CR /\ Space(c)
        BY <1>2, <1>6, <2>1, <3>2, WakeTexts DEF Clean, Space, CR
      <4>2. UNCHANGED mon
        <5>1. CASE st = "emit"
          BY <1>1, <2>1, <5>1, ReadEmit
        <5>2. CASE st # "emit"
          BY <1>1, <1>3, <2>1, <4>1, <5>2, ReadSpace DEF CmdIdle, Mode
        <5> QED
          BY <5>1, <5>2
      <4>3. CmdIdle' /\ 1 - 1 # 2
        BY <4>1, <4>2 DEF CmdIdle, Mode, mon
      <4> QED
        BY <2>1, <3>2, <4>3
    <3> QED
      BY <2>1, <3>1, <3>2
  <2> QED
    BY <1>1, <1>6, <2>2 DEF Clean
<1>7. CASE at = "last" /\ line = 1
  BY <1>1, <1>7 DEF Sending
<1>8. CASE at = "load"
  BY <1>1, <1>8 DEF Steps, Quiet, Sent
<1> QED
  BY <1>1, <1>4, <1>5, <1>6, <1>7, <1>8 DEF Clean

LEMMA CleanStart ==
  ASSUME Shape, Steps, NEW j \in Jobs[jumps], Start(j)
  PROVE  Clean'
<1> SUFFICES ASSUME CleanHyp' PROVE Clean'
  BY DEF Clean
<1>1. /\ Quiet /\ job' = j /\ at' = (IF j.wake THEN "wake" ELSE IF j.parts = <<>> THEN "last" ELSE "load")
      /\ rx' = <<>> /\ UNCHANGED mon
      /\ found' = (IF cmd # "none" THEN "typing" ELSE IF magic = 3 THEN "half_awake" ELSE st)
  BY DEF Start, board
<1>2. CASE ~j.wake
  <2>1. found' = "cmd"
    BY <1>1, <1>2 DEF CleanHyp
  <2>2. st = "cmd" /\ cmd = "none" /\ msg = <<>>
    BY <1>1, <2>1 DEF Shape, MonitorShape, Quiet
  <2>3. CmdIdle' /\ Nothing'
    BY <1>1, <2>2 DEF CmdIdle, Mode, Nothing, mon
  <2> QED
    BY <1>1, <1>2, <2>3 DEF Clean
<1>3. CASE j.wake
  BY <1>1, <1>3 DEF Clean
<1> QED
  BY <1>2, <1>3

LEMMA CleanNext ==
  ASSUME Shape, Steps, Sending, Waking, Clean, [Next]_vars
  PROVE  Clean'
<1> SUFFICES ASSUME CleanHyp' PROVE Clean'
  BY DEF Clean
<1>1. CASE SendWake
  BY <1>1 DEF SendWake, Clean
<1>2. CASE WakeAnswered
  <2>1. CleanHyp
    BY <1>2 DEF WakeAnswered, Hear, Goto, Exit, CleanHyp, Uploads
  <2>2. at' \in {"wake", "load", "last", "idle"}
    BY <1>2 DEF WakeAnswered, Goto, Exit, AfterPart
  <2>3. CASE at' \in {"load", "last"}
    BY <1>2, <2>1, <2>3, WokenClean DEF Clean
  <2> QED
    BY <2>2, <2>3 DEF Clean
<1>3. CASE SendLoad
  <2>1. /\ at = "load" /\ at' = "loading" /\ UNCHANGED <<job, part, line, rx, mon, lost, found>>
        /\ wire' = LoadCommand(Addr) /\ Len(LoadCommand(Addr)) \in Nat
    BY <1>3, Place DEF SendLoad, Goto, Send, board, history, Addr, Steps
  <2>2. CmdIdle /\ Nothing
    BY <2>1 DEF Clean, CleanHyp, Uploads
  <2>3. CmdIdle' /\ Nothing'
    BY <2>1, <2>2, HeardKept
  <2>4. Gone(LoadCommand(Addr))' = 0
    <3>1. Addr' = Addr
      BY <2>1 DEF Addr, Parts
    <3>2. \A n \in Nat : n - n = 0
      OBVIOUS
    <3> QED
      BY <2>1, <3>1, <3>2 DEF Gone
  <2>5. CleanLoading(0)'
    BY <2>3 DEF CleanLoading
  <2> QED
    BY <2>1, <2>4, <2>5 DEF Clean
<1>4. CASE LoadAnswered
  <2>1. at = "loading" /\ Quiet /\ at' \in {"lines", "idle"} /\ st' = st /\ UNCHANGED <<job, found, lost>>
    BY <1>4 DEF LoadAnswered, Goto, Exit, Hear, board, mon
  <2>2. CASE at' = "lines"
    <3>1. Gone(LoadCommand(Addr)) = 7
      <4>1. part <= Len(Parts) /\ wire = <<>> /\ Len(wire) = 0
        BY <2>1 DEF Steps, Quiet, Sent
      <4> QED
        BY <4>1, Place DEF Gone
    <3>2. Mode = "load"
      BY <2>1, <3>1 DEF Clean, CleanHyp, Uploads, CleanLoading, Ready
    <3>3. st = "load"
      BY <2>1, <3>2 DEF Mode, Quiet
    <3> QED
      BY <2>1, <2>2, <3>3 DEF Clean
  <2> QED
    BY <2>1, <2>2 DEF Clean
<1>5. CASE SendLine
  BY <1>5 DEF SendLine, Goto, Send, board, mon, history, Clean, CleanHyp, Uploads
<1>6. CASE SendDot
  <2>1. at = "lines" /\ at' = "dot" /\ st' = st /\ UNCHANGED <<job, found, lost>> /\ Len(wire') = 2
    BY <1>6, EndChars DEF SendDot, Goto, Send, board, mon, history
  <2> QED
    BY <2>1 DEF Clean, CleanHyp, Uploads
<1>7. CASE DotAnswered
  <2>1. /\ at = "dot" /\ Quiet /\ at' \in {"load", "last", "idle"} /\ rx' = <<>>
        /\ UNCHANGED <<job, mon, found, lost>>
    BY <1>7 DEF DotAnswered, Goto, Exit, AfterPart, Hear, board
  <2>2. Len(wire) # 2 /\ msg = <<>>
    BY <2>1 DEF Quiet, Sent, Shape, MonitorShape
  <2>3. CmdIdle
    BY <2>1, <2>2 DEF Clean, CleanHyp, Uploads
  <2>4. CmdIdle' /\ Nothing'
    BY <2>1, <2>2, <2>3 DEF CmdIdle, Mode, Nothing, mon
  <2> QED
    BY <2>1, <2>4 DEF Clean
<1>8. CASE SendLast
  <2>1. at' = "last" /\ line' # 1
    BY <1>8, Place DEF SendLast, Goto
  <2> QED
    BY <2>1 DEF Clean
<1>9. CASE Complete
  BY <1>9 DEF Complete, Exit, Clean
<1>10. CASE Take
  BY <1>10, CleanBoard
<1>11. CASE Emitted
  BY <1>11, CleanEmitted
<1>12. CASE Lose
  BY <1>12 DEF Lose, CleanHyp
<1>13. ASSUME NEW j \in Jobs[jumps], Start(j) PROVE Clean'
  BY <1>13, CleanStart
<1>14. ASSUME NEW n \in 0..Len(wire), Kill(n) PROVE Clean'
  BY <1>14 DEF Kill, Exit, Clean
<1>15. CASE UNCHANGED vars
  <2>1. /\ CleanHyp /\ UNCHANGED <<job, at, part, line, wire, rx, mon>>
    BY <1>15 DEF vars, pc, history, bounds, board, CleanHyp, Uploads
  <2>2. /\ CmdIdle' = CmdIdle /\ Nothing' = Nothing /\ Mode' = Mode
        /\ (FirstIs(">")' <=> FirstIs(">"))
    BY <2>1, HeardKept
  <2>3. Addr' = Addr /\ Gone(LoadCommand(Addr))' = Gone(LoadCommand(Addr))
    BY <2>1 DEF Addr, Parts, Gone
  <2>4. \A x : CleanLoading(x) => CleanLoading(x)'
    BY <2>1, <2>2, <2>3 DEF CleanLoading, Ready, Came, mon
  <2> QED
    BY <2>1, <2>2, <2>3, <2>4 DEF Clean, mon
<1> QED
  BY <1>1, <1>2, <1>3, <1>4, <1>5, <1>6, <1>7, <1>8, <1>9, <1>10, <1>11, <1>12, <1>13, <1>14, <1>15
     DEF Next, PcMoves, BoardMoves

LEMMA CleanInit == Init => Clean
BY DEF Init, Clean

-----------------------------------------------------------------------------
(* Why a process gives up. *)

LEMMA GaveUp ==
  ASSUME Shape, Steps, Waking, WakeAnswered, at' = "idle"
  PROVE  FailureHasCause'
<1>1. /\ at = "waking" /\ Quiet /\ wire = <<>> /\ ~Woken /\ tries >= Retries /\ result' = "no_monitor"
      /\ UNCHANGED <<job, found, losses, lost>> /\ Len(wire) = 0
  BY DEF WakeAnswered, Goto, Exit, AfterPart, Hear, Quiet, Sent, bounds
<1>2. ~Said("FPGA_MONITOR") /\ (job.tool \in {"c64", "probe"} => ~FirstIs("?"))
  BY <1>1, NotWoken
<1>3. /\ found \in {"off", "half_awake", "cmd", "typing", "load"} /\ tries \in 0..Retries
      /\ Retries \in Nat /\ Retries > 0 /\ losses \in Nat
  BY PerLine DEF Steps
<1>4. tries = Retries /\ tries \in Nat
  BY ONLY <1>1, <1>3
<1>5. CASE found \in {"off", "half_awake"}
  <2>1. Credit
    BY <1>1, <1>2, <1>5 DEF Waking
  <2>2. losses + Half >= Retries
    <3> DEFINE n == Len(wire)
    <3>1. n = 0 /\ Owed \in 0..1 /\ Half \in 0..1
      BY <1>1 DEF Owed, Half
    <3>2. losses + Half - tries >= 0
      BY <1>3, <1>4, <2>1, <3>1 DEF Credit
    <3> QED
      BY ONLY <1>3, <1>4, <3>1, <3>2
  <2>3. losses' + (IF found' = "half_awake" THEN 1 ELSE 0) >= Retries
    BY <1>1, <2>2 DEF Half
  <2> QED
    BY <1>1, <2>3 DEF FailureHasCause
<1>6. CASE found \in {"cmd", "load"}
  <2>1. CASE job.tool \in {"c64", "probe"}
    <3>1. losses >= tries
      BY <1>1, <1>2, <1>6, <2>1 DEF Waking
    <3>2. losses' >= Retries /\ found' # "half_awake" /\ losses + 0 = losses
      BY <1>1, <1>3, <1>4, <1>6, <3>1
    <3> QED
      BY <1>1, <3>2 DEF FailureHasCause
  <2>2. CASE job.tool \notin {"c64", "probe"}
    BY <1>1, <1>6, <2>2 DEF FailureHasCause
  <2> QED
    BY <2>1, <2>2
<1>7. CASE found = "typing"
  <2>1. CASE job.tool \in {"c64", "probe"}
    <3>1. \/ losses >= 4
          \/ tries = 1 /\ losses >= 5 - Len(wire)
      <4>1. tries > 0 /\ (tries <= 1 => tries = 1)
        BY ONLY <1>1, <1>3, <1>4
      <4> QED
        BY <1>1, <1>2, <1>7, <2>1, <4>1 DEF Waking
    <3>2. losses >= 4 /\ Len(Wake) = 4
      BY <1>1, <1>3, <3>1 DEF Wake
    <3> QED
      BY <1>1, <1>7, <3>2 DEF FailureHasCause
  <2>2. CASE job.tool \notin {"c64", "probe"}
    BY <1>1, <1>7, <2>2 DEF FailureHasCause
  <2> QED
    BY <2>1, <2>2
<1> QED
  BY ONLY <1>3, <1>5, <1>6, <1>7

LEMMA NoLoadMode ==
  ASSUME Shape, Steps, Clean, LoadAnswered, at' = "idle"
  PROVE  FailureHasCause'
<1>1. /\ at = "loading" /\ Quiet /\ result' = "no_load_mode" /\ UNCHANGED <<job, found, lost>>
      /\ \/ Refuses(job.tool, rx)
         \/ job.tool = "c64" /\ ~HasPrompt(rx, ">")
  BY DEF LoadAnswered, Goto, Exit, Hear
<1>2. rx \in Seq(Pieces) /\ Proper(rx) /\ msg = <<>>
  BY <1>1 DEF Shape, MonitorShape, Quiet
<1>3. job.tool = "c64" /\ ~(rx # <<>> /\ rx[1] = ">")
  BY <1>1, <1>2, Heard
<1>4. ~FirstIs(">")
  BY <1>2, <1>3 DEF FirstIs
<1>5. Gone(LoadCommand(Addr)) = 7
  <2>1. part <= Len(Parts) /\ wire = <<>> /\ Len(wire) = 0
    BY <1>1 DEF Steps, Quiet, Sent
  <2> QED
    BY <2>1, Place DEF Gone
<1>6. ~CleanHyp
  BY <1>1, <1>4, <1>5 DEF Clean, CleanLoading
<1>7. job.wake
  BY <1>3, JobOf DEF Steps
<1> QED
  BY <1>1, <1>3, <1>6, <1>7 DEF CleanHyp, Uploads, FailureHasCause

LEMMA CauseInit == Init => FailureHasCause
BY DEF Init, FailureHasCause

LEMMA CauseNext ==
  ASSUME Shape, Steps, Sending, Waking, Clean, FailureHasCause, [Next]_vars
  PROVE  FailureHasCause'
<1>1. CASE SendWake
  BY <1>1 DEF SendWake, Send, bounds, history, FailureHasCause
<1>2. CASE WakeAnswered
  <2>1. CASE at' = "idle"
    BY <1>2, <2>1, GaveUp
  <2>2. CASE at' # "idle"
    BY <1>2, <2>2 DEF WakeAnswered, Goto, Exit, Hear, bounds, FailureHasCause
  <2> QED
    BY <2>1, <2>2
<1>3. CASE SendLoad
  BY <1>3 DEF SendLoad, Goto, Send, bounds, history, FailureHasCause
<1>4. CASE LoadAnswered
  <2>1. CASE at' = "idle"
    BY <1>4, <2>1, NoLoadMode
  <2>2. CASE at' # "idle"
    BY <1>4, <2>2 DEF LoadAnswered, Goto, Exit, Hear, bounds, FailureHasCause
  <2> QED
    BY <2>1, <2>2
<1>5. CASE SendLine
  BY <1>5 DEF SendLine, Goto, Send, bounds, history, FailureHasCause
<1>6. CASE SendDot
  BY <1>6 DEF SendDot, Goto, Send, bounds, history, FailureHasCause
<1>7. CASE DotAnswered
  <2>1. rx \in Seq(Pieces) /\ Proper(rx)
    BY DEF Shape
  <2>2. ~Refuses(job.tool, rx)
    BY <2>1, Heard
  <2> QED
    BY <1>7, <2>2 DEF DotAnswered, Goto, Hear, bounds, FailureHasCause
<1>8. CASE SendLast
  BY <1>8 DEF SendLast, Goto, Send, bounds, history, FailureHasCause
<1>9. CASE Complete
  BY <1>9 DEF Complete, Exit, Hear, bounds, FailureHasCause
<1>10. CASE Take
  BY <1>10 DEF Take, pc, bounds, FailureHasCause
<1>11. CASE Emitted
  BY <1>11 DEF Emitted, bounds, history, FailureHasCause
<1>12. CASE Lose
  <2>1. /\ losses' = losses + 1 /\ losses \in Nat /\ Retries \in Nat /\ Len(Wake) = 4
        /\ UNCHANGED <<job, result, found>> /\ lost' # {}
    <3>1. losses \in Nat /\ Retries \in Nat
      BY PerLine DEF Steps
    <3>2. Len(Wake) = 4
      BY DEF Wake
    <3>3. losses' = losses + 1 /\ UNCHANGED <<job, result, found>>
      BY <1>12 DEF Lose, pc
    <3>4. lost' # {}
      BY <1>12 DEF Lose
    <3> QED
      BY <3>1, <3>2, <3>3, <3>4
  <2>2. /\ losses + (IF found = "half_awake" THEN 1 ELSE 0) >= Retries =>
             losses' + (IF found = "half_awake" THEN 1 ELSE 0) >= Retries
        /\ losses >= Len(Wake) => losses' >= Len(Wake)
    <3> DEFINE h == IF found = "half_awake" THEN 1 ELSE 0
    <3>1. h \in 0..1
      OBVIOUS
    <3> HIDE DEF h
    <3>2. losses + h >= Retries => losses' + h >= Retries
      BY ONLY <2>1, <3>1
    <3> QED
      BY <2>1, <3>2 DEF h
  <2> QED
    BY <2>1, <2>2 DEF FailureHasCause
<1>13. ASSUME NEW j \in Jobs[jumps], Start(j) PROVE FailureHasCause'
  BY <1>13 DEF Start, FailureHasCause
<1>14. ASSUME NEW n \in 0..Len(wire), Kill(n) PROVE FailureHasCause'
  BY <1>14 DEF Kill, Exit, FailureHasCause
<1>15. CASE UNCHANGED vars
  BY <1>15 DEF vars, pc, bounds, history, FailureHasCause
<1> QED
  BY <1>1, <1>2, <1>3, <1>4, <1>5, <1>6, <1>7, <1>8, <1>9, <1>10, <1>11, <1>12, <1>13, <1>14, <1>15
     DEF Next, PcMoves, BoardMoves

-----------------------------------------------------------------------------
(* A buffer that a process clears, and a load mode that it finds. *)

LEMMA FreshInit == Init => Fresh
BY DEF Init, Fresh

LEMMA FreshNext ==
  ASSUME Shape, Steps, Sending, Fresh, [Next]_vars
  PROVE  Fresh'
<1>0. Quiet => msg = <<>>
  BY DEF Quiet, Shape, MonitorShape
<1>1. CASE SendWake
  BY <1>1 DEF SendWake, Fresh
<1>2. CASE WakeAnswered
  BY <1>0, <1>2 DEF WakeAnswered, Goto, Exit, AfterPart, Hear, board, mon, Fresh, Nothing
<1>3. CASE SendLoad
  BY <1>3 DEF SendLoad, Goto, Send, board, mon, Fresh, Nothing
<1>4. CASE LoadAnswered
  BY <1>4 DEF LoadAnswered, Goto, Exit, Fresh
<1>5. CASE SendLine
  BY <1>5 DEF SendLine, Goto, Fresh
<1>6. CASE SendDot
  BY <1>6 DEF SendDot, Goto, Fresh
<1>7. CASE DotAnswered
  BY <1>0, <1>7 DEF DotAnswered, Goto, Exit, AfterPart, Hear, board, mon, Fresh, Nothing
<1>8. CASE SendLast
  BY <1>8 DEF SendLast, Goto, Fresh
<1>9. CASE Complete
  BY <1>9 DEF Complete, Exit, Fresh
<1>a. ASSUME wire # <<>>, wire' = Tail(wire), UNCHANGED <<at, job, part>>
      PROVE  Fresh'
  <2>1. CASE at = "loading"
    <3>1. Addr' = Addr /\ Gone(LoadCommand(Addr)) \in 0..6
          /\ Len(LoadCommand(Addr)) - Len(wire') = Gone(LoadCommand(Addr)) + 1
      BY <1>a, <2>1, LoadHead DEF Addr, Parts
    <3>2. Gone(LoadCommand(Addr))' = Gone(LoadCommand(Addr)) + 1
      BY <3>1 DEF Gone
    <3> DEFINE x == Gone(LoadCommand(Addr))
    <3>3. x' = x + 1 /\ x \in 0..6
      BY <3>1, <3>2
    <3> HIDE DEF x
    <3>4. x' # 0
      BY ONLY <3>3
    <3> QED
      BY <1>a, <2>1, <3>4 DEF Fresh, x
  <2>2. CASE at = "load"
    BY <1>a, <2>2 DEF Steps, Quiet, Sent
  <2> QED
    BY <1>a, <2>1, <2>2 DEF Fresh
<1>10. CASE Take
  BY <1>10, <1>a DEF Take, pc
<1>11. CASE Emitted
  <2>1. st = "emit" /\ UNCHANGED <<at, job, part, wire>> /\ ~Nothing
    BY <1>11, EmittedHeard
  <2>2. Gone(LoadCommand(Addr))' = Gone(LoadCommand(Addr))
    BY <2>1 DEF Gone, Addr, Parts
  <2>3. at = "load" => FALSE
    BY <2>1 DEF Fresh
  <2>4. at = "loading" => Gone(LoadCommand(Addr)) # 0
    BY <2>1 DEF Fresh
  <2> QED
    BY <2>1, <2>2, <2>3, <2>4 DEF Fresh
<1>12. CASE Lose
  BY <1>12, <1>a DEF Lose, pc
<1>13. ASSUME NEW j \in Jobs[jumps], Start(j) PROVE Fresh'
  BY <1>0, <1>13 DEF Start, board, mon, Fresh, Nothing
<1>14. ASSUME NEW n \in 0..Len(wire), Kill(n) PROVE Fresh'
  BY <1>14 DEF Kill, Exit, Fresh
<1>15. CASE UNCHANGED vars
  <2>1. UNCHANGED <<at, job, part, wire, rx, msg>>
    BY <1>15 DEF vars, pc, board, mon
  <2> QED
    BY <2>1 DEF Fresh, Nothing, Gone, Addr, Parts
<1> QED
  BY <1>1, <1>2, <1>3, <1>4, <1>5, <1>6, <1>7, <1>8, <1>9, <1>10, <1>11, <1>12, <1>13, <1>14, <1>15
     DEF Next, PcMoves, BoardMoves

\* In the load mode only a "." leaves it, and nothing makes it prompt again.
LEMMA StaysLoading ==
  ASSUME MonitorShape, Mode = "load", NEW c \in Char, c[1] # ".", Read(c), rx' = rx
  PROVE  Mode' = "load" /\ (Said(">")' <=> Said(">"))
<1>0. /\ st = "load" \/ (st = "emit" /\ ret = "load")
      /\ c # Ch(".") /\ (st = "emit" <=> msg # <<>>)
  BY WakeTexts DEF Mode, MonitorShape
<1>1. CASE st = "emit"
  <2>1. UNCHANGED mon
    BY <1>1, ReadEmit
  <2> QED
    BY <2>1 DEF Mode, mon, Said, In
<1>2. CASE st = "load"
  <2>1. Skip(c) \/ Nibble(c) \/ Reject(c)
    BY <1>0, <1>2 DEF Read, Match, Letter, Digit, OpenLoad, DumpRange, LetGo, CloseLoad, Deaf
  <2>2. CASE Skip(c)
    BY <2>2 DEF Skip, Mode, mon, Said, In
  <2>3. CASE Nibble(c)
    BY <2>3 DEF Nibble, Mode, Said, In
  <2>4. CASE Reject(c)
    <3>1. Say(Error, "load") /\ ~In(">", Error)
      BY <1>2, <2>4, FiveTexts, MessageTexts DEF Reject
    <3> QED
      BY <1>0, <1>2, <3>1, FiveTexts, SaidHeard
  <2> QED
    BY <2>1, <2>2, <2>3, <2>4
<1> QED
  BY <1>0, <1>1, <1>2

LEMMA DeceivedInit == Init => Deceived
BY DEF Init, Deceived

LEMMA DeceivedNext ==
  ASSUME Shape, Steps, Sending, Waking, Fresh, Deceived, [Next]_vars
  PROVE  Deceived'
<1> SUFFICES ASSUME (job.tool = "c64" /\ found = "load")' PROVE Deceived'
  BY DEF Deceived
<1>0. ASSUME UNCHANGED <<job, found>>
      PROVE  /\ at \in {"idle", "wake", "waking", "load", "loading"} /\ result # "complete"
             /\ at \in {"load", "loading"} => Mode = "load" /\ ~Said(">")
             /\ job.tool = "c64" /\ job.wake /\ Len(Parts) >= 1 /\ found = "load"
  <2>1. job.tool = "c64" /\ found = "load" /\ jumps \in Boards /\ job \in Jobs[jumps]
    BY <1>0 DEF Steps
  <2>2. job.wake /\ Parts # <<>> /\ Len(Parts) \in Nat /\ Parts \in Seq(PartSet)
    BY <2>1, JobOf DEF Parts
  <2>3. Len(Parts) >= 1
    BY <2>2
  <2> QED
    BY <2>1, <2>2, <2>3 DEF Deceived
<1>n. Nothing => ~Said(">")
  BY DEF Nothing, Said, In
<1>1. CASE SendWake
  BY <1>0, <1>1 DEF SendWake, Send, history, Deceived
<1>2. CASE WakeAnswered
  <2>1. /\ UNCHANGED <<job, found, mon>> /\ at = "waking" /\ Quiet /\ at' \in {"wake", AfterPart(part), "idle"}
        /\ (at' = "wake" \/ at' = "idle" \/ rx' = <<>>) /\ result' # "complete"
    BY <1>0, <1>2 DEF WakeAnswered, Goto, Exit, Hear, board
  <2>2. AfterPart(part) = "load" /\ Mode = "load" /\ msg = <<>>
    <3>1. part = 1 /\ Mode = "load" /\ msg = <<>>
      BY <1>0, <2>1 DEF Steps, Waking, Shape, MonitorShape, Quiet
    <3> QED
      BY <1>0, <2>1, <3>1 DEF AfterPart
  <2>3. at' = "load" => Mode' = "load" /\ ~Said(">")'
    BY <2>1, <2>2 DEF Mode, mon, Said, In
  <2> QED
    BY <2>1, <2>2, <2>3 DEF Deceived
<1>3. CASE SendLoad
  <2>1. UNCHANGED <<job, found, mon, rx, result>> /\ at = "load" /\ at' = "loading"
    BY <1>3 DEF SendLoad, Goto, Send, board, history
  <2>2. Mode' = "load" /\ ~Said(">")'
    BY <1>0, <2>1, HeardKept
  <2> QED
    BY <1>0, <2>1, <2>2 DEF Deceived
<1>4. CASE LoadAnswered
  <2>1. /\ UNCHANGED <<job, found>> /\ at = "loading" /\ Quiet
        /\ \/ at' = "idle" /\ result' = "no_load_mode"
           \/ job.tool = "c64" => HasPrompt(rx, ">")
    BY <1>4 DEF LoadAnswered, Goto, Exit, Hear
  <2>2. rx \in Seq(Pieces) /\ Proper(rx)
    BY DEF Shape
  <2>3. ~HasPrompt(rx, ">")
    BY <1>0, <2>1, <2>2, Heard DEF Said
  <2> QED
    BY <1>0, <2>1, <2>3 DEF Deceived
<1>5. CASE SendLine
  BY <1>0, <1>5 DEF SendLine, Goto, Send, history
<1>6. CASE SendDot
  BY <1>0, <1>6 DEF SendDot, Goto, Send, history
<1>7. CASE DotAnswered
  BY <1>0, <1>7 DEF DotAnswered, Goto, Exit, Hear
<1>8. CASE SendLast
  BY <1>0, <1>8 DEF SendLast, Goto, Send, history
<1>9. CASE Complete
  BY <1>0, <1>9 DEF Complete, Exit, Hear
<1>10. CASE Take
  <2>1. /\ wire # <<>> /\ wire' = Tail(wire) /\ Read(Head(wire))
        /\ UNCHANGED <<job, found, at, part, rx, result>> /\ wire \in Seq(Char)
    BY <1>10 DEF Take, pc, Shape
  <2>2. CASE at = "loading"
    <3>1. PICK x : x = Gone(LoadCommand(Addr))
      OBVIOUS
    <3>2. Head(wire) \in Char /\ Head(wire) # Ch(".") /\ (Head(wire)[1] # ".")
      <4>1. /\ Head(wire) \in Char /\ x \in 0..6
            /\ x = 0 => Head(wire) = Ch("L")
            /\ x = 1 => Head(wire) = Ch("sp")
            /\ x \in 2..5 => Head(wire) = Hex(DigitOf(Addr, x - 1))
            /\ x = 6 => Head(wire) = CR
        BY <2>1, <2>2, <3>1, LoadHead
      <4>2. x = 0 \/ x = 1 \/ x \in 2..5 \/ x = 6
        BY ONLY <4>1
      <4> QED
        BY <4>1, <4>2, WakeTexts DEF CR
    <3>3. Mode = "load" /\ ~Said(">") /\ MonitorShape
      BY <1>0, <2>1, <2>2 DEF Shape
    <3>4. Mode' = "load" /\ ~Said(">")'
      BY <2>1, <3>2, <3>3, StaysLoading
    <3> QED
      BY <1>0, <2>1, <2>2, <3>4 DEF Deceived
  <2>3. CASE at = "load"
    BY <2>1, <2>3 DEF Steps, Quiet, Sent
  <2> QED
    BY <1>0, <2>1, <2>2, <2>3 DEF Deceived
<1>11. CASE Emitted
  <2>1. /\ UNCHANGED <<at, job, found, result>> /\ Mode' = Mode
        /\ at # "idle" => (Said(">")' <=> Said(">"))
    BY <1>11, EmittedHeard DEF history
  <2> QED
    BY <1>0, <2>1 DEF Deceived
<1>12. CASE Lose
  <2>1. UNCHANGED <<at, job, found, rx, mon, result>>
    BY <1>12 DEF Lose, pc, board
  <2>2. Mode' = Mode /\ (Said(">")' <=> Said(">"))
    BY <2>1, HeardKept
  <2> QED
    BY <1>0, <2>1, <2>2 DEF Deceived
<1>13. ASSUME NEW j \in Jobs[jumps], Start(j) PROVE Deceived'
  <2>1. job' = j /\ result' = "none" /\ (j.wake => at' = "wake")
    BY <1>13 DEF Start
  <2>2. j.tool = "c64" => j.wake
    BY JobOf DEF Steps
  <2> QED
    BY <2>1, <2>2 DEF Deceived
<1>14. ASSUME NEW n \in 0..Len(wire), Kill(n) PROVE Deceived'
  BY <1>14 DEF Kill, Exit, Deceived
<1>15. CASE UNCHANGED vars
  <2>1. UNCHANGED <<at, job, found, rx, mon, result>>
    BY <1>15 DEF vars, pc, board, history
  <2>2. Mode' = Mode /\ (Said(">")' <=> Said(">"))
    BY <2>1, HeardKept
  <2> QED
    BY <1>0, <2>1, <2>2 DEF Deceived
<1> QED
  BY <1>1, <1>2, <1>3, <1>4, <1>5, <1>6, <1>7, <1>8, <1>9, <1>10, <1>11, <1>12, <1>13, <1>14, <1>15
     DEF Next, PcMoves, BoardMoves

-----------------------------------------------------------------------------
(* Characters where the monitor is not in load mode. *)

\* A monitor that is calm stays so, or begins a command.
LEMMA CalmRead ==
  ASSUME MonitorShape, Calm, NEW c \in Char, Read(c), rx' = rx,
         c[1] \in {"L", "sp", "cr", "hex", "."}
  PROVE  Calm' \/ (c[1] = "L" /\ Letter(c))
<1>0. /\ (st = "emit" => ret # "off") /\ c[1] \notin {"A5", "5A", "C3", "3C"}
      /\ st \in {"off", "cmd", "load", "emit"}
  BY DEF MonitorShape
<1>1. CASE st = "off"
  BY <1>0, <1>1, ReadOff DEF Calm, Mode
<1>2. CASE st = "emit"
  BY <1>2, ReadEmit DEF Calm, CmdIdle, Mode, mon
<1>3. CASE st \notin {"off", "emit"}
  <2>1. st = "cmd" /\ cmd = "none" /\ CmdIdle
    BY <1>0, <1>3 DEF Calm, CmdIdle, Mode
  <2>2. CASE c[1] \in {"sp", "cr"}
    BY <2>1, <2>2, ReadSpace DEF Space, mon, Calm, CmdIdle, Mode
  <2>3. CASE c[1] = "L"
    BY <2>1, <2>3, ReadMark
  <2>4. CASE c[1] \in {"hex", "."}
    <3>1. Reject(c)
      BY <2>1, <2>4, ReadMark, ReadHex
    <3>2. Say(Error, "cmd")
      BY <2>1, <3>1 DEF Reject
    <3> QED
      BY <3>2 DEF Say, Calm, CmdIdle, Mode
  <2> QED
    BY <2>2, <2>3, <2>4
<1> QED
  BY <1>1, <1>2, <1>3

LEMMA NotLoading ==
  ASSUME MonitorShape, NEW c \in Char, Read(c)
  PROVE  /\ Mode' = "load" => Mode = "load" \/ OpenLoad(c)
         /\ Mode # "load" /\ cmd' = "L" =>
              \/ cmd = "L" /\ nibs' = nibs
              \/ cmd = "L" /\ Digit(c)
              \/ c[1] = "L" /\ Letter(c)
<1>0. /\ st \in {"off", "cmd", "load", "emit"} /\ (st = "emit" => cmd = "none")
      /\ (st = "off" => cmd = "none") /\ ret \in {"off", "cmd", "load"}
  BY DEF MonitorShape
<1>1. CASE Match(c)
  BY <1>0, <1>1 DEF Match, Say, Mode
<1>2. CASE Letter(c)
  BY <1>2 DEF Letter, Mode
<1>3. CASE Digit(c)
  BY <1>3 DEF Digit, Mode
<1>4. CASE Skip(c)
  BY <1>4 DEF Skip, Mode, mon
<1>5. CASE OpenLoad(c)
  BY <1>5 DEF OpenLoad, Say
<1>6. CASE DumpRange(c)
  BY <1>6 DEF DumpRange, Say, Mode
<1>7. CASE LetGo(c)
  BY <1>7 DEF LetGo, Mode
<1>8. CASE Nibble(c)
  BY <1>8 DEF Nibble, Mode
<1>9. CASE CloseLoad(c)
  BY <1>9 DEF CloseLoad, Say, Mode
<1>10. CASE Reject(c)
  BY <1>10 DEF Reject, Say, Mode
<1>11. CASE Deaf
  BY <1>11 DEF Deaf, Mode, mon
<1> QED
  BY <1>1, <1>2, <1>3, <1>4, <1>5, <1>6, <1>7, <1>8, <1>9, <1>10, <1>11 DEF Read

LEMMA NoWrite ==
  ASSUME MonitorShape, Take, Mode # "load" \/ st = "emit" \/ Head(wire)[1] # "hex"
  PROVE  UNCHANGED <<memory, written>>
BY DEF Take, Write, Mode

-----------------------------------------------------------------------------
(* Where a stray byte could go. *)

LEMMA DigsMore ==
  ASSUME NEW x \in 0..6
  PROVE  /\ Digs(x) \in 0..4 /\ Digs(x + 1) \in 0..4 /\ Digs(x) <= Digs(x + 1)
         /\ x \in 2..5 => Digs(x + 1) = Digs(x) + 1
         /\ x \notin 2..5 => Digs(x + 1) = Digs(x)
         /\ Digs(x) = 4 => x = 6
         /\ x <= 2 => Digs(x) = 0
         /\ Digs(6) = 4 /\ Digs(7) = 4
BY DEF Digs

LEMMA NibblesStep ==
  ASSUME NEW x \in Nat
  PROVE  /\ NibblesOf(x) \in Nat /\ NibblesOf(0) = 0
         /\ (x + 1) % 3 \in {1, 2} => NibblesOf(x + 1) = NibblesOf(x) + 1
         /\ (x + 1) % 3 = 0 => NibblesOf(x + 1) = NibblesOf(x)
         /\ (x + 1) % 3 \in {0, 1, 2}
         /\ \A n \in Nat : x <= 3 * n => NibblesOf(x) <= 2 * n
<1> DEFINE q == x \div 3
           r == x % 3
           y == x + 1
<1>1. q \in Nat /\ r \in 0..2 /\ x = 3 * q + r
  OBVIOUS
<1>2. /\ r = 0 => y \div 3 = q /\ y % 3 = 1
      /\ r = 1 => y \div 3 = q /\ y % 3 = 2
      /\ r = 2 => y \div 3 = q + 1 /\ y % 3 = 0
  OBVIOUS
<1>3. NibblesOf(x) = 2 * q + Lesser(r, 2) /\ NibblesOf(y) = 2 * (y \div 3) + Lesser(y % 3, 2)
  BY DEF NibblesOf
<1>4. NibblesOf(0) = 0
  <2>1. 0 \div 3 = 0 /\ 0 % 3 = 0 /\ ~(2 < 0)
    OBVIOUS
  <2>2. Lesser(0, 2) = 0
    BY DEF Lesser
  <2> QED
    BY ONLY <2>1, <2>2 DEF NibblesOf
<1> DEFINE d == y \div 3
           m == y % 3
<1>5. /\ r = 0 => d = q /\ m = 1
      /\ r = 1 => d = q /\ m = 2
      /\ r = 2 => d = q + 1 /\ m = 0
      /\ NibblesOf(y) = 2 * d + Lesser(m, 2)
  BY ONLY <1>2, <1>3
<1> HIDE DEF q, r, d, m
<1>6. /\ NibblesOf(x) \in Nat /\ m \in {0, 1, 2}
      /\ m \in {1, 2} => NibblesOf(y) = NibblesOf(x) + 1
      /\ m = 0 => NibblesOf(y) = NibblesOf(x)
  <2>1. r = 0 \/ r = 1 \/ r = 2
    BY ONLY <1>1
  <2>2. CASE r = 0
    BY ONLY <1>1, <1>3, <1>5, <2>2 DEF Lesser
  <2>3. CASE r = 1
    BY ONLY <1>1, <1>3, <1>5, <2>3 DEF Lesser
  <2>4. CASE r = 2
    BY ONLY <1>1, <1>3, <1>5, <2>4 DEF Lesser
  <2> QED
    BY ONLY <2>1, <2>2, <2>3, <2>4
<1>7. \A n \in Nat : x <= 3 * n => NibblesOf(x) <= 2 * n
  <2> SUFFICES ASSUME NEW n \in Nat, x <= 3 * n PROVE NibblesOf(x) <= 2 * n
    OBVIOUS
  <2>1. r = 0 => q <= n
    BY ONLY <1>1, n \in Nat, x <= 3 * n
  <2>2. r \in 1..2 => q < n
    <3>1. r \in 1..2 => 3 * q < 3 * n
      BY ONLY <1>1, n \in Nat, x <= 3 * n
    <3> QED
      BY ONLY <1>1, <3>1, n \in Nat
  <2>3. r = 0 \/ r = 1 \/ r = 2
    BY ONLY <1>1
  <2>4. CASE r = 0
    BY ONLY <1>1, <1>3, <2>1, <2>4, n \in Nat DEF Lesser
  <2>5. CASE r # 0
    <3>1. Lesser(r, 2) <= 2 /\ Lesser(r, 2) \in Nat
      BY ONLY <2>3 DEF Lesser
    <3>2. q < n
      BY ONLY <2>2, <2>3, <2>5
    <3> QED
      BY ONLY <1>1, <1>3, <3>1, <3>2, n \in Nat
  <2> QED
    BY ONLY <2>4, <2>5
<1> QED
  BY <1>4, <1>6, <1>7 DEF m

LEMMA InImage ==
  ASSUME NEW parts, NEW i \in DOMAIN parts, NEW a \in parts[i].addr..(parts[i].addr + Len(parts[i].data) - 1)
  PROVE  a \in DOMAIN ImageOf(parts)
<1>1. parts[i] \in {parts[k] : k \in DOMAIN parts}
  OBVIOUS
<1> QED
  BY <1>1 DEF ImageOf

\* Characters of the command L, where nothing reads them as data.
LEMMA StrayLoadTake ==
  ASSUME Shape, Steps, Sending, Fresh, at = "loading", Take, NEW x, x = Gone(LoadCommand(Addr)),
         StrayLoading(x)
  PROVE  StrayLoading(x + 1)' /\ UNCHANGED written
<1> DEFINE c == Head(wire)
           a == Addr
<1>1. /\ wire # <<>> /\ wire' = Tail(wire) /\ Read(c) /\ MonitorShape
      /\ UNCHANGED <<job, at, part, line, rx, lost, losses>>
  BY DEF Take, pc, Shape, bounds
<1>2. /\ x \in 0..6 /\ c \in Char /\ a \in 0..(RAMEnd - 1)
      /\ x = 0 => c = Ch("L")
      /\ x = 1 => c = Ch("sp")
      /\ x \in 2..5 => c = Hex(DigitOf(a, x - 1)) /\ DigitOf(a, x - 1) \in 0..15
      /\ x = 6 => c = CR
  BY <1>1, LoadHead
<1>3. /\ Addr' = a /\ a' = a
      /\ x = 0 => c[1] = "L"
      /\ x = 1 => c[1] = "sp"
      /\ x \in 2..5 => c[1] = "hex" /\ c[2] = DigitOf(a, x - 1)
      /\ x = 6 => c[1] = "cr"
      /\ x = 0 \/ x = 1 \/ x \in 2..5 \/ x = 6
  <2>1. x = 0 \/ x = 1 \/ x \in 2..5 \/ x = 6
    BY ONLY <1>2
  <2>2. Addr' = a /\ a' = a
    BY <1>1 DEF Addr, Parts
  <2> HIDE DEF a, c
  <2> QED
    BY <1>2, <2>1, <2>2, WakeTexts DEF CR
<1> HIDE DEF a
<1>4. /\ nibs \in 0..8 /\ losses \in Nat /\ x + 1 > 0 /\ x + 1 # 0 /\ x # 7
  <2>1. nibs \in 0..8
    BY <1>1 DEF MonitorShape
  <2>2. losses \in 0..MaxLost
    BY DEF Steps
  <2>3. losses \in Nat
    BY <2>2, PerLine
  <2>4. x \in 0..6
    BY <1>2
  <2>5. x + 1 > 0 /\ x + 1 # 0 /\ x # 7
    BY ONLY <2>4
  <2> QED
    BY <2>1, <2>3, <2>5
<1>5. CASE Calm
  <2>1. c[1] \in {"L", "sp", "cr", "hex", "."}
    BY ONLY <1>3
  <2>2. UNCHANGED written
    BY <1>1, <1>5, NoWrite DEF Calm, CmdIdle
  <2>3. CASE Calm'
    BY <2>2, <2>3 DEF StrayLoading
  <2>4. CASE c[1] = "L" /\ Letter(c)
    <3>1. x = 0 /\ x + 1 = 1
      <4>1. x = 0
        BY ONLY <1>3, <2>4
      <4> QED
        BY <4>1
    <3>2. st' = "cmd" /\ cmd' = "L" /\ nibs' = 0 /\ addr' = 0 /\ msg' = msg
      BY <2>4 DEF Letter
    <3>3. Nothing /\ ~Said(">")'
      BY <1>1, <3>1, <3>2 DEF Fresh, Nothing, Said, In
    <3>4. Prefix(a, 0) = 0 /\ Digs(1) = 0 /\ 0 - 0 + 0 = 0
      BY DEF Prefix, Digs
    <3>5. Typed(a, 1)'
      BY <1>3, <3>2, <3>4 DEF Typed
    <3>6. losses' >= Digs(1) - nibs' + 0 /\ nibs' = Digs(1) /\ 1 < 7 /\ 1 # 7 /\ 1 > 0
      BY ONLY <1>1, <1>4, <3>2, <3>4
    <3> QED
      BY <1>3, <2>2, <3>1, <3>2, <3>3, <3>5, <3>6 DEF StrayLoading
  <2> QED
    BY <1>1, <1>2, <1>5, <2>1, <2>3, <2>4, CalmRead
<1>6. CASE ~Calm
  <2>1. /\ st = "cmd" /\ cmd = "L" /\ Typed(a, x) /\ x > 0 /\ ~Said(">")
        /\ "loading" \in lost \/ (nibs = Digs(x) /\ x < 7)
        /\ losses >= Digs(x) - nibs + 0
    BY <1>4, <1>6 DEF StrayLoading, a
  <2>a. /\ nibs <= Digs(x) /\ (nibs = Digs(x) => addr = Prefix(a, nibs))
        /\ Most = 4 /\ Mode = "cmd" /\ msg = <<>>
    BY <1>1, <2>1 DEF Typed, Most, Mode, MonitorShape
  <2>2. UNCHANGED written
    BY <1>1, <2>a, NoWrite
  <2>3. CASE x = 1
    <3>1. Digs(1) = 0 /\ Digs(2) = 0 /\ x + 1 = 2
      BY <2>3 DEF Digs
    <3>2. nibs = 0
      BY ONLY <1>4, <2>3, <2>a, <3>1
    <3>3. UNCHANGED mon
      BY <1>1, <1>2, <1>3, <2>1, <2>3, <3>2, ReadSpace DEF Space
    <3>4. ~Said(">")'
      BY <1>1, <2>1, <3>3, HeardKept
    <3>5. Typed(a, 2)'
      BY <1>3, <2>3, <2>a, <3>1, <3>3 DEF Typed, mon
    <3>6. losses' >= Digs(2) - nibs' + 0 /\ nibs' = Digs(2) /\ 2 < 7 /\ 2 # 7 /\ 2 > 0
      BY <1>1, <1>4, <3>1, <3>2, <3>3 DEF mon
    <3>7. st' = "cmd" /\ cmd' = "L"
      BY <2>1, <3>3 DEF mon
    <3> QED
      BY <1>3, <2>2, <3>1, <3>4, <3>5, <3>6, <3>7 DEF StrayLoading
  <2>4. CASE x \in 2..5
    <3>1. /\ Digs(x) \in 0..3 /\ Digs(x + 1) = Digs(x) + 1 /\ Digs(x) = x - 2
          /\ x + 1 # 7 /\ x + 1 < 7 /\ x + 1 > 0
      BY <1>2, <2>4, DigsMore, DigsStep
    <3>2. nibs \in 0..3 /\ nibs < Most
      BY ONLY <1>4, <2>a, <3>1
    <3>3. Digit(c)
      BY <1>1, <1>2, <1>3, <2>1, <2>4, <3>2, ReadHex
    <3>4. /\ nibs' = nibs + 1 /\ addr' = (16 * addr + c[2]) % RAMEnd
          /\ UNCHANGED <<st, cmd, msg>>
      BY <3>2, <3>3 DEF Digit
    <3>5. nibs' = Digs(x + 1) => addr' = Prefix(a, nibs')
      <4> SUFFICES ASSUME nibs' = Digs(x + 1) PROVE addr' = Prefix(a, nibs')
        OBVIOUS
      <4>1. nibs = Digs(x) /\ nibs + 1 = x - 1
        BY ONLY <3>1, <3>2, <3>4, nibs' = Digs(x + 1)
      <4>2. addr = Prefix(a, nibs) /\ c[2] = DigitOf(a, nibs + 1)
        BY <1>3, <2>4, <2>a, <4>1
      <4>3. (16 * Prefix(a, nibs) + DigitOf(a, nibs + 1)) % RAMEnd = Prefix(a, nibs + 1)
        BY <1>2, <3>2, PrefixStep DEF a
      <4> QED
        BY ONLY <3>4, <4>2, <4>3
    <3>6. /\ nibs' <= Digs(x + 1) /\ losses' >= Digs(x + 1) - nibs' + 0
          /\ nibs = Digs(x) => nibs' = Digs(x + 1)
      <4> DEFINE d == Digs(x)
                 e == Digs(x + 1)
      <4>1. d \in 0..3 /\ e = d + 1 /\ nibs <= d /\ losses >= d - nibs + 0 /\ losses' = losses
        BY <1>1, <2>1, <2>a, <3>1
      <4> HIDE DEF d, e
      <4>2. nibs' <= e /\ losses' >= e - nibs' + 0 /\ (nibs = d => nibs' = e)
        BY ONLY <1>4, <3>2, <3>4, <4>1
      <4> QED
        BY <4>2 DEF d, e
    <3>7. Typed(a, x + 1)'
      BY <1>3, <3>5, <3>6 DEF Typed
    <3>8. ~Said(">")'
      BY <1>1, <2>1, <3>4 DEF Said, In
    <3> QED
      BY <1>1, <1>3, <2>1, <2>2, <3>1, <3>4, <3>6, <3>7, <3>8 DEF StrayLoading
  <2>5. CASE x = 6
    <3>1. Digs(6) = 4 /\ Digs(7) = 4 /\ x + 1 = 7 /\ c = CR /\ Space(c) /\ nibs \in 0..4
      BY <1>2, <1>3, <1>4, <2>5, <2>a, DigsMore DEF Space
    <3>2. CASE nibs = 0
      <4>1. UNCHANGED mon
        BY <1>1, <1>2, <2>1, <3>1, <3>2, ReadSpace
      <4>2. ~Said(">")'
        BY <1>1, <2>1, <4>1, HeardKept
      <4>3. Typed(a, 7)'
        BY <1>3, <2>5, <2>a, <3>1, <4>1 DEF Typed, mon
      <4>4. "loading" \in lost' /\ losses' >= Digs(7) - nibs' + 0 /\ nibs' = 0 /\ 7 > 0 /\ ~(nibs' > 0)
        BY <1>1, <1>4, <2>1, <2>5, <3>1, <3>2, <4>1 DEF mon
      <4>5. st' = "cmd" /\ cmd' = "L"
        BY <2>1, <4>1 DEF mon
      <4> QED
        BY <1>3, <2>2, <3>1, <4>2, <4>3, <4>4, <4>5 DEF StrayLoading
    <3>3. CASE nibs = 4
      <4>1. OpenLoad(c)
        BY <1>1, <1>2, <2>1, <3>1, <3>3, ReadSpace
      <4>2. addr = a
        BY <2>5, <2>a, <3>1, <3>3 DEF Prefix
      <4>3. Ready(a)'
        BY <1>3, <4>1, <4>2 DEF OpenLoad, Say, Ready, Mode
      <4> QED
        BY <1>3, <2>2, <3>1, <4>3 DEF StrayLoading
    <3>4. CASE nibs \notin {0, 4}
      <4>1. Reject(c)
        BY <1>1, <1>2, <2>1, <3>1, <3>4, ReadSpace
      <4>2. Calm'
        BY <2>1, <4>1 DEF Reject, Say, Calm, CmdIdle, Mode
      <4> QED
        BY <2>2, <4>2 DEF StrayLoading
    <3> QED
      BY <3>2, <3>3, <3>4
  <2> QED
    BY <1>3, <2>1, <2>3, <2>4, <2>5
<1> QED
  BY <1>5, <1>6

LEMMA StrayLoadLose ==
  ASSUME Shape, Steps, Sending, at = "loading", Lose, NEW x, x = Gone(LoadCommand(Addr)),
         StrayLoading(x)
  PROVE  StrayLoading(x + 1)'
<1>1. /\ wire # <<>> /\ wire' = Tail(wire) /\ losses' = losses + 1 /\ lost' = lost \cup {"loading"}
      /\ UNCHANGED <<job, at, part, line, rx, mon>>
  BY DEF Lose, pc, board
<1>2. x \in 0..6
  BY <1>1, LoadHead
<1>3. /\ Addr' = Addr /\ Calm' = Calm /\ (Said(">")' <=> Said(">"))
      /\ UNCHANGED <<st, cmd, nibs, addr>>
  BY <1>1, HeardKept DEF Addr, Parts, mon
<1>4. nibs \in 0..8 /\ losses \in Nat /\ x + 1 > 0 /\ x # 7 /\ (x + 1 = 7 => x = 6)
  BY <1>2, PerLine DEF Shape, MonitorShape, Steps
<1>5. CASE Calm
  BY <1>3, <1>5 DEF StrayLoading
<1>6. CASE ~Calm
  <2>1. /\ st = "cmd" /\ cmd = "L" /\ nibs <= Digs(x) /\ (nibs = Digs(x) => addr = Prefix(Addr, nibs))
        /\ ~Said(">") /\ losses >= Digs(x) - nibs + 0
    BY <1>4, <1>6 DEF StrayLoading, Typed
  <2> DEFINE d == Digs(x)
             e == Digs(x + 1)
             h == IF x + 1 = 7 /\ nibs > 0 THEN 1 ELSE 0
  <2>2. /\ d \in 0..4 /\ e \in 0..4 /\ d <= e /\ (x \in 2..5 => e = d + 1) /\ (x \notin 2..5 => e = d)
        /\ h \in 0..1 /\ (x \in 2..5 => h = 0)
    BY <1>2, <1>4, DigsMore
  <2>a. nibs <= d /\ losses >= d - nibs + 0
    BY <2>1
  <2> HIDE DEF d, e, h
  <2>3. nibs <= e /\ (nibs = e => nibs = d) /\ losses + 1 >= e - nibs + h
    BY ONLY <1>4, <2>a, <2>2
  <2>4. nibs' <= Digs(x + 1) /\ (nibs' = Digs(x + 1) => addr' = Prefix(Addr', nibs'))
    BY <1>3, <2>1, <2>3 DEF d, e
  <2>5. losses' >= Digs(x + 1) - nibs' + (IF x + 1 = 7 /\ nibs' > 0 THEN 1 ELSE 0)
    BY <1>1, <1>3, <2>3 DEF e, h
  <2> QED
    BY <1>1, <1>3, <1>4, <2>1, <2>4, <2>5 DEF StrayLoading, Typed
<1> QED
  BY <1>5, <1>6

\* A character of data comes in, x of them have come before.
LEMMA StrayDataTake ==
  ASSUME Shape, Steps, JobsFit, StrayHyp, part <= Len(Parts), Take, NEW x \in Nat, x < 3 * Size,
         IsData(x + 1, Head(wire)), StrayLines(x), written \subseteq DOMAIN Image
  PROVE  StrayLines(x + 1)' /\ written' \subseteq DOMAIN Image
<1> DEFINE c == Head(wire)
           a == Addr
<1>1. /\ Read(c) /\ Write(c) /\ MonitorShape /\ wire # <<>>
      /\ UNCHANGED <<job, at, part, line, rx, lost, losses>>
  BY DEF Take, pc, Shape, bounds
<1>2. /\ Addr' = a /\ Size' = Size /\ a \in 0..(RAMEnd - 1) /\ Size \in Nat /\ a' = a
      /\ Parts[part].addr = a /\ Len(Parts[part].data) = Size /\ part \in DOMAIN Parts
      /\ a + Size <= RAMEnd
  <2>1. /\ Addr' = a /\ Size' = Size /\ a' = a /\ a \in 0..(RAMEnd - 1) /\ Size \in Nat
        /\ Parts[part].addr = a /\ Len(Parts[part].data) = Size /\ part \in 1..Len(Parts)
    BY <1>1, Place DEF Addr, Size, Parts
  <2>2. /\ job \in Jobs[jumps] /\ jumps \in Boards /\ job.tool \in {"c64", "hex", "plain"}
        /\ job.parts \in Seq(PartSet)
    BY JobOf DEF Steps, StrayHyp, Uploads
  <2>3. DOMAIN Parts = 1..Len(Parts)
    BY <2>2 DEF Parts
  <2>4. Parts[part].addr + Len(Parts[part].data) <= RAMEnd
    BY <2>1, <2>2, <2>3 DEF JobsFit, Parts
  <2> QED
    BY <2>1, <2>3, <2>4
<1>3. c \in Char /\ RAMEnd \in Nat /\ nibs \in 0..8 /\ losses \in Nat
      /\ hi \in {NoCall} \cup 0..15 /\ NoCall \notin 0..15
  <2>1. c \in Char
    BY <1>1, WireTail DEF Shape, Take
  <2>2. RAMEnd \in Nat
    BY EndIs
  <2>3. nibs \in 0..8 /\ hi \in {NoCall} \cup 0..15
    BY <1>1 DEF MonitorShape
  <2>4. losses \in Nat
    BY PerLine DEF Steps
  <2>5. NoCall \notin 0..15
    BY DEF NoCall
  <2> QED
    BY <2>1, <2>2, <2>3, <2>4, <2>5
<1> HIDE DEF a, c
<1>4. /\ (x + 1) % 3 \in {1, 2} => c[1] = "hex"
      /\ (x + 1) % 3 = 0 => c[1] \in {"sp", "cr"} /\ c[1] # "hex"
      /\ (x + 1) % 3 \in {0, 1, 2}
  <2>1. /\ (x + 1) % 3 = 1 => \E n : c = Hex(n)
        /\ (x + 1) % 3 = 2 => \E n : c = Hex(n)
        /\ (x + 1) % 3 = 0 => c \in {Ch("sp"), CR}
    BY DEF IsData, c
  <2>2. (x + 1) % 3 \in {0, 1, 2}
    BY NibblesStep
  <2> DEFINE m == (x + 1) % 3
  <2>3. m \in {0, 1, 2} /\ (m = 1 => \E n : c = Hex(n)) /\ (m = 2 => \E n : c = Hex(n)) /\ (m = 0 => c \in {Ch("sp"), CR})
    BY <2>1, <2>2
  <2> HIDE DEF m
  <2>4. (m \in {1, 2} => c[1] = "hex") /\ (m = 0 => c[1] \in {"sp", "cr"} /\ c[1] # "hex")
    BY <2>3, WakeTexts DEF CR
  <2> QED
    BY <2>2, <2>4 DEF m
<1>5. c[1] \in {"hex", "sp", "cr"}
  BY ONLY <1>4
<1>6. CASE Calm
  <2>1. UNCHANGED written
    BY <1>6, <1>1, NoWrite DEF Calm, CmdIdle
  <2>2. Calm'
    BY <1>1, <1>3, <1>5, <1>6, CalmRead
  <2> QED
    BY <2>1, <2>2 DEF StrayLines
<1>7. CASE HalfLoad(x)
  <2>1. /\ st = "cmd" /\ cmd = "L" /\ "loading" \in lost /\ job.tool # "c64" /\ Most = 4 /\ Mode = "cmd"
        /\ \/ x = 0 /\ nibs = 4 /\ losses >= 1
           \/ x = 0 /\ nibs = 3 /\ losses >= 2
           \/ x = 1 /\ nibs = 4 /\ losses >= 2
    BY <1>7 DEF HalfLoad, Most, Mode
  <2>2. UNCHANGED written
    BY <1>1, <2>1, NoWrite
  <2>3. c[1] = "hex"
    <3>1. x = 0 => (x + 1) % 3 = 1
      OBVIOUS
    <3>2. x = 1 => (x + 1) % 3 = 2
      OBVIOUS
    <3> QED
      BY <1>4, <2>1, <3>1, <3>2
  <2>4. CASE nibs = 4
    <3>1. Reject(c)
      BY <1>1, <1>3, <2>1, <2>3, <2>4, ReadHex
    <3>2. Calm'
      BY <2>1, <3>1 DEF Reject, Say, Calm, CmdIdle, Mode
    <3> QED
      BY <2>2, <3>2 DEF StrayLines
  <2>5. CASE nibs = 3
    <3>1. x = 0 /\ losses >= 2 /\ x + 1 = 1
      BY <2>1, <2>5
    <3>2. Digit(c)
      BY <1>1, <1>3, <2>1, <2>3, <2>5, ReadHex
    <3>3. HalfLoad(1)'
      BY <1>1, <2>1, <2>5, <3>1, <3>2 DEF Digit, HalfLoad
    <3> QED
      BY <2>2, <3>1, <3>3 DEF StrayLines
  <2> QED
    BY <2>1, <2>4, <2>5
<1>8. CASE Ahead(x)
  <2>1. st = "load" /\ (\E u \in 0..Size : /\ addr = (a + u) % RAMEnd
                                           /\ 2 * u + (IF hi = NoCall THEN 0 ELSE 1) <= NibblesOf(x))
    BY <1>8 DEF Ahead, a
  <2>2. PICK u \in 0..Size : /\ addr = (a + u) % RAMEnd
                             /\ 2 * u + (IF hi = NoCall THEN 0 ELSE 1) <= NibblesOf(x)
    BY <2>1
  <2> DEFINE N0 == NibblesOf(x)
             N1 == NibblesOf(x + 1)
  <2>3. /\ N0 \in Nat /\ N1 \in Nat /\ ((x + 1) % 3 \in {1, 2} => N1 = N0 + 1)
        /\ ((x + 1) % 3 = 0 => N1 = N0) /\ N1 <= 2 * Size
    <3>1. x + 1 \in Nat /\ x + 1 <= 3 * Size
      BY <1>2
    <3> QED
      BY <1>2, <3>1, NibblesStep
  <2> HIDE DEF N0, N1
  <2>4. CASE c[1] = "hex"
    <3>1. Nibble(c)
      BY <1>1, <1>3, <2>1, <2>4, ReadHex
    <3>2. N1 = N0 + 1
      BY <1>4, <2>3, <2>4
    <3>3. CASE hi = NoCall
      <4>1. hi' = c[2] /\ addr' = addr /\ st' = "load" /\ UNCHANGED written
        BY <1>1, <2>1, <3>1, <3>3 DEF Nibble, Write
      <4>2. hi' # NoCall
        BY <1>3, <2>4, <4>1, Chars
      <4>3. 2 * u + 1 <= N1
        BY <2>2, <2>3, <3>2, <3>3 DEF N0
      <4>4. Ahead(x + 1)'
        BY <1>2, <2>2, <4>1, <4>2, <4>3 DEF Ahead, N1
      <4> QED
        BY <4>1, <4>4 DEF StrayLines
    <3>4. CASE hi # NoCall
      <4>1. hi' = NoCall /\ addr' = (addr + 1) % RAMEnd /\ st' = "load" /\ written' = written \cup {addr}
        BY <1>1, <2>1, <2>4, <3>1, <3>4 DEF Nibble, Write
      <4>2. 2 * u + 1 <= N0
        BY <2>2, <3>4 DEF N0
      <4>3. u + 1 \in 0..Size /\ 2 * (u + 1) + 0 <= N1 /\ u < Size
        BY ONLY <1>2, <2>3, <3>2, <4>2, u \in 0..Size
      <4>4. (a + u) % RAMEnd = a + u /\ a + u < RAMEnd
        <5>1. a + u \in Nat /\ a + u < RAMEnd
          BY ONLY <1>2, <1>3, <4>3, u \in 0..Size
        <5> QED
          BY ONLY <1>3, <5>1
      <4>5. addr' = (a + (u + 1)) % RAMEnd
        <5>1. addr = a + u /\ a + u + 1 = a + (u + 1)
          BY <1>2, <2>2, <4>4
        <5> QED
          BY <4>1, <5>1
      <4>6. addr \in Parts[part].addr..(Parts[part].addr + Len(Parts[part].data) - 1)
        BY <1>2, <2>2, <4>3, <4>4
      <4>7. addr \in DOMAIN Image
        BY <1>2, <4>6, InImage DEF Image
      <4>8. Ahead(x + 1)'
        BY <1>2, <4>1, <4>3, <4>5 DEF Ahead, N1
      <4> QED
        BY <4>1, <4>7, <4>8 DEF StrayLines
    <3> QED
      BY <3>3, <3>4
  <2>5. CASE c[1] # "hex"
    <3>1. c[1] \in {"sp", "cr"} /\ N1 >= N0
      BY <1>4, <1>5, <2>3, <2>5
    <3>2. UNCHANGED mon
      BY <1>1, <1>3, <2>1, <3>1, ReadSpace DEF Space
    <3>3. UNCHANGED written
      BY <1>1, <2>5 DEF Write
    <3>4. 2 * u + (IF hi = NoCall THEN 0 ELSE 1) <= N1
      <4> DEFINE h == IF hi = NoCall THEN 0 ELSE 1
      <4>1. h \in 0..1 /\ 2 * u + h <= N0
        BY <2>2 DEF N0
      <4> HIDE DEF h
      <4>2. 2 * u + h <= N1
        BY ONLY <2>3, <3>1, <4>1, u \in 0..Size, <1>2
      <4> QED
        BY <4>2 DEF h
    <3>5. Ahead(x + 1)'
      BY <1>2, <2>1, <2>2, <3>2, <3>4 DEF Ahead, N1, mon
    <3> QED
      BY <3>3, <3>5 DEF StrayLines
  <2> QED
    BY <2>4, <2>5
<1> QED
  BY <1>6, <1>7, <1>8 DEF StrayLines

LEMMA StrayDataLose ==
  ASSUME Shape, Steps, StrayHyp', part <= Len(Parts), Lose, NEW x \in Nat, x < 3 * Size,
         StrayLines(x)
  PROVE  StrayLines(x + 1)'
<1>1. /\ losses' = losses + 1 /\ lost \subseteq lost' /\ rx' = rx
      /\ UNCHANGED <<job, part, st, cmd, nibs, addr, hi, msg, ret, mon>>
  BY DEF Lose, pc, board, mon
<1>2. Addr' = Addr /\ Size' = Size /\ Size \in Nat /\ Calm' = Calm
  BY <1>1, Place, HeardKept DEF Addr, Size, Parts
<1>3. CASE Calm
  BY <1>2, <1>3 DEF StrayLines
<1>4. CASE HalfLoad(x)
  <2>1. st' = "cmd" /\ cmd' = "L" /\ "loading" \in lost' /\ job'.tool # "c64"
    BY <1>1, <1>4 DEF HalfLoad
  <2>2. losses \in Nat /\ losses + 1 < 3
    BY <1>1, <2>1, PerLine DEF Steps, StrayHyp
  <2>3. x = 0 /\ nibs = 4 /\ losses >= 1
    BY <1>4, <2>2 DEF HalfLoad
  <2>4. x + 1 = 1 /\ nibs' = 4 /\ losses' >= 2
    BY <1>1, <2>2, <2>3
  <2>5. HalfLoad(1)'
    BY <2>1, <2>4 DEF HalfLoad
  <2> QED
    BY <2>4, <2>5 DEF StrayLines
<1>5. CASE Ahead(x)
  <2>1. PICK u \in 0..Size : /\ addr = (Addr + u) % RAMEnd
                             /\ 2 * u + (IF hi = NoCall THEN 0 ELSE 1) <= NibblesOf(x)
    BY <1>5 DEF Ahead
  <2> DEFINE h == IF hi = NoCall THEN 0 ELSE 1
             N0 == NibblesOf(x)
             N1 == NibblesOf(x + 1)
  <2>2. /\ N0 \in Nat /\ N1 \in Nat /\ (x + 1) % 3 \in {0, 1, 2} /\ ((x + 1) % 3 \in {1, 2} => N1 = N0 + 1)
        /\ ((x + 1) % 3 = 0 => N1 = N0) /\ h \in 0..1 /\ 2 * u + h <= N0
    <3>1. h \in 0..1
      OBVIOUS
    <3>2. 2 * u + h <= N0
      BY <2>1
    <3>3. x + 1 \in Nat
      OBVIOUS
    <3>4. N1 \in Nat
      BY <3>3, NibblesStep
    <3> HIDE DEF h
    <3>5. /\ N0 \in Nat /\ (x + 1) % 3 \in {0, 1, 2} /\ ((x + 1) % 3 \in {1, 2} => N1 = N0 + 1)
          /\ ((x + 1) % 3 = 0 => N1 = N0)
      BY NibblesStep
    <3> QED
      BY <3>1, <3>2, <3>4, <3>5
  <2> HIDE DEF h, N0, N1
  <2>3. N1 >= N0
    BY <2>2
  <2>4. 2 * u + h <= N1
    BY ONLY <1>2, <2>2, <2>3, u \in 0..Size
  <2>5. u \in 0..Size' /\ addr' = (Addr' + u) % RAMEnd /\ 2 * u + (IF hi' = NoCall THEN 0 ELSE 1) <= NibblesOf(x + 1)
    BY <1>1, <1>2, <2>1, <2>4 DEF h, N1
  <2>6. st' = "load"
    BY <1>1, <1>5 DEF Ahead
  <2> QED
    BY <2>5, <2>6 DEF StrayLines, Ahead
<1> QED
  BY <1>3, <1>4, <1>5 DEF StrayLines

-----------------------------------------------------------------------------
(* The lines that come last. *)

LEMMA RunChars ==
  ASSUME NEW a \in 0..(RAMEnd - 1)
  PROVE  /\ RunCommand(a) \in Seq(Char) /\ Len(RunCommand(a)) = 7
         /\ RunCommand(a)[1] = Ch("G") /\ RunCommand(a)[2] = Ch("sp")
         /\ RunCommand(a)[3] = Hex(a \div 4096) /\ RunCommand(a)[4] = Hex((a \div 256) % 16)
         /\ RunCommand(a)[5] = Hex((a \div 16) % 16) /\ RunCommand(a)[6] = Hex(a % 16)
         /\ RunCommand(a)[7] = CR
<1>1. Ch("G") \in Char /\ Ch("sp") \in Char /\ CR \in Char
  BY CharOf DEF Marks
<1>2. <<Ch("G"), Ch("sp")>> \in Seq(Char) /\ <<CR>> \in Seq(Char)
  BY <1>1
<1>3. Nibbles(a) \in Seq(Char) /\ Len(Nibbles(a)) = 4
  BY NibblesChars
<1>4. <<Ch("G"), Ch("sp")>> \o Nibbles(a) \in Seq(Char)
  BY ONLY <1>2, <1>3
<1>5. /\ Nibbles(a)[1] = Hex(a \div 4096) /\ Nibbles(a)[2] = Hex((a \div 256) % 16)
      /\ Nibbles(a)[3] = Hex((a \div 16) % 16) /\ Nibbles(a)[4] = Hex(a % 16)
  BY DEF Nibbles
<1>6. RunCommand(a) \in Seq(Char)
  BY ONLY <1>2, <1>4 DEF RunCommand
<1> DEFINE front == <<Ch("G"), Ch("sp")>> \o Nibbles(a)
<1>7. /\ Len(front) = 6 /\ front[1] = Ch("G") /\ front[2] = Ch("sp")
      /\ \A i \in 1..4 : front[2 + i] = Nibbles(a)[i]
  <2> DEFINE two == <<Ch("G"), Ch("sp")>>
  <2>1. two \in Seq(Char) /\ Len(two) = 2 /\ two[1] = Ch("G") /\ two[2] = Ch("sp")
    BY ONLY <1>2
  <2>2. front = two \o Nibbles(a)
    OBVIOUS
  <2> HIDE DEF two, front
  <2>3. /\ Len(front) = Len(two) + Len(Nibbles(a))
        /\ \A i \in 1..Len(two) : front[i] = two[i]
        /\ \A i \in 1..Len(Nibbles(a)) : front[Len(two) + i] = Nibbles(a)[i]
    <3>1. two \in Seq(Char) /\ Nibbles(a) \in Seq(Char)
      BY <2>1, <1>3
    <3>2. Len(two \o Nibbles(a)) = Len(two) + Len(Nibbles(a))
      BY ONLY <3>1, Joined
    <3>3. \A i \in 1..Len(two) : (two \o Nibbles(a))[i] = two[i]
      BY ONLY <3>1, Joined
    <3>4. \A i \in 1..Len(Nibbles(a)) : (two \o Nibbles(a))[Len(two) + i] = Nibbles(a)[i]
      BY ONLY <3>1, Joined
    <3> QED
      BY ONLY <3>2, <3>3, <3>4, <2>2
  <2> QED
    BY ONLY <2>1, <2>3, <1>3
<1> HIDE DEF front
<1>8. Len(front \o <<CR>>) = 7 /\ (front \o <<CR>>)[7] = CR
  BY ONLY <1>7, <1>2, <1>4 DEF front
<1>9. \A i \in 1..6 : (front \o <<CR>>)[i] = front[i]
  BY ONLY <1>7, <1>2, <1>4 DEF front
<1>10. /\ front[3] = Nibbles(a)[1] /\ front[4] = Nibbles(a)[2]
       /\ front[5] = Nibbles(a)[3] /\ front[6] = Nibbles(a)[4]
  BY ONLY <1>7
<1>11. RunCommand(a) = front \o <<CR>>
  BY DEF front, RunCommand
<1> QED
  BY ONLY <1>5, <1>6, <1>7, <1>8, <1>9, <1>10, <1>11

LEMMA LastLines ==
  ASSUME Steps, JobsFit, Uploads, at = "last"
  PROVE  /\ job.run \in 0..(RAMEnd - 1) /\ LastFits(job)
         /\ \A k \in 1..Len(job.last) : job.last[k] \in {Release, RunCommand(job.run), <<CR>>}
<1>1. /\ jumps \in Boards /\ job \in Jobs[jumps] /\ job.tool \in {"c64", "hex", "plain"}
  BY DEF Steps, Uploads
<1>2. LastFits(job) /\ job.run \in 0..(RAMEnd - 1)
  BY <1>1, JobOf DEF JobsFit
<1> DEFINE r == RunCommand(job.run)
           g == Release
           c == <<CR>>
<1>3. job.last \in {<<>>, <<g>>, <<r>>, <<r, c>>}
  BY <1>2 DEF LastFits
<1> HIDE DEF r, g, c
<1>4. \A k \in 1..Len(job.last) : job.last[k] \in {g, r, c}
  BY <1>3
<1> QED
  BY <1>2, <1>4 DEF r, g, c

LEMMA LastNoL ==
  ASSUME Steps, JobsFit, Uploads, at = "last", NEW k \in 1..Len(job.last), NEW i \in DOMAIN job.last[k]
  PROVE  job.last[k][i][1] # "L"
<1>1. job.last[k] \in {Release, RunCommand(job.run), <<CR>>} /\ job.run \in 0..(RAMEnd - 1)
  BY LastLines
<1>2. CASE job.last[k] = Release
  BY <1>2 DEF Release, Ch, CR
<1>3. CASE job.last[k] = <<CR>>
  BY <1>3 DEF Ch, CR
<1>4. CASE job.last[k] = RunCommand(job.run)
  <2> DEFINE s == RunCommand(job.run)
  <2>1. /\ s \in Seq(Char) /\ Len(s) = 7
        /\ s[1][1] = "G" /\ s[2][1] = "sp" /\ s[3][1] = "hex" /\ s[4][1] = "hex"
        /\ s[5][1] = "hex" /\ s[6][1] = "hex" /\ s[7][1] = "cr"
    <3>1. /\ s \in Seq(Char) /\ Len(s) = 7 /\ s[1] = Ch("G") /\ s[2] = Ch("sp") /\ s[7] = CR
          /\ \E a, b, d, e : s[3] = Hex(a) /\ s[4] = Hex(b) /\ s[5] = Hex(d) /\ s[6] = Hex(e)
      BY <1>1, RunChars
    <3> HIDE DEF s
    <3> QED
      BY <3>1, WakeTexts DEF CR
  <2> HIDE DEF s
  <2>2. i \in 1..7
    BY <1>4, <2>1 DEF s
  <2>3. i = 1 \/ i = 2 \/ i = 3 \/ i = 4 \/ i = 5 \/ i = 6 \/ i = 7
    BY ONLY <2>2
  <2>4. s[i][1] # "L"
    BY <2>1, <2>3
  <2> QED
    BY <1>4, <2>4 DEF s
<1> QED
  BY <1>1, <1>2, <1>3, <1>4

\* Data: what is left of it, when one more character has gone.
LEMMA DataShift ==
  ASSUME wire \in Seq(Char), wire # <<>>, wire' = Tail(wire), UNCHANGED <<job, part>>,
         Size \in Nat, NEW x \in Nat, DataLeft(x)
  PROVE  DataLeft(x + 1)' /\ x < 3 * Size /\ IsData(x + 1, Head(wire))
<1>1. /\ Head(wire) = wire[1] /\ Len(wire) \in Nat /\ Len(wire) > 0 /\ Len(wire') = Len(wire) - 1
      /\ \A i \in 1..Len(wire') : wire'[i] = wire[i + 1]
  BY WireTail
<1>2. Size' = Size
  BY DEF Size, Parts
<1>4. \A i, c : IsData(i, c)' <=> IsData(i, c)
  BY DEF IsData, Parts
<1> DEFINE P(i, c) == IsData(i, c)
<1>5. x + Len(wire) <= 3 * Size /\ \A i \in 1..Len(wire) : P(x + i, wire[i])
  BY DEF DataLeft
<1> HIDE DEF P
<1>6. P(x + 1, Head(wire)) /\ x < 3 * Size
  BY ONLY <1>1, <1>5, Size \in Nat, x \in Nat
<1>7. \A i \in 1..Len(wire') : P(x + 1 + i, wire'[i])
  <2> SUFFICES ASSUME NEW i \in 1..Len(wire') PROVE P(x + 1 + i, wire'[i])
    OBVIOUS
  <2>1. i + 1 \in 1..Len(wire) /\ x + 1 + i = x + (i + 1)
    BY ONLY <1>1, x \in Nat, i \in 1..Len(wire')
  <2> QED
    BY <1>1, <1>5, <2>1
<1>8. x + 1 \in Nat /\ x + 1 + Len(wire') <= 3 * Size
  BY ONLY <1>1, <1>5, Size \in Nat, x \in Nat
<1>9. DataLeft(x + 1)'
  BY <1>2, <1>4, <1>7, <1>8 DEF DataLeft, P
<1> QED
  BY <1>6, <1>9 DEF P

LEMMA CalmNothing ==
  ASSUME MonitorShape, Calm
  PROVE  cmd = "none" /\ Mode # "load" /\ st # "load"
BY DEF MonitorShape, Calm, CmdIdle, Mode

-----------------------------------------------------------------------------
(* What a killed process has left on the wire. *)

LEMMA NoneLeft ==
  ASSUME wire = <<>>
  PROVE  NoHex /\ NoL
BY DEF NoHex, NoL

LEMMA StrayIdleTake ==
  ASSUME Shape, Steps, JobsFit, StrayHyp, at = "idle", Take, StrayIdle, written \subseteq DOMAIN Image
  PROVE  StrayIdle' /\ written' \subseteq DOMAIN Image
<1> DEFINE c == Head(wire)
<1>1. /\ wire \in Seq(Char) /\ wire # <<>> /\ wire' = Tail(wire) /\ Read(c) /\ MonitorShape
      /\ UNCHANGED <<job, at, part, line, rx, lost, losses>>
  BY DEF Take, pc, Shape, bounds
<1>2. /\ c \in Char /\ c = wire[1] /\ Len(wire) \in Nat /\ Len(wire) > 0 /\ Len(wire') = Len(wire) - 1
      /\ wire' \in Seq(Char)
      /\ \A i \in 1..Len(wire') : wire'[i] = wire[i + 1]
  BY <1>1, WireTail
<1>3. \A i \in DOMAIN wire' : i + 1 \in DOMAIN wire /\ wire'[i] = wire[i + 1]
  BY <1>1, <1>2
<1>4. 1 \in DOMAIN wire
  BY <1>1, <1>2
<1>5. Image' = Image
  BY <1>1 DEF Image, Parts
<1> HIDE DEF c
<1>6. CASE NoHex
  <2>1. c[1] # "hex" /\ NoHex'
    BY <1>2, <1>3, <1>4, <1>6 DEF NoHex
  <2>2. UNCHANGED written
    BY <1>1, <2>1, NoWrite DEF c
  <2> QED
    BY <1>5, <2>1, <2>2 DEF StrayIdle
<1>7. CASE Mode # "load" /\ cmd # "L" /\ NoL
  <2>1. c[1] # "L" /\ NoL'
    BY <1>2, <1>3, <1>4, <1>7 DEF NoL
  <2>2. UNCHANGED written
    BY <1>1, <1>7, NoWrite
  <2>3. Mode' # "load" /\ cmd' # "L"
    BY <1>1, <1>2, <1>7, <2>1, NotLoading DEF OpenLoad
  <2> QED
    BY <1>5, <2>1, <2>2, <2>3 DEF StrayIdle
<1>8. CASE part <= Len(Parts) /\ \E x \in 0..7 : StrayCommand(x)
  <2>1. PICK x \in 0..7 : StrayCommand(x)
    BY <1>8
  <2> DEFINE a == Addr
  <2>2. a \in 0..(RAMEnd - 1) /\ Addr' = a /\ a' = a /\ part' <= Len(Parts')
    BY <1>1, <1>8, Place DEF Addr, Parts
  <2> HIDE DEF a
  <2>3. /\ x + Len(wire) <= 7 /\ (\A i \in 1..Len(wire) : wire[i] = LoadCommand(a)[x + i])
        /\ (cmd = "L" => nibs <= Digs(x)) /\ Mode # "load"
    BY <1>1, <2>1 DEF StrayCommand, a
  <2>4. x \in 0..6 /\ c = LoadCommand(a)[x + 1] /\ (x = 6 => Len(wire') = 0) /\ x + 1 \in 0..7
        /\ x + 1 + Len(wire') <= 7
    <3>1. x \in 0..6 /\ 1 \in 1..Len(wire) /\ (x = 6 => Len(wire') = 0) /\ x + 1 \in 0..7
          /\ x + 1 + Len(wire') <= 7
      BY ONLY <1>2, <2>3, x \in 0..7
    <3> QED
      BY <1>2, <2>3, <3>1
  <2>5. \A i \in 1..Len(wire') : wire'[i] = LoadCommand(a)[(x + 1) + i]
    <3> SUFFICES ASSUME NEW i \in 1..Len(wire') PROVE wire'[i] = LoadCommand(a)[(x + 1) + i]
      OBVIOUS
    <3>1. i + 1 \in 1..Len(wire) /\ x + (i + 1) = (x + 1) + i
      BY ONLY <1>2, x \in 0..7, i \in 1..Len(wire')
    <3> QED
      BY <1>2, <2>3, <3>1
  <2>6. UNCHANGED written
    BY <1>1, <2>3, NoWrite
  <2>7. /\ nibs \in 0..8 /\ Digs(x) \in 0..4 /\ Digs(x + 1) \in 0..4 /\ Digs(x) <= Digs(x + 1)
        /\ (x \in 2..5 => Digs(x + 1) = Digs(x) + 1) /\ (Digs(x) = 4 => x = 6)
    BY <1>1, <2>4, DigsMore DEF MonitorShape
  <2>8. x \in 2..5 \/ c[1] # "hex"
    <3>1. x \in {0, 1, 6} => c \in {Ch("L"), Ch("sp"), CR}
      <4>1. /\ x = 0 => c = LoadCommand(a)[1]
            /\ x = 1 => c = LoadCommand(a)[2]
            /\ x = 6 => c = LoadCommand(a)[7]
        BY <2>4
      <4>2. LoadCommand(a)[1] = Ch("L") /\ LoadCommand(a)[2] = Ch("sp") /\ LoadCommand(a)[7] = CR
        BY <2>2, CommandChars
      <4> QED
        BY <4>1, <4>2
    <3>2. x \in 2..5 \/ x \in {0, 1, 6}
      BY ONLY <2>4
    <3> QED
      BY <3>1, <3>2, WakeTexts DEF CR
  <2>9. cmd' = "L" => nibs' <= Digs(x + 1)
    <3> SUFFICES ASSUME cmd' = "L" PROVE nibs' <= Digs(x + 1)
      OBVIOUS
    <3>1. \/ cmd = "L" /\ nibs' = nibs
          \/ cmd = "L" /\ Digit(c)
          \/ c[1] = "L" /\ Letter(c)
      BY <1>1, <1>2, <2>3, NotLoading
    <3>2. CASE cmd = "L" /\ nibs' = nibs
      <4>1. nibs <= Digs(x)
        BY <2>3, <3>2
      <4> DEFINE d == Digs(x)
                 e == Digs(x + 1)
      <4>2. d \in 0..4 /\ e \in 0..4 /\ d <= e /\ nibs <= d
        BY <2>7, <4>1
      <4> HIDE DEF d, e
      <4>3. nibs' <= e
        BY ONLY <2>7, <3>2, <4>2
      <4> QED
        BY <4>3 DEF e
    <3>3. CASE cmd = "L" /\ Digit(c)
      <4>1. nibs <= Digs(x) /\ nibs' = nibs + 1 /\ x \in 2..5
        BY <2>3, <2>8, <3>3 DEF Digit
      <4> DEFINE d == Digs(x)
                 e == Digs(x + 1)
      <4>2. d \in 0..4 /\ e = d + 1 /\ nibs <= d
        BY <2>7, <4>1
      <4> HIDE DEF d, e
      <4>3. nibs' <= e
        BY ONLY <2>7, <4>1, <4>2
      <4> QED
        BY <4>3 DEF e
    <3>4. CASE c[1] = "L" /\ Letter(c)
      BY <2>7, <3>4 DEF Letter
    <3> QED
      BY <3>1, <3>2, <3>3, <3>4
  <2>10. Mode' = "load" => wire' = <<>>
    <3> SUFFICES ASSUME Mode' = "load" PROVE wire' = <<>>
      OBVIOUS
    <3>1. cmd = "L" /\ nibs = 4
      BY <1>1, <1>2, <2>3, NotLoading DEF OpenLoad
    <3>2. Digs(x) = 4
      BY <2>3, <2>7, <3>1
    <3>3. Len(wire') = 0
      BY <2>4, <2>7, <3>2
    <3> QED
      BY <1>2, <3>3
  <2>11. StrayCommand(x + 1)'
    BY <2>2, <2>4, <2>5, <2>9, <2>10 DEF StrayCommand
  <2> QED
    BY <1>5, <2>2, <2>4, <2>6, <2>11 DEF StrayIdle
<1>9. CASE part <= Len(Parts) /\ \E x \in Nat : DataLeft(x) /\ StrayLines(x)
  <2>1. PICK x \in Nat : DataLeft(x) /\ StrayLines(x)
    BY <1>9
  <2>2. Size \in Nat /\ part' <= Len(Parts')
    BY <1>1, <1>9, Place DEF Parts
  <2>3. DataLeft(x + 1)' /\ x < 3 * Size /\ IsData(x + 1, Head(wire))
    BY <1>1, <2>1, <2>2, DataShift
  <2>4. StrayLines(x + 1)' /\ written' \subseteq DOMAIN Image
    BY <1>9, <2>1, <2>3, StrayDataTake
  <2>5. x + 1 \in Nat
    OBVIOUS
  <2> QED
    BY <1>5, <2>2, <2>3, <2>4, <2>5 DEF StrayIdle
<1> QED
  BY <1>6, <1>7, <1>8, <1>9 DEF StrayIdle

LEMMA StrayIdleLose ==
  ASSUME Shape, Steps, StrayHyp', at = "idle", Lose, StrayIdle
  PROVE  StrayIdle'
<1>1. /\ wire \in Seq(Char) /\ wire # <<>> /\ wire' = Tail(wire) /\ MonitorShape
      /\ UNCHANGED <<job, at, part, line, rx, mon, st, cmd, nibs, msg, ret>>
  BY DEF Lose, pc, Shape, board, mon
<1>2. /\ Len(wire) \in Nat /\ Len(wire) > 0 /\ Len(wire') = Len(wire) - 1
      /\ wire' \in Seq(Char)
      /\ \A i \in 1..Len(wire') : wire'[i] = wire[i + 1]
  BY <1>1, WireTail
<1>3. \A i \in DOMAIN wire' : i + 1 \in DOMAIN wire /\ wire'[i] = wire[i + 1]
  BY <1>1, <1>2
<1>4. Mode' = Mode /\ UNCHANGED Parts
  BY <1>1 DEF Mode, Parts
<1>6. CASE NoHex
  BY <1>3, <1>6 DEF NoHex, StrayIdle
<1>7. CASE Mode # "load" /\ cmd # "L" /\ NoL
  BY <1>1, <1>3, <1>4, <1>7 DEF NoL, StrayIdle
<1>8. CASE part <= Len(Parts) /\ \E x \in 0..7 : StrayCommand(x)
  <2>1. PICK x \in 0..7 : StrayCommand(x)
    BY <1>8
  <2> DEFINE a == Addr
  <2>2. Addr' = a /\ a' = a /\ part' <= Len(Parts')
    BY <1>1, <1>4, <1>8 DEF Addr, Parts
  <2> HIDE DEF a
  <2>3. /\ x + Len(wire) <= 7 /\ (\A i \in 1..Len(wire) : wire[i] = LoadCommand(a)[x + i])
        /\ (cmd = "L" => nibs <= Digs(x)) /\ Mode # "load"
    BY <1>1, <2>1 DEF StrayCommand, a
  <2>4. x \in 0..6 /\ x + 1 \in 0..7 /\ x + 1 + Len(wire') <= 7
    BY ONLY <1>2, <2>3, x \in 0..7
  <2>5. \A i \in 1..Len(wire') : wire'[i] = LoadCommand(a)[(x + 1) + i]
    <3> SUFFICES ASSUME NEW i \in 1..Len(wire') PROVE wire'[i] = LoadCommand(a)[(x + 1) + i]
      OBVIOUS
    <3>1. i + 1 \in 1..Len(wire) /\ x + (i + 1) = (x + 1) + i
      BY ONLY <1>2, x \in 0..7, i \in 1..Len(wire')
    <3> QED
      BY <1>2, <2>3, <3>1
  <2>6. cmd' = "L" => nibs' <= Digs(x + 1)
    <3> DEFINE d == Digs(x)
               e == Digs(x + 1)
    <3>1. d \in 0..4 /\ e \in 0..4 /\ d <= e /\ nibs \in 0..8
      BY <1>1, <2>4, DigsMore DEF MonitorShape
    <3>2. cmd' = "L" => nibs <= d /\ nibs' = nibs
      BY <1>1, <2>3
    <3> HIDE DEF d, e
    <3>3. cmd' = "L" => nibs' <= e
      BY ONLY <3>1, <3>2
    <3> QED
      BY <3>3 DEF e
  <2>7. StrayCommand(x + 1)'
    BY <1>4, <2>2, <2>3, <2>4, <2>5, <2>6 DEF StrayCommand
  <2> QED
    BY <2>2, <2>4, <2>7 DEF StrayIdle
<1>9. CASE part <= Len(Parts) /\ \E x \in Nat : DataLeft(x) /\ StrayLines(x)
  <2>1. PICK x \in Nat : DataLeft(x) /\ StrayLines(x)
    BY <1>9
  <2>2. Size \in Nat /\ part' <= Len(Parts')
    BY <1>1, <1>9, Place DEF Parts
  <2>3. DataLeft(x + 1)' /\ x < 3 * Size
    BY <1>1, <2>1, <2>2, DataShift
  <2>4. StrayLines(x + 1)'
    BY <1>9, <2>1, <2>3, StrayDataLose
  <2>5. x + 1 \in Nat
    OBVIOUS
  <2> QED
    BY <2>2, <2>3, <2>4, <2>5 DEF StrayIdle
<1> QED
  BY <1>6, <1>7, <1>8, <1>9 DEF StrayIdle

LEMMA StrayIdleEmitted ==
  ASSUME Shape, Steps, at = "idle", Emitted, StrayIdle
  PROVE  StrayIdle'
<1>1. /\ st = "emit" /\ UNCHANGED <<job, part, wire, cmd, nibs, addr, hi>> /\ Mode' = Mode /\ Calm' = Calm
  BY EmittedHeard
<1>2. /\ Addr' = Addr /\ Size' = Size /\ UNCHANGED Parts
      /\ \A i, c : IsData(i, c)' <=> IsData(i, c)
  BY <1>1 DEF Addr, Size, Parts, IsData
<1>3. NoHex' = NoHex /\ NoL' = NoL
  BY <1>1 DEF NoHex, NoL
<1>4. \A x \in 0..7 : StrayCommand(x) => StrayCommand(x)'
  BY <1>1, <1>2 DEF StrayCommand
<1>5. \A x \in Nat : DataLeft(x) => DataLeft(x)'
  BY <1>1, <1>2 DEF DataLeft
<1>6. \A x \in Nat : StrayLines(x) => StrayLines(x)'
  BY <1>1 DEF StrayLines, HalfLoad, Ahead
<1>7. part' <= Len(Parts') <=> part <= Len(Parts)
  BY <1>1, <1>2
<1> QED
  BY <1>1, <1>3, <1>4, <1>5, <1>6, <1>7 DEF StrayIdle

\* What is left of a text has only its characters.
LEMMA RestOf ==
  ASSUME wire \in Seq(Char), NEW text \in Seq(Char), Left(text), NEW i \in DOMAIN wire
  PROVE  \E k \in 1..Len(text) : wire[i] = text[k]
<1>1. Len(wire) \in Nat /\ Len(text) \in Nat /\ i \in 1..Len(wire) /\ Len(wire) <= Len(text)
  BY DEF Left, IsRest
<1>2. Len(text) - Len(wire) + i \in 1..Len(text)
  BY ONLY <1>1
<1>3. wire[i] = text[Len(text) - Len(wire) + i]
  BY <1>1 DEF Left, IsRest
<1> QED
  BY <1>2, <1>3

LEMMA PlainNoHex ==
  ASSUME Shape, Sending, at \in {"waking", "dot"}
  PROVE  NoHex
<1> SUFFICES ASSUME NEW i \in DOMAIN wire PROVE wire[i][1] # "hex"
  BY DEF NoHex
<1>1. wire \in Seq(Char)
  BY DEF Shape
<1>2. CASE at = "waking"
  <2>1. PICK k \in 1..5 : wire[i] = (Wake \o <<CR>>)[k]
    <3>1. Left(Wake \o <<CR>>) /\ Wake \o <<CR>> \in Seq(Char) /\ Len(Wake \o <<CR>>) = 5
      BY <1>2, WakeChars DEF Sending
    <3> DEFINE t == Wake \o <<CR>>
    <3>2. Left(t) /\ t \in Seq(Char) /\ Len(t) = 5
      BY <3>1
    <3> HIDE DEF t
    <3>3. \E k \in 1..5 : wire[i] = t[k]
      BY <1>1, <3>2, RestOf
    <3> QED
      BY <3>3 DEF t
  <2>2. k = 1 \/ k = 2 \/ k = 3 \/ k = 4 \/ k = 5
    OBVIOUS
  <2>3. wire[i] \in {Ch("A5"), Ch("5A"), Ch("C3"), Ch("3C"), CR}
    BY <2>1, <2>2, WakeChars
  <2> QED
    BY <2>3, WakeTexts DEF CR
<1>3. CASE at = "dot"
  <2>1. PICK k \in 1..2 : wire[i] = EndLoad[k]
    BY <1>1, <1>3, RestOf, EndChars DEF Sending
  <2>2. k = 1 \/ k = 2
    OBVIOUS
  <2>3. wire[i] \in {Ch("."), CR}
    BY <2>1, <2>2, EndChars
  <2> QED
    BY <2>3, WakeTexts DEF CR
<1> QED
  BY <1>2, <1>3

\* The first part of a text or of data is what is left when a process is killed.
LEMMA StrayKill ==
  ASSUME Shape, Steps, Sending, Stray, StrayHyp, NEW n \in 0..Len(wire), Kill(n)
  PROVE  StrayIdle'
<1>1. /\ at # "idle" /\ wire' = SubSeq(wire, 1, n) /\ wire \in Seq(Char) /\ MonitorShape /\ n \in Nat
      /\ UNCHANGED <<job, part, mon, st, cmd, nibs, addr, hi, losses, lost, found, ret>>
  BY DEF Kill, Exit, Shape, board, mon, history
<1>2. /\ wire' \in Seq(Char) /\ Len(wire') = n /\ Len(wire) \in Nat /\ n <= Len(wire)
      /\ \A i \in 1..n : wire'[i] = wire[i] /\ i \in 1..Len(wire)
  BY <1>1, KilledWire
<1>3. \A i \in DOMAIN wire' : i \in DOMAIN wire /\ wire'[i] = wire[i]
  BY <1>1, <1>2
<1>4. /\ Mode' = Mode /\ Calm' = Calm /\ UNCHANGED Parts /\ Addr' = Addr /\ Size' = Size
      /\ \A i, c : IsData(i, c)' <=> IsData(i, c)
  BY <1>1 DEF Mode, Calm, CmdIdle, Parts, Addr, Size, IsData
<1>5. NoHex => NoHex'
  BY <1>3 DEF NoHex
<1>6. CASE at \in {"waking", "dot"}
  BY <1>5, <1>6, PlainNoHex DEF StrayIdle
<1>7. CASE at \in {"wake", "load"}
  BY <1>5, <1>7, NoneLeft DEF Steps, Quiet, Sent, StrayIdle
<1>8. CASE at = "last"
  BY <1>1, <1>3, <1>4, <1>8 DEF Stray, NoL, StrayIdle
<1>9. CASE at = "loading"
  <2> DEFINE a == Addr
             t == LoadCommand(a)
  <2>1. /\ part <= Len(Parts) /\ t \in Seq(Char) /\ Len(t) = 7 /\ Left(t) /\ Addr' = a /\ a' = a
    BY <1>4, <1>9, Place DEF Steps, Sending
  <2>2. PICK x : x = Gone(t)
    OBVIOUS
  <2>3. StrayLoading(x)
    BY <1>9, <2>2 DEF Stray
  <2> HIDE DEF t, a
  <2>4. x \in 0..7 /\ x = 7 - Len(wire) /\ \A i \in 1..Len(wire) : wire[i] = t[x + i]
    <3>1. Len(wire) <= 7 /\ \A i \in 1..Len(wire) : wire[i] = t[7 - Len(wire) + i]
      BY <2>1 DEF Left, IsRest
    <3>2. x = 7 - Len(wire)
      <4>1. x = Len(t) - Len(wire) /\ Len(t) = 7
        BY <2>1, <2>2 DEF Gone
      <4> QED
        BY ONLY <1>2, <4>1
    <3>3. x \in 0..7
      <4>1. Len(wire) \in Nat /\ Len(wire) <= 7
        BY <1>2, <3>1
      <4> DEFINE m == Len(wire)
      <4>2. m \in Nat /\ m <= 7 /\ x = 7 - m
        BY <3>2, <4>1
      <4> HIDE DEF m
      <4> QED
        BY ONLY <4>2
    <3>4. \A i \in 1..Len(wire) : wire[i] = t[x + i]
      BY ONLY <1>2, <3>1, <3>2, <3>3
    <3> QED
      BY <3>2, <3>3, <3>4
  <2>5. x + Len(wire') <= 7 /\ \A i \in 1..Len(wire') : wire'[i] = t[x + i]
    <3>1. x = 7 - Len(wire) /\ Len(wire') = n /\ Len(wire) \in Nat /\ n <= Len(wire) /\ n \in Nat
      BY <1>1, <1>2, <2>4
    <3>2. x + Len(wire') <= 7
      BY ONLY <3>1
    <3>3. \A i \in 1..Len(wire') : wire'[i] = t[x + i]
      <4> SUFFICES ASSUME NEW i \in 1..Len(wire') PROVE wire'[i] = t[x + i]
        OBVIOUS
      <4>1. i \in 1..n
        BY ONLY <3>1, i \in 1..Len(wire')
      <4>2. wire'[i] = wire[i] /\ i \in 1..Len(wire)
        BY <1>2, <4>1
      <4> QED
        BY <2>4, <4>2
    <3> QED
      BY <3>2, <3>3
  <2>6. cmd = "L" => nibs <= Digs(x)
    BY <1>1, <2>3, CalmNothing DEF StrayLoading, Typed, Ready, MonitorShape, Mode
  <2>7. Mode = "load" => wire' = <<>>
    <3> SUFFICES ASSUME Mode = "load" PROVE wire' = <<>>
      OBVIOUS
    <3>1. x = 7
      BY <1>1, <2>3, CalmNothing DEF StrayLoading, Mode
    <3>2. Len(wire') = 0
      BY <1>2, <2>4, <3>1
    <3> QED
      BY <1>2, <3>2
  <2>8. StrayCommand(x)'
    BY <1>1, <1>4, <2>1, <2>5, <2>6, <2>7 DEF StrayCommand, t
  <2> QED
    BY <1>1, <1>4, <2>1, <2>4, <2>8 DEF StrayIdle
<1>10. CASE at = "lines"
  <2>1. PICK x \in Nat : x = DataGone
    BY <1>10 DEF Sending
  <2>2. DataLeft(x) /\ StrayLines(x) /\ part <= Len(Parts) /\ Size \in Nat
    BY <1>10, <2>1, Place DEF Sending, Stray, Steps
  <2>3. DataLeft(x)'
    <3>1. x + Len(wire) <= 3 * Size /\ (\A i \in 1..Len(wire) : IsData(x + i, wire[i]))
      BY <2>2 DEF DataLeft
    <3>2. x + Len(wire') <= 3 * Size
      BY <1>2, <2>2, <3>1
    <3>3. \A i \in 1..Len(wire') : IsData(x + i, wire'[i])
      BY <1>2, <3>1
    <3> QED
      BY <1>4, <3>2, <3>3 DEF DataLeft
  <2>4. StrayLines(x)'
    BY <1>1, <1>4, <2>2 DEF StrayLines, HalfLoad, Ahead
  <2> QED
    BY <1>1, <1>4, <2>2, <2>3, <2>4 DEF StrayIdle
<1> QED
  BY <1>1, <1>6, <1>7, <1>8, <1>9, <1>10 DEF Steps

\* What the C64 loader has seen, or a tool that goes on without a prompt may
\* have lost, when the data begins.
LEMMA StrayBegins ==
  ASSUME Shape, Steps, Sending, Stray, StrayHyp, LoadAnswered, at' = "lines"
  PROVE  StrayLines(DataGone)'
<1>1. /\ at = "loading" /\ Quiet /\ line' = 1 /\ wire' = <<>> /\ wire = <<>>
      /\ UNCHANGED <<job, part, mon, st, cmd, nibs, addr, hi, losses, lost, ret>>
      /\ (job.tool = "c64" => HasPrompt(rx, ">"))
  BY DEF LoadAnswered, Goto, Exit, Hear, Quiet, Sent, board, mon, bounds
<1>2. part <= Len(Parts) /\ Size \in Nat /\ Addr \in 0..(RAMEnd - 1) /\ Len(LoadCommand(Addr)) = 7 /\ Len(wire) = 0
  BY <1>1, Place DEF Steps
<1>3. Size' = Size /\ Addr' = Addr
  BY <1>1 DEF Size, Addr, Parts
<1>4. DataGone' = 0
  <2>1. (1 - 1) * BytesPerLine = 0
    BY PerLine
  <2>2. SentBytes' = 0
    BY ONLY <1>1, <1>2, <1>3, <2>1 DEF SentBytes, Lesser
  <2>3. Len(wire') = 0
    BY <1>1
  <2> QED
    BY ONLY <2>2, <2>3 DEF DataGone
<1>5. StrayLoading(7)
  BY <1>1, <1>2 DEF Stray, Gone
<1>6. CASE Calm
  <2>1. Calm'
    BY <1>1, <1>6 DEF Calm, CmdIdle, Mode
  <2> QED
    BY <1>4, <2>1 DEF StrayLines
<1>7. CASE /\ st = "cmd" /\ cmd = "L" /\ Typed(Addr, 7) /\ ~Said(">") /\ "loading" \in lost
           /\ losses >= Digs(7) - nibs + (IF nibs > 0 THEN 1 ELSE 0)
  <2>1. job.tool # "c64"
    <3>1. ~In(">", rx) /\ rx \in Seq(Pieces) /\ Proper(rx)
      BY <1>7 DEF Said, Shape
    <3> QED
      BY <1>1, <3>1, Heard
  <2>2. losses < 3 /\ losses \in Nat /\ nibs \in 0..8 /\ Digs(7) = 4 /\ nibs <= Digs(7)
    BY <1>7, <2>1, PerLine, DigsStep DEF StrayHyp, Steps, Shape, MonitorShape, Typed
  <2>3. (nibs = 4 /\ losses >= 1) \/ (nibs = 3 /\ losses >= 2)
    <3>1. nibs \in 0..4 /\ losses >= 4 - nibs + (IF nibs > 0 THEN 1 ELSE 0)
      BY <1>7, <2>2
    <3>2. nibs = 0 \/ nibs = 1 \/ nibs = 2 \/ nibs = 3 \/ nibs = 4
      BY ONLY <3>1
    <3> QED
      BY ONLY <2>2, <3>1, <3>2
  <2>4. HalfLoad(0)'
    BY <1>1, <1>7, <2>1, <2>3 DEF HalfLoad
  <2> QED
    BY <1>4, <2>4 DEF StrayLines
<1>8. CASE Ready(Addr)
  <2>1. st = "load" /\ addr = Addr /\ hi = NoCall
    BY <1>1, <1>8 DEF Ready, Mode, Quiet
  <2>2. addr = (Addr + 0) % RAMEnd
    <3>0. RAMEnd \in Nat
      BY EndIs
    <3>1. Addr \in 0..(RAMEnd - 1) /\ RAMEnd \in Nat
      BY <1>2, <3>0
    <3>2. Addr + 0 = Addr /\ Addr % RAMEnd = Addr
      BY ONLY <3>1
    <3> QED
      BY ONLY <2>1, <3>2
  <2>3. NibblesOf(0) = 0 /\ 0 \in 0..Size
    BY <1>2, NibblesStep
  <2>4. 2 * 0 + 0 <= 0
    OBVIOUS
  <2>5. Ahead(0)'
    BY <1>1, <1>3, <2>1, <2>2, <2>3, <2>4 DEF Ahead
  <2> QED
    BY <1>4, <2>5 DEF StrayLines
<1> QED
  BY <1>5, <1>6, <1>7, <1>8 DEF StrayLoading

\* A character of the load command, of data, of the end or of what comes last.
LEMMA StrayTake ==
  ASSUME Shape, Steps, Sending, Fresh, JobsFit, Stray, StrayHyp, StrayHyp', Take
  PROVE  Stray'
<1>1. /\ wire \in Seq(Char) /\ wire # <<>> /\ wire' = Tail(wire) /\ Read(Head(wire)) /\ MonitorShape
      /\ UNCHANGED <<job, at, part, line, rx, lost, losses>> /\ Image' = Image
  BY DEF Take, pc, Shape, bounds, Image, Parts
<1>2. /\ Head(wire) \in Char /\ Head(wire) = wire[1] /\ Len(wire) \in Nat /\ Len(wire) > 0
      /\ wire' \in Seq(Char) /\ Len(wire') = Len(wire) - 1 /\ \A i \in 1..Len(wire') : wire'[i] = wire[i + 1]
  BY <1>1, WireTail
<1>3. written \subseteq DOMAIN Image
  BY DEF Stray
<1>4. CASE at = "idle"
  <2>1. StrayIdle' /\ written' \subseteq DOMAIN Image
    BY <1>3, <1>4, StrayIdleTake DEF Stray
  <2> QED
    BY <1>1, <1>4, <2>1 DEF Stray
<1>5. CASE at \in {"wake", "load"}
  BY <1>1, <1>5 DEF Steps, Quiet, Sent
<1>6. CASE at = "waking"
  <2>1. NoHex /\ 1 \in DOMAIN wire
    BY <1>1, <1>2, <1>6, PlainNoHex
  <2>2. UNCHANGED written
    BY <1>1, <1>2, <2>1, NoWrite DEF NoHex
  <2> QED
    BY <1>1, <1>3, <1>6, <2>2 DEF Stray
<1>7. CASE at = "loading"
  <2>1. PICK x : x = Gone(LoadCommand(Addr))
    OBVIOUS
  <2>2. StrayLoading(x)
    BY <1>7, <2>1 DEF Stray
  <2>3. StrayLoading(x + 1)' /\ UNCHANGED written
    BY <1>7, <2>1, <2>2, StrayLoadTake
  <2>4. Gone(LoadCommand(Addr))' = x + 1
    <3>1. Addr' = Addr /\ Len(LoadCommand(Addr)) - Len(wire') = x + 1
      BY <1>1, <1>7, <2>1, LoadHead DEF Addr, Parts
    <3> QED
      BY <3>1 DEF Gone
  <2> QED
    BY <1>1, <1>3, <1>7, <2>3, <2>4 DEF Stray
<1>8. CASE at = "lines"
  <2>1. PICK x \in Nat : x = DataGone
    BY <1>8 DEF Sending
  <2>2. DataLeft(DataGone) /\ StrayLines(x) /\ part <= Len(Parts) /\ Size \in Nat /\ SentBytes \in Nat
    BY <1>8, <2>1, Place, Progress DEF Sending, Stray, Steps
  <2>3. DataGone' = x + 1 /\ x < 3 * Size /\ IsData(x + 1, Head(wire))
    BY <1>1, <2>1, <2>2, DataTail
  <2>4. StrayLines(x + 1)' /\ written' \subseteq DOMAIN Image
    BY <1>3, <2>2, <2>3, StrayDataTake
  <2> QED
    BY <1>1, <1>8, <2>3, <2>4 DEF Stray
<1>9. CASE at = "dot"
  <2>1. /\ Len(wire) \in 1..2 /\ (Len(wire) = 2 => Head(wire) = Ch("."))
        /\ (Len(wire) = 1 => Head(wire) = CR)
    BY <1>1, <1>9, DotHead
  <2>2. Head(wire)[1] \in {".", "cr"} /\ (Len(wire) = 2 => Head(wire)[1] = ".")
    <3>1. Len(wire) = 1 \/ Len(wire) = 2
      BY ONLY <2>1
    <3> QED
      BY <2>1, <3>1, WakeTexts DEF CR
  <2>3. UNCHANGED written
    BY <1>1, <2>2, NoWrite
  <2>4. Calm'
    <3>1. CASE Calm
      BY <1>1, <1>2, <2>2, <3>1, CalmRead
    <3>2. CASE Len(wire) = 2 /\ st = "load"
      <4>1. CloseLoad(Head(wire))
        BY <1>1, <1>2, <2>2, <3>2, ReadMark
      <4> QED
        BY <4>1 DEF CloseLoad, Say, Calm, CmdIdle, Mode
    <3>3. CASE Len(wire) = 2 /\ st = "cmd" /\ cmd = "L"
      <4>1. Reject(Head(wire))
        BY <1>1, <1>2, <2>2, <3>3, ReadMark
      <4> QED
        BY <3>3, <4>1 DEF Reject, Say, Calm, CmdIdle, Mode
    <3> QED
      BY <1>9, <3>1, <3>2, <3>3 DEF Stray
  <2> QED
    BY <1>1, <1>3, <1>9, <2>3, <2>4 DEF Stray
<1>10. CASE at = "last"
  <2>1. Mode # "load" /\ cmd # "L" /\ NoL
    BY <1>10 DEF Stray
  <2>2. \A i \in DOMAIN wire' : i + 1 \in DOMAIN wire /\ wire'[i] = wire[i + 1]
    BY <1>1, <1>2
  <2>3. 1 \in DOMAIN wire
    BY <1>1, <1>2
  <2>4. Head(wire)[1] # "L" /\ NoL'
    BY <1>2, <2>1, <2>2, <2>3 DEF NoL
  <2>5. UNCHANGED written
    BY <1>1, <2>1, NoWrite
  <2>6. Mode' # "load" /\ cmd' # "L"
    BY <1>1, <1>2, <2>1, <2>4, NotLoading DEF OpenLoad
  <2> QED
    BY <1>1, <1>3, <1>10, <2>4, <2>5, <2>6 DEF Stray
<1> QED
  BY <1>4, <1>5, <1>6, <1>7, <1>8, <1>9, <1>10 DEF Steps

LEMMA StrayLose ==
  ASSUME Shape, Steps, Sending, Stray, StrayHyp, StrayHyp', Lose
  PROVE  Stray'
<1>1. /\ wire \in Seq(Char) /\ wire # <<>> /\ wire' = Tail(wire) /\ lost \subseteq lost'
      /\ UNCHANGED <<job, at, part, line, rx, mon, st, cmd, written>> /\ Image' = Image
      /\ (at = "dot" /\ Head(wire) # CR => "dot" \in lost')
  BY DEF Lose, pc, Shape, board, mon, Image, Parts
<1>2. /\ Head(wire) = wire[1] /\ Len(wire) \in Nat /\ Len(wire) > 0
      /\ wire' \in Seq(Char) /\ Len(wire') = Len(wire) - 1 /\ \A i \in 1..Len(wire') : wire'[i] = wire[i + 1]
  BY <1>1, WireTail
<1>3. /\ written' \subseteq DOMAIN Image' /\ Calm' = Calm /\ Mode' = Mode
  BY <1>1, HeardKept DEF Stray
<1>4. CASE at = "idle"
  <2>1. StrayIdle'
    BY <1>4, StrayIdleLose DEF Stray
  <2> QED
    BY <1>1, <1>3, <1>4, <2>1 DEF Stray
<1>5. CASE at \in {"wake", "load"}
  BY <1>1, <1>5 DEF Steps, Quiet, Sent
<1>6. CASE at = "waking"
  BY <1>1, <1>3, <1>6 DEF Stray
<1>7. CASE at = "loading"
  <2>1. PICK x : x = Gone(LoadCommand(Addr))
    OBVIOUS
  <2>2. StrayLoading(x)
    BY <1>7, <2>1 DEF Stray
  <2>3. StrayLoading(x + 1)'
    BY <1>7, <2>1, <2>2, StrayLoadLose
  <2>4. Gone(LoadCommand(Addr))' = x + 1
    <3>1. Addr' = Addr /\ Len(LoadCommand(Addr)) - Len(wire') = x + 1
      BY <1>1, <1>7, <2>1, LoadHead DEF Addr, Parts
    <3> QED
      BY <3>1 DEF Gone
  <2> QED
    BY <1>1, <1>3, <1>7, <2>3, <2>4 DEF Stray
<1>8. CASE at = "lines"
  <2>1. PICK x \in Nat : x = DataGone
    BY <1>8 DEF Sending
  <2>2. DataLeft(DataGone) /\ StrayLines(x) /\ part <= Len(Parts) /\ Size \in Nat /\ SentBytes \in Nat
    BY <1>8, <2>1, Place, Progress DEF Sending, Stray, Steps
  <2>3. DataGone' = x + 1 /\ x < 3 * Size
    BY <1>1, <2>1, <2>2, DataTail
  <2>4. StrayLines(x + 1)'
    BY <2>2, <2>3, StrayDataLose
  <2> QED
    BY <1>1, <1>3, <1>8, <2>3, <2>4 DEF Stray
<1>9. CASE at = "dot"
  <2>1. Len(wire) \in 1..2 /\ (Len(wire) = 2 => Head(wire) = Ch("."))
    BY <1>1, <1>9, DotHead
  <2>2. Ch(".") # CR
    BY WakeTexts DEF CR
  <2>3. Len(wire) = 1
    BY <1>1, <1>9, <2>1, <2>2 DEF StrayHyp
  <2>4. Calm'
    BY <1>3, <1>9, <2>3 DEF Stray
  <2> QED
    BY <1>1, <1>3, <1>9, <2>4 DEF Stray
<1>10. CASE at = "last"
  <2>1. \A i \in DOMAIN wire' : i + 1 \in DOMAIN wire /\ wire'[i] = wire[i + 1]
    BY <1>1, <1>2
  <2>2. NoL'
    BY <1>10, <2>1 DEF Stray, NoL
  <2> QED
    BY <1>1, <1>3, <1>10, <2>2 DEF Stray
<1> QED
  BY <1>4, <1>5, <1>6, <1>7, <1>8, <1>9, <1>10 DEF Steps

LEMMA StrayEmitted ==
  ASSUME Shape, Steps, Stray, StrayHyp, Emitted
  PROVE  Stray'
<1>1. /\ st = "emit" /\ UNCHANGED <<job, at, part, line, wire, cmd, nibs, addr, hi, written>>
      /\ Mode' = Mode /\ Calm' = Calm /\ Image' = Image
  BY EmittedHeard DEF history, Image, Parts
<1>2. Addr' = Addr /\ Gone(LoadCommand(Addr))' = Gone(LoadCommand(Addr)) /\ DataGone' = DataGone /\ NoL' = NoL
  BY <1>1 DEF Addr, Parts, Gone, DataGone, SentBytes, Size, NoL
<1>3. CASE at = "idle"
  <2>1. StrayIdle'
    BY <1>3, StrayIdleEmitted DEF Stray
  <2> QED
    BY <1>1, <1>3, <2>1 DEF Stray
<1>4. at = "loading" => StrayLoading(Gone(LoadCommand(Addr)))'
  <2>1. PICK x : x = Gone(LoadCommand(Addr))
    OBVIOUS
  <2>2. StrayLoading(x) => StrayLoading(x)'
    BY <1>1, <1>2 DEF StrayLoading, Ready
  <2> QED
    BY <1>2, <2>1, <2>2 DEF Stray
<1>5. at = "lines" => StrayLines(DataGone)'
  <2>1. PICK x : x = DataGone
    OBVIOUS
  <2>2. StrayLines(x) => StrayLines(x)'
    BY <1>1 DEF StrayLines, HalfLoad, Ahead
  <2> QED
    BY <1>2, <2>1, <2>2 DEF Stray
<1>6. CASE at # "idle"
  BY <1>1, <1>2, <1>4, <1>5, <1>6 DEF Stray
<1> QED
  BY <1>3, <1>6

LEMMA StrayInit == Init => Stray
<1> SUFFICES ASSUME Init PROVE Stray
  OBVIOUS
<1>1. wire = <<>> /\ at = "idle" /\ written = {}
  BY DEF Init
<1> QED
  BY <1>1, NoneLeft DEF Stray, StrayIdle

LEMMA StrayNext ==
  ASSUME Shape, Steps, Sending, Waking, Fresh, JobsFit, Stray, [Next]_vars
  PROVE  Stray'
<1> SUFFICES ASSUME StrayHyp' PROVE Stray'
  BY DEF Stray
<1>0. ASSUME UNCHANGED <<job, written>>
      PROVE  Image' = Image /\ UNCHANGED Parts
  BY <1>0 DEF Image, Parts
<1>h. ASSUME UNCHANGED <<job, lost, losses, found>> PROVE StrayHyp /\ written \subseteq DOMAIN Image
  BY <1>h DEF StrayHyp, Uploads, Stray
<1>p. job.tool \in {"c64", "hex", "plain"} => Len(Parts) >= 1
  <2>1. jumps \in Boards /\ job \in Jobs[jumps]
    BY DEF Steps
  <2>2. Parts \in Seq(PartSet) /\ (job.tool \in {"c64", "hex", "plain"} => Parts # <<>>)
    BY <2>1, JobOf DEF Parts
  <2> QED
    BY <2>2
<1>1. CASE SendWake
  <2>1. at' = "waking" /\ UNCHANGED <<job, lost, losses, found, written>>
    BY <1>1 DEF SendWake, Send, bounds, history
  <2> QED
    BY <1>0, <1>h, <2>1 DEF Stray
<1>2. CASE WakeAnswered
  <2>1. /\ UNCHANGED <<job, lost, losses, found, written, mon>> /\ at = "waking" /\ Quiet
        /\ wire' = <<>> /\ at' \in {"wake", AfterPart(part), "idle"}
        /\ (Woken \/ at' # AfterPart(part))
    BY <1>2 DEF WakeAnswered, Goto, Exit, Hear, board, bounds, Quiet, Sent, AfterPart
  <2>2. StrayHyp /\ written' \subseteq DOMAIN Image'
    BY <1>0, <1>h, <2>1
  <2>3. AfterPart(part) = "load"
    BY <1>p, <2>1, <2>2 DEF Steps, StrayHyp, Uploads, AfterPart
  <2>4. at' = "load" => Calm'
    <3> SUFFICES ASSUME at' = "load" PROVE Calm'
      OBVIOUS
    <3>1. CmdIdle
      BY <2>1, <2>2, <2>3, WokenIdle DEF StrayHyp
    <3> QED
      BY <2>1, <3>1 DEF Calm, CmdIdle, Mode, mon
  <2>5. NoHex'
    BY <2>1 DEF NoHex
  <2> QED
    BY <2>1, <2>2, <2>3, <2>4, <2>5 DEF Stray, StrayIdle
<1>3. CASE SendLoad
  <2>1. /\ UNCHANGED <<job, lost, losses, found, written, mon, part, rx>> /\ at = "load" /\ at' = "loading"
        /\ wire' = LoadCommand(Addr) /\ part <= Len(Parts)
    BY <1>3 DEF SendLoad, Goto, Send, board, bounds, history, Addr, Steps
  <2>2. Calm' /\ written' \subseteq DOMAIN Image'
    BY <1>0, <1>h, <2>1, HeardKept DEF Stray
  <2>3. PICK y : y = Gone(LoadCommand(Addr))'
    OBVIOUS
  <2>4. StrayLoading(y)'
    BY <2>2 DEF StrayLoading
  <2> QED
    BY <2>1, <2>2, <2>3, <2>4 DEF Stray
<1>4. CASE LoadAnswered
  <2>1. /\ UNCHANGED <<job, lost, losses, found, written>> /\ wire' = <<>> /\ at' \in {"idle", "lines"}
    BY <1>4 DEF LoadAnswered, Goto, Exit, Hear, bounds, Quiet, Sent
  <2>2. NoHex' /\ written' \subseteq DOMAIN Image'
    BY <1>0, <1>h, <2>1 DEF NoHex
  <2>3. at' = "lines" => StrayLines(DataGone)'
    BY <1>4, <1>h, <2>1, StrayBegins
  <2> QED
    BY <2>1, <2>2, <2>3 DEF Stray, StrayIdle
<1>5. CASE SendLine
  <2>1. /\ UNCHANGED <<job, lost, losses, found, written, mon, part>> /\ at = "lines" /\ at' = "lines"
    BY <1>5 DEF SendLine, Goto, Send, board, bounds, history
  <2>2. DataGone' = DataGone
    BY <1>5, LineSent
  <2>3. PICK x : x = DataGone
    OBVIOUS
  <2>4. StrayLines(x)
    BY <1>h, <2>1, <2>3 DEF Stray
  <2>5. Addr' = Addr /\ Size' = Size /\ Calm' = Calm /\ UNCHANGED <<st, cmd, nibs, addr, hi>>
    BY <2>1 DEF Addr, Size, Parts, Calm, CmdIdle, Mode, mon
  <2>6. StrayLines(x)'
    BY <1>5, <2>1, <2>4, <2>5 DEF StrayLines, HalfLoad, Ahead
  <2> QED
    BY <1>0, <1>h, <2>1, <2>2, <2>3, <2>6 DEF Stray
<1>6. CASE SendDot
  <2>1. /\ UNCHANGED <<job, lost, losses, found, written, mon, st, cmd>> /\ at = "lines" /\ at' = "dot"
        /\ Len(wire') = 2
    BY <1>6, EndChars DEF SendDot, Goto, Send, board, bounds, history, mon
  <2>2. PICK x : x = DataGone
    OBVIOUS
  <2>3. StrayLines(x)
    BY <1>h, <2>1, <2>2 DEF Stray
  <2>4. Calm \/ st = "load" \/ (st = "cmd" /\ cmd = "L")
    BY <2>3 DEF StrayLines, HalfLoad, Ahead
  <2>5. Calm => Calm'
    BY <2>1 DEF Calm, CmdIdle, Mode, mon
  <2> QED
    BY <1>0, <1>h, <2>1, <2>4, <2>5 DEF Stray
<1>7. CASE DotAnswered
  <2>1. /\ UNCHANGED <<job, lost, losses, found, written, mon, st, cmd>> /\ at = "dot" /\ Quiet
        /\ wire' = <<>> /\ wire = <<>> /\ at' \in {"load", "last", "idle"}
    BY <1>7 DEF DotAnswered, Goto, Exit, AfterPart, Hear, board, bounds, Quiet, Sent, mon
  <2>2. Len(wire) # 2 /\ NoHex' /\ NoL'
    BY <2>1 DEF NoHex, NoL
  <2>3. Calm /\ MonitorShape
    BY <1>h, <2>1, <2>2 DEF Stray, Shape
  <2>4. Mode # "load" /\ cmd = "none"
    BY <2>3, CalmNothing
  <2>5. Calm' /\ Mode' # "load" /\ cmd' # "L"
    BY <2>1, <2>3, <2>4 DEF Calm, CmdIdle, Mode, mon
  <2> QED
    BY <1>0, <1>h, <2>1, <2>2, <2>5 DEF Stray, StrayIdle
<1>8. CASE SendLast
  <2>1. /\ UNCHANGED <<job, lost, losses, found, written, mon, st, cmd>> /\ at = "last" /\ at' = "last"
        /\ wire' = job.last[line] /\ line \in 1..Len(job.last)
    BY <1>8, Place DEF SendLast, Goto, Send, board, bounds, history, mon
  <2>2. NoL'
    BY <1>h, <2>1, LastNoL DEF NoL, StrayHyp
  <2>3. Mode' = Mode
    BY <2>1 DEF Mode, mon
  <2> QED
    BY <1>0, <1>h, <2>1, <2>2, <2>3 DEF Stray
<1>9. CASE Complete
  <2>1. /\ UNCHANGED <<job, lost, losses, found, written>> /\ wire' = <<>> /\ at' = "idle"
    BY <1>9 DEF Complete, Exit, Hear, bounds, Quiet, Sent
  <2> QED
    BY <1>0, <1>h, <2>1 DEF Stray, StrayIdle, NoHex
<1>10. CASE Take
  <2>1. UNCHANGED <<job, lost, losses, found>>
    BY <1>10 DEF Take, pc, bounds
  <2> QED
    BY <1>10, <1>h, <2>1, StrayTake
<1>11. CASE Emitted
  <2>1. UNCHANGED <<job, lost, losses, found>>
    BY <1>11 DEF Emitted, bounds, history
  <2> QED
    BY <1>11, <1>h, <2>1, StrayEmitted
<1>12. CASE Lose
  <2>1. lost \subseteq lost' /\ losses' = losses + 1 /\ UNCHANGED <<job, found>> /\ losses \in Nat
    BY <1>12, PerLine DEF Lose, pc, Steps
  <2>2. losses + 1 < 3 => losses < 3
    BY ONLY <2>1
  <2>3. StrayHyp
    BY <2>1, <2>2 DEF StrayHyp, Uploads
  <2> QED
    BY <1>12, <2>3, StrayLose
<1>13. ASSUME NEW j \in Jobs[jumps], Start(j) PROVE Stray'
  <2>1. /\ Quiet /\ job' = j /\ at' = (IF j.wake THEN "wake" ELSE IF j.parts = <<>> THEN "last" ELSE "load")
        /\ UNCHANGED mon /\ written' = {}
        /\ found' = (IF cmd # "none" THEN "typing" ELSE IF magic = 3 THEN "half_awake" ELSE st)
    BY <1>13 DEF Start, board
  <2>2. j.parts # <<>>
    BY <2>1, JobOf DEF Steps, StrayHyp, Uploads
  <2>3. ~j.wake => Calm'
    <3> SUFFICES ASSUME ~j.wake PROVE Calm'
      OBVIOUS
    <3>1. cmd = "none" /\ (magic = 3 \/ st # "load")
      BY <2>1 DEF StrayHyp
    <3>2. st \in {"off", "cmd"}
      BY <2>1, <3>1 DEF Shape, MonitorShape, Quiet
    <3> QED
      BY <2>1, <3>1, <3>2 DEF Calm, CmdIdle, Mode, mon
  <2> QED
    BY <2>1, <2>2, <2>3 DEF Stray
<1>14. ASSUME NEW n \in 0..Len(wire), Kill(n) PROVE Stray'
  <2>1. UNCHANGED <<job, lost, losses, found, written>> /\ at' = "idle"
    BY <1>14 DEF Kill, Exit, history
  <2>2. StrayIdle'
    BY <1>14, <1>h, <2>1, StrayKill
  <2> QED
    BY <1>0, <1>h, <2>1, <2>2 DEF Stray
<1>15. CASE UNCHANGED vars
  <2>1. /\ UNCHANGED <<job, at, part, line, wire, rx, mon, lost, losses, found, written,
                      st, cmd, nibs, addr, hi, ret>>
    BY <1>15 DEF vars, pc, history, bounds, board, mon
  <2>2. /\ Calm' = Calm /\ Mode' = Mode /\ (Said(">")' <=> Said(">"))
    BY <2>1, HeardKept
  <2>3. /\ Addr' = Addr /\ Size' = Size /\ Gone(LoadCommand(Addr))' = Gone(LoadCommand(Addr))
        /\ DataGone' = DataGone /\ NoL' = NoL /\ NoHex' = NoHex
        /\ \A i, c : IsData(i, c)' <=> IsData(i, c)
    BY <2>1 DEF Addr, Size, Parts, Gone, DataGone, SentBytes, NoL, NoHex, IsData
  <2>4. \A x : StrayLoading(x) => StrayLoading(x)'
    BY <2>1, <2>2, <2>3 DEF StrayLoading, Ready, Typed
  <2>5. \A x : StrayLines(x) => StrayLines(x)'
    BY <2>1, <2>2, <2>3 DEF StrayLines, HalfLoad, Ahead
  <2>6. \A x : StrayCommand(x) => StrayCommand(x)'
    BY <2>1, <2>2, <2>3 DEF StrayCommand
  <2>7. \A x : DataLeft(x) => DataLeft(x)'
    BY <2>1, <2>3 DEF DataLeft
  <2>8. StrayIdle => StrayIdle'
    BY <1>0, <2>1, <2>2, <2>3, <2>5, <2>6, <2>7 DEF StrayIdle
  <2> QED
    BY <1>0, <1>h, <2>1, <2>2, <2>3, <2>4, <2>5, <2>8 DEF Stray
<1> QED
  BY <1>1, <1>2, <1>3, <1>4, <1>5, <1>6, <1>7, <1>8, <1>9, <1>10, <1>11, <1>12, <1>13, <1>14, <1>15
     DEF Next, PcMoves, BoardMoves

-----------------------------------------------------------------------------
(* Where a process leaves the CPU. *)

\* The lines of a job that uploads, one or two of them or none.
LEMMA FewLines ==
  ASSUME Steps, JobsFit, Uploads, at = "last"
  PROVE  /\ Len(job.last) \in 0..2
         /\ Len(job.last) >= 1 => /\ job.last # <<>> /\ job.last[1] \in {Release, RunCommand(job.run)}
                                  /\ job.tool = "c64" => job.last[1] = Release
         /\ Len(job.last) = 2 => job.last[2] = <<CR>> /\ job.tool # "c64"
         /\ Len(job.last) = 0 => job.last = <<>>
<1>1. /\ job.last \in {<<>>, <<Release>>, <<RunCommand(job.run)>>, <<RunCommand(job.run), <<CR>> >>}
      /\ job.tool = "c64" => job.last \in {<<>>, <<Release>>}
  BY LastLines DEF LastFits
<1> DEFINE r == RunCommand(job.run)
           g == Release
           c == <<CR>>
           s == job.last
<1>2. s \in {<<>>, <<g>>, <<r>>, <<r, c>>} /\ (job.tool = "c64" => s \in {<<>>, <<g>>})
  BY <1>1
<1> HIDE DEF r, g, c, s
<1>3. CASE s = <<>>
  BY <1>3 DEF s
<1>4. CASE s = <<g>>
  BY <1>4 DEF s, g
<1>5. CASE s = <<r>>
  <2>1. Len(s) = 1 /\ s # <<>> /\ s[1] = r
    BY <1>5
  <2>2. s # <<>> /\ (s = <<g>> => r = g)
    BY <1>5
  <2>3. job.tool = "c64" => s[1] = g
    BY <1>2, <2>1, <2>2
  <2> QED
    BY <2>1, <2>3 DEF s, r, g
<1>6. CASE s = <<r, c>>
  <2>1. Len(s) = 2 /\ s # <<>> /\ s[1] = r /\ s[2] = c
    BY <1>6
  <2>2. s # <<g>>
    BY <1>6
  <2>3. job.tool # "c64"
    BY <1>2, <2>1, <2>2
  <2> QED
    BY <2>1, <2>3 DEF s, r, g, c
<1> QED
  BY <1>2, <1>3, <1>4, <1>5, <1>6

LEMMA ReleaseChars ==
  /\ Release \in Seq(Char) /\ Len(Release) = 2 /\ Release[1] = Ch("G") /\ Release[2] = CR
  /\ <<CR>> \in Seq(Char) /\ Len(<<CR>>) = 1 /\ <<CR>>[1] = CR
<1>1. Ch("G") \in Char /\ CR \in Char
  BY CharOf DEF Marks
<1> QED
  BY <1>1 DEF Release

\* The next character of the line that starts or releases the program.
LEMMA LastHead ==
  ASSUME Shape, Steps, Sending, JobsFit, Uploads, at = "last", line = 2, wire # <<>>, wire' = Tail(wire),
         NEW x, x = Gone(job.last[1])
  PROVE  /\ Len(job.last) >= 1 /\ x \in 0..6 /\ Len(job.last[1]) - Len(wire') = x + 1
         /\ Len(job.last[1]) \in {2, 7} /\ x < Len(job.last[1])
         /\ Head(wire) \in Char /\ job.run \in 0..(RAMEnd - 1)
         /\ x = 0 => Head(wire) = Ch("G")
         /\ (x = 1 /\ Len(job.last[1]) = 2) => Head(wire) = CR
         /\ (x = 1 /\ Len(job.last[1]) = 7) => Head(wire) = Ch("sp")
         /\ x \in 2..5 => Head(wire) = Hex(DigitOf(job.run, x - 1))
         /\ x = 6 => Head(wire) = CR
<1>1. /\ line <= Len(job.last) + 1 /\ Left(job.last[line - 1]) /\ wire \in Seq(Char)
  BY DEF Sending, Shape
<1>2. /\ Len(job.last) >= 1 /\ Left(job.last[1]) /\ Head(wire) \in Char
      /\ job.last[1] \in {Release, RunCommand(job.run)} /\ job.run \in 0..(RAMEnd - 1)
  <2>1. Len(job.last) >= 1 /\ line - 1 = 1
    BY <1>1, FewLines
  <2> QED
    BY <1>1, <2>1, FewLines, LastLines, WireTail
<1> DEFINE t == job.last[1]
           a == job.run
<1>3. a \in 0..(RAMEnd - 1) /\ x = Gone(t) /\ Left(t)
  BY <1>2
<1> HIDE DEF a
<1>4. CASE t = Release
  <2>1. t \in Seq(Char) /\ Len(t) = 2 /\ t[1] = Ch("G") /\ t[2] = CR
    BY <1>4, ReleaseChars
  <2> HIDE DEF t
  <2>2. /\ Gone(t) \in 0..(Len(t) - 1) /\ Len(t) - Len(wire') = Gone(t) + 1
        /\ Head(wire) = t[Gone(t) + 1]
    BY <1>1, <1>3, <2>1, RestTail
  <2>3. /\ x \in 0..1 /\ Len(t) - Len(wire') = x + 1 /\ Head(wire) = t[x + 1]
    BY <1>3, <2>1, <2>2
  <2>4. x = 0 \/ x = 1
    BY ONLY <2>3
  <2> QED
    BY <1>2, <2>1, <2>3, <2>4 DEF t
<1>5. CASE t = RunCommand(a)
  <2>1. /\ DigitOf(a, 1) = a \div 4096 /\ DigitOf(a, 2) = (a \div 256) % 16
        /\ DigitOf(a, 3) = (a \div 16) % 16 /\ DigitOf(a, 4) = a % 16
    BY DEF DigitOf
  <2> HIDE DEF t
  <2>2. /\ t \in Seq(Char) /\ Len(t) = 7 /\ t[1] = Ch("G") /\ t[2] = Ch("sp")
        /\ t[3] = Hex(a \div 4096) /\ t[4] = Hex((a \div 256) % 16)
        /\ t[5] = Hex((a \div 16) % 16) /\ t[6] = Hex(a % 16)
        /\ t[7] = CR
    BY ONLY <1>3, <1>5, RunChars
  <2>3. /\ t[3] = Hex(DigitOf(a, 1)) /\ t[4] = Hex(DigitOf(a, 2))
        /\ t[5] = Hex(DigitOf(a, 3)) /\ t[6] = Hex(DigitOf(a, 4))
    BY ONLY <2>1, <2>2
  <2>4. "G" \in Marks
    BY DEF Marks
  <2>5. /\ x \in 0..6 /\ Len(t) - Len(wire') = x + 1
        /\ x = 0 => Head(wire) = Ch("G")
        /\ x = 1 => Head(wire) = Ch("sp")
        /\ x \in 2..5 => Head(wire) = Hex(DigitOf(a, x - 1))
        /\ x = 6 => Head(wire) = CR
    <3>1. t \in Seq(Char) /\ Len(t) = 7 /\ t[1] = Ch("G") /\ t[2] = Ch("sp") /\ t[7] = CR
      BY ONLY <2>2
    <3> QED
      BY ONLY <1>1, <1>3, <2>3, <2>4, <3>1, wire # <<>>, wire' = Tail(wire), CommandHead, ZenonT(40)
  <2>6. x < Len(t) /\ Len(t) # 2
    BY ONLY <2>2, <2>5
  <2> QED
    BY <1>2, <2>2, <2>5, <2>6 DEF t, a
<1> QED
  BY <1>2, <1>4, <1>5 DEF a

LEMMA EndingOf ==
  ASSUME Steps, JobsFit, Uploads, at = "last", Len(job.last) >= 1
  PROVE  /\ ~jumps => Ending = <<"resumed", 0>>
         /\ Len(job.last[1]) = 2 => Ending = <<"resumed", 0>>
         /\ (jumps /\ Len(job.last[1]) = 7) => Ending = <<"runs", job.run>>
<1>1. job.last # <<>>
  BY FewLines
<1>2. Len(job.last[1]) = 2 => ~(Len(job.last[1]) > 2)
  BY ONLY TRUE
<1>3. Len(job.last[1]) = 7 => Len(job.last[1]) > 2
  BY ONLY TRUE
<1> QED
  BY <1>1, <1>2, <1>3 DEF Ending

LEMMA FinishLine ==
  ASSUME Shape, Steps, Sending, JobsFit, Uploads, at = "last", line = 2, Take,
         NEW x, x = Gone(job.last[1]), CleanLast(x)
  PROVE  CleanLast(x + 1)'
<1> DEFINE c == Head(wire)
           n == Len(job.last[1])
           a == job.run
<1>1. /\ wire # <<>> /\ wire' = Tail(wire) /\ Read(c) /\ UNCHANGED <<job, at, part, line, rx, jumps>>
      /\ Hold /\ MonitorShape
  BY DEF Take, pc, Shape
<1>2. /\ x \in 0..6 /\ n \in {2, 7} /\ x < n /\ c \in Char /\ Len(job.last) >= 1
      /\ a \in 0..(RAMEnd - 1)
      /\ x = 0 => c = Ch("G")
      /\ (x = 1 /\ n = 2) => c = CR
      /\ (x = 1 /\ n = 7) => c = Ch("sp")
      /\ x \in 2..5 => c = Hex(DigitOf(a, x - 1))
      /\ x = 6 => c = CR
  BY <1>1, LastHead
<1>3. /\ n' = n /\ a' = a /\ Ending' = Ending /\ jumps' = jumps
      /\ CleanLast(x + 1)' <=>
           CASE x + 1 = 0 -> (st = "cmd" /\ cmd = "none")'
             [] x + 1 > 0 /\ jumps /\ x + 1 < n -> cmd' = "G" /\ Came(a, x + 1)'
             [] OTHER -> st' = "off" /\ cpu' = Ending
  BY <1>1 DEF Ending, CleanLast
<1>4. CleanLast(x) <=>
           CASE x = 0 -> st = "cmd" /\ cmd = "none"
             [] x > 0 /\ jumps /\ x < n -> cmd = "G" /\ Came(a, x)
             [] OTHER -> st = "off" /\ cpu = Ending
  BY DEF CleanLast
<1>5. /\ ~jumps => Ending = <<"resumed", 0>>
      /\ n = 2 => Ending = <<"resumed", 0>>
      /\ (jumps /\ n = 7) => Ending = <<"runs", a>>
  BY <1>2, EndingOf
<1>6. jumps \in BOOLEAN
  BY ConstantsAssumption DEF Steps
<1>7. x + 1 > 0 /\ x + 1 # 0 /\ (x = 0 \/ x > 0)
  BY <1>2
<1> HIDE DEF c, n, a
<1>8. /\ (jumps /\ x + 1 < n) => (CleanLast(x + 1)' <=> cmd' = "G" /\ Came(a, x + 1)')
      /\ ~(jumps /\ x + 1 < n) => (CleanLast(x + 1)' <=> st' = "off" /\ cpu' = Ending)
  BY <1>3, <1>7
<1>9. CASE x = 0
  <2>1. st = "cmd" /\ cmd = "none" /\ c[1] = "G" /\ x + 1 = 1 /\ x + 1 < n
    BY <1>2, <1>4, <1>9, WakeTexts
  <2>2. CASE jumps
    <3>1. Letter(c)
      BY <1>1, <1>2, <2>1, <2>2, ReadMark
    <3>2. cmd' = "G" /\ Came(a, 1)'
      <4>1. Digs(1) = 0 /\ Prefix(a, 0) = 0
        BY <1>2, DigsStep, PrefixStep
      <4>2. st' = "cmd" /\ cmd' = "G" /\ nibs' = 0 /\ addr' = 0
        BY <2>1, <3>1 DEF Letter
      <4> QED
        BY <1>3, <4>1, <4>2 DEF Came
    <3> QED
      BY <1>8, <2>1, <2>2, <3>2
  <2>3. CASE ~jumps
    <3>1. LetGo(c)
      BY <1>1, <1>2, <2>1, <2>3, ReadMark
    <3>2. st' = "off" /\ cpu' = <<"resumed", 0>>
      BY <1>1, <2>1, <3>1 DEF LetGo, Hold
    <3> QED
      BY <1>5, <1>8, <2>3, <3>2
  <2> QED
    BY <2>2, <2>3
<1>10. CASE x > 0 /\ jumps
  <2>1. st = "cmd" /\ cmd = "G" /\ nibs = Digs(x) /\ addr = Prefix(a, nibs) /\ Most = 4
    BY <1>2, <1>4, <1>10 DEF Came, Most
  <2>2. x = 1 \/ x \in 2..5 \/ x = 6
    BY <1>2, <1>10
  <2>3. CASE x = 1 /\ n = 2
    <3>1. c = CR /\ nibs = 0 /\ Space(c)
      BY <1>2, <2>1, <2>3, DigsStep, WakeTexts DEF Space, CR
    <3>2. LetGo(c)
      BY <1>1, <1>2, <2>1, <3>1, ReadSpace
    <3>3. st' = "off" /\ cpu' = <<"resumed", 0>>
      BY <1>1, <2>1, <3>1, <3>2 DEF LetGo, Hold
    <3>4. ~(x + 1 < n)
      BY <2>3
    <3> QED
      BY <1>5, <1>8, <2>3, <3>3, <3>4
  <2>4. CASE x = 1 /\ n = 7
    <3>1. c = Ch("sp") /\ nibs = 0 /\ Space(c) /\ c # CR /\ Digs(2) = 0 /\ x + 1 = 2 /\ x + 1 < n
      BY <1>2, <2>1, <2>4, DigsStep, WakeTexts DEF Space, CR
    <3>2. UNCHANGED mon
      BY <1>1, <1>2, <2>1, <3>1, ReadSpace
    <3>3. cmd' = "G" /\ Came(a, 2)'
      BY <1>3, <2>1, <3>1, <3>2 DEF Came, mon
    <3> QED
      BY <1>8, <1>10, <3>1, <3>3
  <2>5. CASE x \in 2..5
    <3>1. /\ Digs(x) = x - 2 /\ Digs(x + 1) = x - 1 /\ n = 7 /\ x + 1 < n
          /\ c[1] = "hex" /\ c[2] = DigitOf(a, x - 1)
      BY <1>2, <2>5, DigsStep, WakeTexts
    <3>2. nibs \in 0..3 /\ nibs < Most /\ nibs + 1 = x - 1
      BY <2>1, <2>5, <3>1
    <3>3. Digit(c)
      BY <1>1, <1>2, <2>1, <3>1, <3>2, ReadHex
    <3>4. /\ nibs' = nibs + 1 /\ addr' = (16 * addr + c[2]) % RAMEnd
          /\ UNCHANGED <<st, cmd, msg>>
      BY <3>2, <3>3 DEF Digit
    <3>5. addr' = Prefix(a, nibs + 1)
      <4>1. (16 * Prefix(a, nibs) + DigitOf(a, nibs + 1)) % RAMEnd = Prefix(a, nibs + 1)
        BY <1>2, <3>2, PrefixStep
      <4> QED
        BY <2>1, <3>1, <3>2, <3>4, <4>1
    <3>6. cmd' = "G" /\ Came(a, x + 1)'
      BY <1>3, <2>1, <3>1, <3>2, <3>4, <3>5 DEF Came
    <3> QED
      BY <1>8, <1>10, <3>1, <3>6
  <2>6. CASE x = 6
    <3>1. c = CR /\ nibs = 4 /\ Space(c) /\ n = 7 /\ addr = a
      BY <1>2, <2>1, <2>6, DigsStep, PrefixStep, WakeTexts DEF Space, CR
    <3>2. LetGo(c)
      BY <1>1, <1>2, <2>1, <3>1, ReadSpace
    <3>3. st' = "off" /\ cpu' = <<"runs", addr>>
      BY <1>1, <2>1, <3>1, <3>2 DEF LetGo, Hold
    <3>4. ~(x + 1 < n)
      BY <2>6, <3>1
    <3> QED
      BY <1>5, <1>8, <1>10, <3>1, <3>3, <3>4
  <2> QED
    BY <1>2, <2>2, <2>3, <2>4, <2>5, <2>6
<1>11. CASE x > 0 /\ ~jumps
  <2>1. st = "off" /\ cpu = Ending
    BY <1>2, <1>4, <1>11
  <2>2. c[1] \notin {"A5", "5A", "C3", "3C"}
    <3>1. x = 1 \/ x \in 2..5 \/ x = 6
      BY <1>2, <1>11
    <3>2. c \in {CR, Ch("sp")} \/ \E d : c = Hex(d)
      BY <1>2, <3>1
    <3> QED
      BY <3>2, WakeTexts DEF CR
  <2>3. st' = "off"
    BY <1>1, <1>2, <2>1, <2>2, ReadOff
  <2>4. cpu' = cpu
    BY <1>1, <2>1, <2>3 DEF Hold
  <2> QED
    BY <1>8, <1>11, <2>1, <2>3, <2>4
<1> QED
  BY <1>6, <1>7, <1>9, <1>10, <1>11

LEMMA FinishInit == Init => Finish
BY DEF Init, Finish

\* With the last line sent and taken, the CPU is where it is to be left.
LEMMA Finished ==
  ASSUME Shape, Steps, Sending, JobsFit, Clean, Finish, CleanHyp, at = "last", Quiet
  PROVE  /\ line > Len(job.last) => cpu = Ending
         /\ (line = 1) => st = "cmd" /\ cmd = "none"
         /\ (line = 2) => st = "off" /\ cpu = Ending
         /\ Len(job.last) \in 0..2 /\ line \in 1..3 /\ line <= Len(job.last) + 1
<1>1. /\ Uploads /\ wire = <<>> /\ st # "emit" /\ line \in Nat \ {0}
      /\ line <= Len(job.last) + 1
  BY DEF CleanHyp, Quiet, Sent, Steps, Sending
<1>2. /\ Len(job.last) \in 0..2 /\ (Len(job.last) = 0 => job.last = <<>>)
      /\ (Len(job.last) >= 1 => job.last[1] \in {Release, RunCommand(job.run)})
  BY <1>1, FewLines
<1>3. line \in 1..3
  <2> DEFINE m == Len(job.last)
  <2>1. m \in 0..2 /\ line <= m + 1 /\ line \in Nat \ {0}
    BY <1>1, <1>2
  <2> HIDE DEF m
  <2> QED
    BY ONLY <2>1
<1>4. line = 1 => st = "cmd" /\ cmd = "none"
  BY <1>1 DEF Clean, CmdIdle, Mode
<1>5. line = 2 => st = "off" /\ cpu = Ending
  <2> SUFFICES ASSUME line = 2 PROVE st = "off" /\ cpu = Ending
    OBVIOUS
  <2>1. Len(job.last) >= 1
    BY ONLY <1>1, <1>2, line = 2
  <2>2. job.run \in 0..(RAMEnd - 1)
    BY <1>1, LastLines
  <2>3. Len(job.last[1]) \in {2, 7}
    <3>1. job.last[1] \in {Release, RunCommand(job.run)}
      BY <1>2, <2>1
    <3>2. Len(Release) = 2 /\ Len(RunCommand(job.run)) = 7
      BY ONLY <2>2, ReleaseChars, RunChars
    <3> QED
      BY ONLY <3>1, <3>2
  <2>4. CleanLast(Gone(job.last[1]))
    BY DEF Finish
  <2>5. Len(wire) = 0
    BY <1>1
  <2>6. Gone(job.last[1]) = Len(job.last[1])
    BY ONLY <2>3, <2>5 DEF Gone
  <2>7. CleanLast(Len(job.last[1]))
    BY ONLY <2>4, <2>6
  <2> DEFINE n == Len(job.last[1])
  <2>8. n > 0 /\ n # 0 /\ ~(n < n)
    BY ONLY <2>3
  <2> QED
    BY ONLY <2>7, <2>8 DEF CleanLast
<1>6. line > Len(job.last) => cpu = Ending
  <2> SUFFICES ASSUME line > Len(job.last) PROVE cpu = Ending
    OBVIOUS
  <2>1. CASE line = 1
    <3>1. Len(job.last) = 0
      BY ONLY <1>2, <2>1, line > Len(job.last)
    <3>2. cpu = <<"held", 0>>
      BY <1>4, <2>1 DEF Shape
    <3> QED
      BY <1>2, <3>1, <3>2 DEF Ending
  <2>2. CASE line = 2
    BY <1>5, <2>2
  <2>3. CASE line = 3
    BY <2>3 DEF Finish
  <2> QED
    BY <1>3, <2>1, <2>2, <2>3
<1> QED
  BY <1>1, <1>2, <1>3, <1>4, <1>5, <1>6

LEMMA FinishTake ==
  ASSUME Shape, Steps, Sending, JobsFit, Clean, Finish, CleanHyp, Take
  PROVE  Finish'
<1>1. /\ wire # <<>> /\ wire' = Tail(wire) /\ Read(Head(wire)) /\ Hold /\ MonitorShape
      /\ UNCHANGED <<job, at, part, line, rx, jumps, result>> /\ wire \in Seq(Char) /\ Uploads
  BY DEF Take, pc, Shape, CleanHyp
<1>2. result = "complete" => at = "idle" /\ FALSE
  BY <1>1 DEF Steps, Quiet, Sent
<1>3. CASE at # "last"
  BY <1>1, <1>2, <1>3 DEF Finish
<1>4. CASE at = "last"
  <2>1. line <= Len(job.last) + 1 /\ (line > 1 => Left(job.last[line - 1])) /\ line \in Nat \ {0} /\ line # 1
    BY <1>1, <1>4 DEF Sending, Steps
  <2>2. line = 2 => CleanLast(Gone(job.last[1]))'
    <3> SUFFICES ASSUME line = 2 PROVE CleanLast(Gone(job.last[1]))'
      OBVIOUS
    <3>1. PICK x : x = Gone(job.last[1])
      OBVIOUS
    <3>2. CleanLast(x)
      BY <1>4, <3>1 DEF Finish
    <3>3. CleanLast(x + 1)'
      BY <1>1, <1>4, <3>1, <3>2, FinishLine
    <3>4. Gone(job.last[1])' = x + 1
      <4>1. Len(job.last[1]) - Len(wire') = x + 1
        BY <1>1, <1>4, <3>1, LastHead
      <4> QED
        BY <1>1, <4>1 DEF Gone
    <3> QED
      BY <3>3, <3>4
  <2>3. line = 3 => st' = "off" /\ cpu' = Ending'
    <3> SUFFICES ASSUME line = 3 PROVE st' = "off" /\ cpu' = Ending'
      OBVIOUS
    <3>1. Len(job.last) = 2
      <4>1. Len(job.last) \in 0..2
        BY <1>1, <1>4, FewLines
      <4> DEFINE m == Len(job.last)
      <4>2. m \in 0..2 /\ line <= m + 1
        BY <2>1, <4>1
      <4> HIDE DEF m
      <4>3. m = 2
        BY ONLY <4>2, line = 3
      <4> QED
        BY <4>3 DEF m
    <3>2. job.last[2] = <<CR>> /\ Left(job.last[2])
      BY <1>1, <1>4, <2>1, <3>1, FewLines
    <3>3. Head(wire) = CR /\ Head(wire) \in Char
      <4> DEFINE t == <<CR>>
      <4>1. t \in Seq(Char) /\ Len(t) = 1 /\ t[1] = CR /\ Left(t)
        BY <3>2, ReleaseChars
      <4> HIDE DEF t
      <4>2. Gone(t) \in 0..(Len(t) - 1) /\ Head(wire) = t[Gone(t) + 1]
        BY <1>1, <4>1, RestTail
      <4>3. Gone(t) = 0
        BY ONLY <4>1, <4>2
      <4>4. 0 + 1 = 1
        OBVIOUS
      <4>5. Head(wire) = t[1]
        BY ONLY <4>2, <4>3, <4>4
      <4> QED
        BY <1>1, <4>1, <4>5, WireTail
    <3>4. st = "off" /\ cpu = Ending
      BY <1>4 DEF Finish
    <3>5. st' = "off"
      BY <1>1, <3>3, <3>4, ReadOff, WakeTexts DEF CR
    <3>6. cpu' = cpu /\ Ending' = Ending
      BY <1>1, <3>4, <3>5 DEF Hold, Ending
    <3> QED
      BY <3>4, <3>5, <3>6
  <2> QED
    BY <1>1, <1>2, <2>2, <2>3 DEF Finish
<1> QED
  BY <1>3, <1>4

LEMMA FinishNext ==
  ASSUME Shape, Steps, Sending, Waking, JobsFit, Clean, Finish, [Next]_vars
  PROVE  Finish'
<1> SUFFICES ASSUME CleanHyp' PROVE Finish'
  BY DEF Finish
<1>0. Steps'
  BY StepsNext
<1>q. at' \notin {"last", "idle"} => Finish'
  <2>1. at' # "idle" => result' = "none"
    BY <1>0 DEF Steps
  <2> QED
    BY <2>1 DEF Finish
<1>1. CASE SendWake
  BY <1>1, <1>q DEF SendWake
<1>2. CASE WakeAnswered
  <2>1. \/ at' = "wake"
        \/ at' = AfterPart(part) /\ line' = line /\ result' = result
        \/ at' = "idle" /\ result' = "no_monitor"
    BY <1>2 DEF WakeAnswered, Goto, Exit
  <2>2. line = 1 /\ result = "none"
    BY <1>2 DEF WakeAnswered, Steps
  <2> QED
    BY <1>q, <2>1, <2>2 DEF AfterPart, Finish
<1>3. CASE SendLoad
  BY <1>3, <1>q DEF SendLoad, Goto
<1>4. CASE LoadAnswered
  BY <1>4, <1>q DEF LoadAnswered, Goto, Exit, Finish
<1>5. CASE SendLine
  BY <1>5, <1>q DEF SendLine, Goto
<1>6. CASE SendDot
  BY <1>6, <1>q DEF SendDot, Goto
<1>7. CASE DotAnswered
  <2>1. \/ at' \in {"load", "last"} /\ line' = 1 /\ result' = result
        \/ at' = "idle" /\ result' = "refused"
    BY <1>7 DEF DotAnswered, Goto, Exit, AfterPart
  <2>2. result = "none"
    BY <1>7 DEF DotAnswered, Steps
  <2> QED
    BY <2>1, <2>2 DEF Finish
<1>8. CASE SendLast
  <2>1. /\ at = "last" /\ Quiet /\ at' = "last" /\ line' = line + 1 /\ line <= Len(job.last)
        /\ wire' = job.last[line]
        /\ UNCHANGED <<job, st, cmd, cpu, result, jumps, lost, found>> /\ result = "none"
    BY <1>8 DEF SendLast, Goto, Send, board, mon, history, Steps
  <2>2. CleanHyp
    BY <2>1 DEF CleanHyp, Uploads
  <2>3. /\ line = 1 => st = "cmd" /\ cmd = "none"
        /\ line = 2 => st = "off" /\ cpu = Ending
        /\ Len(job.last) \in 0..2 /\ line \in 1..3
    BY <2>1, <2>2, Finished
  <2>4. CASE line = 1
    <3>1. line' = 2 /\ wire' = job.last[1] /\ job' = job
      BY <2>1, <2>4
    <3>2. Gone(job.last[1])' = 0
      <4>1. job.last[1] \in Seq(Char)
        <5>1. Len(job.last) \in Nat /\ (\A i \in 1..Len(job.last) : job.last[i] \in Seq(Char))
          BY Place
        <5>2. 1 \in 1..Len(job.last)
          BY ONLY <2>1, <2>4, <5>1
        <5> QED
          BY <5>1, <5>2
      <4>2. Len(job.last[1]) \in Nat
        BY <4>1
      <4>3. \A n \in Nat : n - n = 0
        OBVIOUS
      <4> QED
        BY <3>1, <4>2, <4>3 DEF Gone
    <3>3. CleanLast(0)'
      BY <2>1, <2>3, <2>4 DEF CleanLast
    <3> QED
      BY <2>1, <3>1, <3>2, <3>3 DEF Finish
  <2>5. CASE line = 2
    <3>1. line' = 3 /\ Ending' = Ending
      BY <2>1, <2>5 DEF Ending
    <3> QED
      BY <2>1, <2>3, <2>5, <3>1 DEF Finish
  <2>6. line # 3
    BY ONLY <2>1, <2>3
  <2> QED
    BY <2>3, <2>4, <2>5, <2>6
<1>9. CASE Complete
  <2>1. /\ at = "last" /\ Quiet /\ line > Len(job.last) /\ at' = "idle"
        /\ UNCHANGED <<job, cpu, jumps, lost, found>>
    BY <1>9 DEF Complete, Exit, Hear, board
  <2>2. CleanHyp
    BY <2>1 DEF CleanHyp, Uploads
  <2>3. cpu = Ending
    BY <2>1, <2>2, Finished
  <2>4. cpu' = Ending'
    BY <2>1, <2>3 DEF Ending
  <2> QED
    BY <2>1, <2>4 DEF Finish
<1>10. CASE Take
  <2>1. CleanHyp
    BY <1>10 DEF Take, pc, CleanHyp, Uploads
  <2> QED
    BY <1>10, <2>1, FinishTake
<1>11. CASE Emitted
  <2>1. /\ st = "emit" /\ UNCHANGED <<job, at, line, result, wire, jumps, cpu, cmd, lost, found, nibs, addr>>
    BY <1>11, EmittedHeard DEF history
  <2>2. CleanHyp /\ Ending' = Ending
    BY <2>1 DEF CleanHyp, Uploads, Ending
  <2>3. result # "complete"
    BY <2>1 DEF Steps, Quiet
  <2>4. ~(at = "last" /\ line = 3)
    BY <2>1, <2>2 DEF Finish
  <2>5. ~(at = "last" /\ line = 2)
    BY <2>1, <2>2 DEF Finish, CleanLast, Came
  <2> QED
    BY <2>1, <2>3, <2>4, <2>5 DEF Finish
<1>12. CASE Lose
  BY <1>12 DEF Lose, CleanHyp
<1>13. ASSUME NEW j \in Jobs[jumps], Start(j) PROVE Finish'
  BY <1>13 DEF Start, Finish
<1>14. ASSUME NEW n \in 0..Len(wire), Kill(n) PROVE Finish'
  BY <1>14 DEF Kill, Exit, Finish
<1>15. CASE UNCHANGED vars
  <2>1. /\ UNCHANGED <<job, at, line, result, wire, jumps, cpu, st, cmd, lost, found, nibs, addr>>
    BY <1>15 DEF vars, pc, history, board, mon
  <2>2. CleanHyp /\ Ending' = Ending /\ Gone(job.last[1])' = Gone(job.last[1])
    BY <2>1 DEF CleanHyp, Uploads, Ending, Gone
  <2>3. PICK x : x = Gone(job.last[1])
    OBVIOUS
  <2>4. CleanLast(x) => CleanLast(x)'
    BY <2>1, <2>2 DEF CleanLast, Came
  <2> QED
    BY <2>1, <2>2, <2>3, <2>4 DEF Finish
<1> QED
  BY <1>1, <1>2, <1>3, <1>4, <1>5, <1>6, <1>7, <1>8, <1>9, <1>10, <1>11, <1>12, <1>13, <1>14, <1>15
     DEF Next, PcMoves, BoardMoves

-----------------------------------------------------------------------------
(* What is in memory. *)

\* The parts of a job that uploads.
LEMMA PartsOf ==
  ASSUME Steps, Uploads
  PROVE  /\ Parts \in Seq(PartSet) /\ Len(Parts) \in Nat /\ Len(Parts) >= 1 /\ DOMAIN Parts = 1..Len(Parts)
         /\ \A i \in DOMAIN Parts :
              /\ i \in Nat /\ Parts[i].addr \in 0..(RAMEnd - 1) /\ Parts[i].data \in Seq(Byte)
              /\ Len(Parts[i].data) \in Nat /\ DOMAIN Parts[i].data = 1..Len(Parts[i].data)
              /\ JobsFit => Parts[i].addr + Len(Parts[i].data) <= RAMEnd
<1>1. jumps \in Boards /\ job \in Jobs[jumps] /\ job.tool \in {"c64", "hex", "plain"}
  BY DEF Steps, Uploads
<1>2. /\ Parts \in Seq(PartSet) /\ Len(Parts) \in Nat /\ Parts # <<>> /\ DOMAIN Parts = 1..Len(Parts)
      /\ \A i \in 1..Len(Parts) : /\ Parts[i].addr \in 0..(RAMEnd - 1)
                                  /\ Parts[i].data \in Seq(Byte)
                                  /\ Len(Parts[i].data) \in Nat
  BY <1>1, JobOf DEF Parts
<1>3. Len(Parts) >= 1
  BY <1>2
<1>4. \A i \in DOMAIN Parts : JobsFit => Parts[i].addr + Len(Parts[i].data) <= RAMEnd
  BY <1>1 DEF JobsFit, Parts
<1>5. \A i \in DOMAIN Parts : DOMAIN Parts[i].data = 1..Len(Parts[i].data)
  BY <1>2
<1>6. \A i \in DOMAIN Parts : i \in Nat
  BY <1>2
<1> QED
  BY <1>2, <1>3, <1>4, <1>5, <1>6

LEMMA StoredKept ==
  ASSUME UNCHANGED <<job, memory>>
  PROVE  \A p, w : Stored(p, w)' <=> Stored(p, w)
BY DEF Stored, At, Parts

LEMMA StoredFirst ==
  ASSUME Steps, Uploads
  PROVE  Stored(1, 0)
<1> SUFFICES ASSUME NEW i \in DOMAIN Parts, NEW k \in DOMAIN Parts[i].data PROVE ~Done(1, 0, i, k)
  BY DEF Stored
<1>1. i \in 1..Len(Parts) /\ k \in 1..Len(Parts[i].data) /\ Len(Parts) \in Nat /\ Len(Parts[i].data) \in Nat
  BY PartsOf
<1>2. i \in Nat /\ k \in Nat /\ i >= 1 /\ k >= 1
  BY ONLY <1>1
<1> QED
  BY ONLY <1>2 DEF Done

\* The places that count as done are the same: so is what is stored.
LEMMA StoredSame ==
  ASSUME NEW p, NEW w, NEW q, NEW v, Stored(p, w),
         \A i \in DOMAIN Parts : \A k \in DOMAIN Parts[i].data : Done(p, w, i, k) <=> Done(q, v, i, k)
  PROVE  Stored(q, v)
BY DEF Stored

LEMMA StoredPart ==
  ASSUME Steps, Uploads, NEW p \in 1..Len(Parts), Stored(p, Len(Parts[p].data))
  PROVE  Stored(p + 1, 0)
<1>1. ASSUME NEW i \in DOMAIN Parts, NEW k \in DOMAIN Parts[i].data
      PROVE  Done(p, Len(Parts[p].data), i, k) <=> Done(p + 1, 0, i, k)
  <2>1. /\ i \in Nat /\ k \in 1..Len(Parts[i].data) /\ Len(Parts) \in Nat /\ Len(Parts[i].data) \in Nat
    BY PartsOf
  <2>2. p \in Nat /\ k \in Nat /\ k >= 1 /\ k <= Len(Parts[i].data)
    BY ONLY <2>1, p \in 1..Len(Parts)
  <2>3. CASE i = p
    BY ONLY <2>1, <2>2, <2>3 DEF Done
  <2>4. CASE i # p
    BY ONLY <2>1, <2>2, <2>4 DEF Done
  <2> QED
    BY <2>3, <2>4
<1> QED
  BY <1>1, StoredSame

LEMMA StoredEnd ==
  ASSUME Steps, Uploads, NEW p \in Nat, p > Len(Parts), Stored(p, 0)
  PROVE  Stored(Len(Parts) + 1, 0)
<1>1. ASSUME NEW i \in DOMAIN Parts, NEW k \in DOMAIN Parts[i].data
      PROVE  Done(p, 0, i, k) <=> Done(Len(Parts) + 1, 0, i, k)
  <2>1. i \in 1..Len(Parts) /\ Len(Parts) \in Nat
    BY PartsOf
  <2>2. i < p /\ i < Len(Parts) + 1
    BY ONLY <2>1, p \in Nat, p > Len(Parts)
  <2> QED
    BY ONLY <2>2 DEF Done
<1> QED
  BY <1>1, StoredSame

\* One more byte of a part.
LEMMA StoredMore ==
  ASSUME Steps, Uploads, NEW p \in 1..Len(Parts), NEW w \in Nat, w < Len(Parts[p].data),
         Stored(p, w), UNCHANGED job,
         NEW a, a = Parts[p].addr + w,
         memory' = [b \in DOMAIN memory \cup {a} |-> IF b = a THEN Parts[p].data[w + 1] ELSE memory[b]]
  PROVE  Stored(p, w + 1)'
<1> DEFINE S(i, k) == At(i, k) \in DOMAIN memory' /\ memory'[At(i, k)] = Parts[i].data[k]
           Later(i, k, n) == \E j \in DOMAIN Parts : \E l \in DOMAIN Parts[j].data :
                               j > i /\ Done(p, n, j, l) /\ At(j, l) = At(i, k)
<1>1. ASSUME NEW i \in DOMAIN Parts, NEW k \in DOMAIN Parts[i].data, Done(p, w + 1, i, k)
      PROVE  Later(i, k, w + 1) \/ S(i, k)
  <2>1. /\ i \in Nat /\ k \in Nat /\ k >= 1 /\ p \in Nat /\ Parts[i].addr \in Int /\ Parts[p].addr \in Int
        /\ p \in DOMAIN Parts /\ w + 1 \in DOMAIN Parts[p].data
    <3>1. /\ DOMAIN Parts = 1..Len(Parts) /\ i \in Nat /\ Len(Parts) \in Nat
          /\ DOMAIN Parts[i].data = 1..Len(Parts[i].data) /\ Len(Parts[i].data) \in Nat
          /\ Parts[i].addr \in 0..(RAMEnd - 1)
      BY PartsOf
    <3>2. /\ DOMAIN Parts[p].data = 1..Len(Parts[p].data) /\ Len(Parts[p].data) \in Nat
          /\ Parts[p].addr \in 0..(RAMEnd - 1)
      BY <3>1, PartsOf
    <3>3. w + 1 \in 1..Len(Parts[p].data)
      BY ONLY <3>2, w \in Nat, w < Len(Parts[p].data)
    <3>4. Parts[i].addr \in Int /\ Parts[p].addr \in Int
      BY ONLY <3>1, <3>2
    <3>5. k \in Nat /\ k >= 1
      BY ONLY <3>1, k \in DOMAIN Parts[i].data
    <3> QED
      BY <3>1, <3>2, <3>3, <3>4, <3>5
  <2>2. At(i, k) = Parts[i].addr + k - 1 /\ At(p, w + 1) = a
    <3>1. Parts[p].addr + (w + 1) - 1 = Parts[p].addr + w
      BY ONLY <2>1, w \in Nat
    <3> QED
      BY <3>1 DEF At
  <2>3. CASE At(i, k) = a /\ i = p
    <3>1. k = w + 1
      BY ONLY <2>1, <2>2, <2>3, a = Parts[p].addr + w, w \in Nat
    <3> QED
      BY <2>3, <3>1
  <2>4. CASE At(i, k) = a /\ i # p
    <3>1. p > i
      BY ONLY <1>1, <2>1, <2>4, w \in Nat DEF Done
    <3>2. Done(p, w + 1, p, w + 1)
      <4>1. w + 1 <= w + 1
        OBVIOUS
      <4> QED
        BY ONLY <4>1 DEF Done
    <3> QED
      BY <2>1, <2>2, <2>4, <3>1, <3>2
  <2>5. CASE At(i, k) # a
    <3>1. Done(p, w, i, k)
      <4>1. CASE i = p
        <5>1. k # w + 1
          BY <2>2, <2>5, <4>1
        <5>2. k <= w
          BY ONLY <1>1, <2>1, <4>1, <5>1, w \in Nat DEF Done
        <5> QED
          BY ONLY <4>1, <5>2 DEF Done
      <4>2. CASE i # p
        BY ONLY <1>1, <4>2 DEF Done
      <4> QED
        BY <4>1, <4>2
    <3>2. CASE Later(i, k, w)
      <4>0. PICK j \in DOMAIN Parts : \E l \in DOMAIN Parts[j].data :
              j > i /\ Done(p, w, j, l) /\ At(j, l) = At(i, k)
        BY <3>2
      <4>1. PICK l \in DOMAIN Parts[j].data :
              j > i /\ Done(p, w, j, l) /\ At(j, l) = At(i, k)
        BY <4>0
      <4>2. j \in Nat /\ l \in Nat
        <5>1. j \in Nat /\ DOMAIN Parts[j].data = 1..Len(Parts[j].data)
          BY PartsOf
        <5> QED
          BY ONLY <5>1, l \in DOMAIN Parts[j].data
      <4>3. Done(p, w + 1, j, l)
        BY ONLY <2>1, <4>1, <4>2, w \in Nat DEF Done
      <4> QED
        BY <4>1, <4>3
    <3>3. CASE ~Later(i, k, w)
      <4>1. At(i, k) \in DOMAIN memory /\ memory[At(i, k)] = Parts[i].data[k]
        BY <3>1, <3>3 DEF Stored
      <4> QED
        BY <2>5, <4>1
    <3> QED
      BY <3>2, <3>3
  <2> QED
    BY <2>3, <2>4, <2>5
<1>2. Parts' = Parts
  BY DEF Parts
<1>3. (\A i \in DOMAIN Parts : \A k \in DOMAIN Parts[i].data :
         ~Done(p, w + 1, i, k) \/ Later(i, k, w + 1) \/ S(i, k))
  BY <1>1
<1> QED
  BY ONLY <1>3, <1>2 DEF Stored, At, Done

-----------------------------------------------------------------------------
(* An upload that goes on only where the monitor writes its bytes. *)

LEMMA NoneStays ==
  ASSUME MonitorShape, cmd = "none", NEW c \in Char, Read(c), c[1] \notin {"L", "M", "G"}
  PROVE  cmd' = "none"
BY DEF Read, Match, Letter, Digit, Skip, OpenLoad, DumpRange, LetGo, Nibble, CloseLoad, Reject, Deaf, Say, mon

LEMMA StoredStart ==
  ASSUME Steps', Uploads'
  PROVE  Stored(1, 0)'
<1> SUFFICES ASSUME NEW i \in DOMAIN Parts', NEW k \in DOMAIN Parts'[i].data PROVE ~Done(1, 0, i, k)
  BY DEF Stored, Done, At
<1>0. PICK b \in Boards : \E j \in Jobs[b] : j = job' /\ j.tool \in {"c64", "hex", "plain"}
  BY DEF Steps, Uploads
<1>1. PICK j \in Jobs[b] : j = job' /\ j.tool \in {"c64", "hex", "plain"}
  BY <1>0
<1>2. Parts' = j.parts
  BY <1>1 DEF Parts
<1>3. /\ j.parts \in Seq(PartSet) /\ Len(j.parts) \in Nat
      /\ \A l \in 1..Len(j.parts) : j.parts[l].data \in Seq(Byte) /\ Len(j.parts[l].data) \in Nat
  BY JobOf
<1>4. i \in 1..Len(j.parts) /\ k \in 1..Len(j.parts[i].data)
  BY <1>2, <1>3
<1>5. i \in Nat /\ k \in Nat /\ i >= 1 /\ k >= 1
  BY ONLY <1>3, <1>4
<1> QED
  BY ONLY <1>5 DEF Done

LEMMA FaithLoadKept ==
  ASSUME UNCHANGED <<job, part, memory, cmd, nibs, addr, hi>>, Mode' = Mode, Said(">")' <=> Said(">"),
         NEW x, FaithLoading(x)
  PROVE  FaithLoading(x)'
<1>1. PICK p : p = part
  OBVIOUS
<1>2. Stored(p, 0)' <=> Stored(p, 0)
  BY StoredKept
<1>3. Stored(part, 0)' <=> Stored(part, 0)
  BY <1>1, <1>2
<1>4. Addr' = Addr
  BY DEF Addr, Parts
<1>5. Typed(Addr, x)' <=> Typed(Addr, x)
  BY <1>4 DEF Typed
<1>6. Ready(Addr)' <=> Ready(Addr)
  BY <1>4 DEF Ready
<1> QED
  BY <1>3, <1>5, <1>6 DEF FaithLoading

LEMMA FaithLoadLose ==
  ASSUME Shape, Steps, Sending, at = "loading", Lose, NEW x, x = Gone(LoadCommand(Addr)),
         FaithLoading(x)
  PROVE  FaithLoading(x + 1)'
<1>1. wire # <<>> /\ wire' = Tail(wire) /\ UNCHANGED <<job, at, part, line, rx, mon, memory>>
  BY DEF Lose, pc, board
<1>2. x \in 0..6
  BY <1>1, LoadHead
<1>3. Mode' = Mode /\ (Said(">")' <=> Said(">"))
  BY <1>1, HeardKept
<1>4. nibs \in 0..8
  BY DEF Shape, MonitorShape
<1>5. FaithLoading(x + 1)
  <2>1. CASE job.tool = "c64" /\ ~Said(">") /\ Mode \in {"off", "load"}
    BY <2>1 DEF FaithLoading
  <2>2. CASE /\ Stored(part, 0) /\ ~Said(">") /\ Mode = "cmd" /\ cmd \in {"none", "L"}
             /\ cmd = "L" => Typed(Addr, x)
    <3>1. ASSUME cmd = "L" PROVE Typed(Addr, x + 1)
      <4> DEFINE d == Digs(x)
                 e == Digs(x + 1)
      <4>1. /\ d \in 0..4 /\ e \in 0..4 /\ d <= e /\ nibs <= d /\ (nibs = d => addr = Prefix(Addr, nibs))
        BY <1>2, <2>2, <3>1, DigsMore DEF Typed
      <4> HIDE DEF d, e
      <4>2. nibs <= e /\ (nibs = e => addr = Prefix(Addr, nibs))
        BY ONLY <1>4, <4>1
      <4> QED
        BY <4>2 DEF Typed, e
    <3> QED
      BY <2>2, <3>1 DEF FaithLoading
  <2> QED
    BY <1>2, <2>1, <2>2 DEF FaithLoading
<1> QED
  BY <1>1, <1>3, <1>5, FaithLoadKept DEF mon

\* A character of the command L comes in.
LEMMA FaithLoadTake ==
  ASSUME Shape, Steps, Sending, at = "loading", Take, NEW x, x = Gone(LoadCommand(Addr)),
         FaithLoading(x)
  PROVE  FaithLoading(x + 1)'
<1> DEFINE c == Head(wire)
           a == Addr
<1>1. /\ wire # <<>> /\ wire' = Tail(wire) /\ Read(c) /\ MonitorShape
      /\ UNCHANGED <<job, at, part, line, rx>>
  BY DEF Take, pc, Shape
<1>2. /\ x \in 0..6 /\ c \in Char /\ a \in 0..(RAMEnd - 1)
      /\ x = 0 => c = Ch("L")
      /\ x = 1 => c = Ch("sp")
      /\ x \in 2..5 => c = Hex(DigitOf(a, x - 1)) /\ DigitOf(a, x - 1) \in 0..15
      /\ x = 6 => c = CR
  BY <1>1, LoadHead
<1>3. /\ Addr' = a /\ a' = a
      /\ x = 0 => c[1] = "L"
      /\ x = 1 => c[1] = "sp"
      /\ x \in 2..5 => c[1] = "hex" /\ c[2] = DigitOf(a, x - 1)
      /\ x = 6 => c[1] = "cr"
      /\ x = 0 \/ x = 1 \/ x \in 2..5 \/ x = 6
  <2>1. x = 0 \/ x = 1 \/ x \in 2..5 \/ x = 6
    BY ONLY <1>2
  <2>2. Addr' = a /\ a' = a
    BY <1>1 DEF Addr, Parts
  <2> HIDE DEF a, c
  <2> QED
    BY <1>2, <2>1, <2>2, WakeTexts DEF CR
<1> HIDE DEF a
<1>4. nibs \in 0..8 /\ x + 1 # 0 /\ x # 7 /\ c[1] \in {"L", "sp", "hex", "cr"}
  <2>1. nibs \in 0..8 /\ x + 1 # 0 /\ x # 7
    BY <1>1, <1>2 DEF MonitorShape
  <2>2. c[1] \in {"L", "sp", "hex", "cr"}
    BY ONLY <1>3
  <2> QED
    BY <2>1, <2>2
<1>5. CASE job.tool = "c64" /\ ~Said(">") /\ Mode \in {"off", "load"}
  <2>1. CASE Mode = "load"
    BY <1>1, <1>2, <1>4, <1>5, <2>1, StaysLoading DEF FaithLoading
  <2>2. CASE Mode = "off"
    <3>1. st = "off"
      BY <1>1, <2>2 DEF Mode, MonitorShape
    <3>2. UNCHANGED <<st, msg>>
      BY <1>1, <1>2, <1>4, <3>1, ReadOff
    <3>3. ~Said(">")' /\ Mode' = "off"
      BY <1>1, <1>5, <3>1, <3>2 DEF Said, In, Mode
    <3> QED
      BY <1>1, <1>5, <3>3 DEF FaithLoading
  <2> QED
    BY <1>5, <2>1, <2>2
<1>6. CASE /\ Stored(part, 0) /\ ~Said(">") /\ Mode = "cmd" /\ cmd \in {"none", "L"}
           /\ cmd = "L" => Typed(a, x)
  <2>1. Stored(part, 0)'
    <3>1. PICK p : p = part
      OBVIOUS
    <3>2. UNCHANGED memory
      BY <1>1, <1>6, NoWrite
    <3>3. Stored(p, 0)' <=> Stored(p, 0)
      BY <1>1, <3>2, StoredKept
    <3> QED
      BY <1>1, <1>6, <3>1, <3>3
  <2>2. ASSUME Said(">")' <=> Said(">"), Mode' = "cmd", cmd' \in {"none", "L"}, cmd' = "L" => Typed(a, x + 1)'
        PROVE  FaithLoading(x + 1)'
    BY <1>3, <1>6, <2>1, <2>2 DEF FaithLoading
  <2>3. ASSUME UNCHANGED mon, cmd = "L" => Typed(a, x + 1)
        PROVE  FaithLoading(x + 1)'
    <3>1. Mode' = Mode /\ (Said(">")' <=> Said(">"))
      BY <1>1, <2>3, HeardKept
    <3>2. Typed(a, x + 1)' <=> Typed(a, x + 1)
      BY <1>3, <2>3 DEF Typed, mon
    <3> QED
      BY <1>6, <2>2, <2>3, <3>1, <3>2 DEF mon
  <2>4. CASE st = "emit"
    <3>1. UNCHANGED mon /\ cmd = "none"
      BY <1>1, <1>2, <2>4, ReadEmit DEF MonitorShape
    <3> QED
      BY <2>3, <3>1
  <2>5. CASE st # "emit"
    <3>0. st = "cmd" /\ msg = <<>>
      BY <1>1, <1>6, <2>5 DEF Mode, MonitorShape
    <3>1. ASSUME Reject(c) PROVE FaithLoading(x + 1)'
      <4>1. Say(Error, "cmd") /\ ~In(">", Error)
        BY <3>0, <3>1, FiveTexts, MessageTexts DEF Reject
      <4>2. Mode' = "cmd" /\ cmd' = "none" /\ (Said(">")' <=> Said(">"))
        BY <1>1, <3>0, <4>1, FiveTexts, SaidHeard
      <4> QED
        BY <2>2, <4>2
    <3>2. CASE cmd = "none"
      <4>1. CASE x = 0
        <5>1. Letter(c)
          BY <1>1, <1>2, <1>3, <3>0, <3>2, <4>1, ReadMark
        <5>2. st' = "cmd" /\ cmd' = "L" /\ nibs' = 0 /\ addr' = 0 /\ msg' = msg
          BY <1>3, <3>0, <4>1, <5>1 DEF Letter
        <5>3. x + 1 = 1 /\ Digs(1) = 0 /\ Prefix(a, 0) = 0
          BY <1>2, <4>1, DigsStep, PrefixStep DEF a
        <5>4. Typed(a, 1)'
          BY <1>3, <5>2, <5>3 DEF Typed
        <5>5. (Said(">")' <=> Said(">")) /\ Mode' = "cmd"
          BY <1>1, <5>2 DEF Said, In, Mode
        <5> QED
          BY <2>2, <5>2, <5>3, <5>4, <5>5
      <4>2. CASE x = 1 \/ x = 6
        <5>1. UNCHANGED mon
          BY <1>1, <1>2, <1>3, <3>0, <3>2, <4>2, ReadSpace DEF Space
        <5> QED
          BY <2>3, <3>2, <5>1
      <4>3. CASE x \in 2..5
        <5>1. Reject(c)
          BY <1>1, <1>2, <1>3, <3>0, <3>2, <4>3, ReadHex
        <5> QED
          BY <3>1, <5>1
      <4> QED
        BY <1>3, <4>1, <4>2, <4>3
    <3>3. CASE cmd = "L"
      <4>1. /\ nibs <= Digs(x) /\ (nibs = Digs(x) => addr = Prefix(a, nibs)) /\ Most = 4
        BY <1>6, <3>3 DEF Typed, Most
      <4>2. CASE x = 0
        <5>1. Reject(c)
          BY <1>1, <1>2, <1>3, <3>0, <3>3, <4>2, ReadMark
        <5> QED
          BY <3>1, <5>1
      <4>3. CASE x = 1
        <5>1. Digs(1) = 0 /\ Digs(2) = 0 /\ x + 1 = 2
          BY <4>3, DigsStep
        <5>2. nibs = 0
          BY ONLY <1>4, <4>1, <4>3, <5>1
        <5>3. UNCHANGED mon
          BY <1>1, <1>2, <1>3, <3>0, <3>3, <4>3, <5>2, ReadSpace DEF Space
        <5>4. Typed(a, 2)
          BY <4>1, <4>3, <5>1, <5>2 DEF Typed
        <5> QED
          BY <2>3, <5>1, <5>3, <5>4
      <4>4. CASE x \in 2..5
        <5>1. Digs(x) = x - 2 /\ Digs(x + 1) = x - 1
          BY <4>4, DigsStep
        <5>2. nibs \in 0..3 /\ nibs < Most
          BY ONLY <1>4, <4>1, <4>4, <5>1
        <5>3. Digit(c)
          BY <1>1, <1>2, <1>3, <3>0, <3>3, <4>4, <5>2, ReadHex
        <5>4. /\ nibs' = nibs + 1 /\ addr' = (16 * addr + c[2]) % RAMEnd
              /\ UNCHANGED <<st, cmd, msg>>
          BY <5>2, <5>3 DEF Digit
        <5>5. nibs' <= Digs(x + 1) /\ (nibs' = Digs(x + 1) => nibs = Digs(x) /\ nibs + 1 = x - 1)
          BY ONLY <1>4, <4>1, <4>4, <5>1, <5>2, <5>4
        <5>6. ASSUME nibs' = Digs(x + 1) PROVE addr' = Prefix(a, nibs')
          <6>1. addr = Prefix(a, nibs) /\ c[2] = DigitOf(a, nibs + 1)
            BY <1>3, <4>1, <4>4, <5>5, <5>6
          <6>2. (16 * Prefix(a, nibs) + DigitOf(a, nibs + 1)) % RAMEnd = Prefix(a, nibs + 1)
            BY <1>2, <5>2, PrefixStep DEF a
          <6> QED
            BY ONLY <5>4, <6>1, <6>2
        <5>7. Typed(a, x + 1)'
          BY <1>3, <5>5, <5>6 DEF Typed
        <5>8. (Said(">")' <=> Said(">")) /\ Mode' = "cmd" /\ cmd' = "L"
          BY <1>1, <3>0, <3>3, <5>4 DEF Said, In, Mode
        <5> QED
          BY <2>2, <5>7, <5>8
      <4>5. CASE x = 6
        <5>1. Digs(6) = 4 /\ Digs(7) = 4 /\ x + 1 = 7 /\ c = CR /\ Space(c)
          BY <1>2, <1>3, <4>5, DigsStep DEF Space
        <5>2. CASE nibs = 0
          <6>1. UNCHANGED mon
            BY <1>1, <1>2, <3>0, <3>3, <5>1, <5>2, ReadSpace
          <6>2. Typed(a, 7)
            BY <5>1, <5>2 DEF Typed
          <6> QED
            BY <2>3, <5>1, <6>1, <6>2
        <5>3. CASE nibs = 4
          <6>1. OpenLoad(c)
            BY <1>1, <1>2, <3>0, <3>3, <5>1, <5>3, ReadSpace
          <6>2. addr = a
            BY <1>2, <4>1, <4>5, <5>1, <5>3, PrefixStep DEF a
          <6>3. Ready(a)'
            BY <1>3, <6>1, <6>2 DEF OpenLoad, Say, Ready, Mode
          <6> QED
            BY <1>3, <2>1, <5>1, <6>3 DEF FaithLoading
        <5>4. CASE nibs \notin {0, 4}
          <6>1. Reject(c)
            BY <1>1, <1>2, <3>0, <3>3, <5>1, <5>4, ReadSpace
          <6> QED
            BY <3>1, <6>1
        <5> QED
          BY <5>2, <5>3, <5>4
      <4> QED
        BY <1>3, <4>2, <4>3, <4>4, <4>5
    <3> QED
      BY <1>6, <3>2, <3>3
  <2> QED
    BY <2>4, <2>5
<1> QED
  BY <1>4, <1>5, <1>6 DEF FaithLoading, a

\* A character of data, three of them to a byte.
LEMMA Thirds ==
  ASSUME NEW x \in Nat
  PROVE  \E q \in Nat :
           /\ (x + 1) \div 3 \in Nat
           /\ \/ /\ x % 3 = 0 /\ x = 3 * q /\ (x + 1) \div 3 = q /\ ((x + 1) + 1) \div 3 = q
                 /\ ((x + 1) + 2) \div 3 = q + 1 /\ (x + 1) % 3 = 1
              \/ /\ x % 3 = 1 /\ x = 3 * q + 1 /\ (x + 1) \div 3 = q /\ ((x + 1) + 1) \div 3 = q + 1
                 /\ ((x + 1) + 2) \div 3 = q + 1 /\ (x + 1) % 3 = 2
              \/ /\ x % 3 = 2 /\ x = 3 * q + 2 /\ (x + 1) \div 3 = q + 1 /\ ((x + 1) + 1) \div 3 = q + 1
                 /\ (x + 1) % 3 = 0
<1> DEFINE q == x \div 3
<1>1. /\ q \in Nat
      /\ \/ x % 3 = 0 /\ x = 3 * q
         \/ x % 3 = 1 /\ x = 3 * q + 1
         \/ x % 3 = 2 /\ x = 3 * q + 2
  OBVIOUS
<1> HIDE DEF q
<1>2. CASE x % 3 = 0 /\ x = 3 * q
  BY ONLY <1>1, <1>2
<1>3. CASE x % 3 = 1 /\ x = 3 * q + 1
  BY ONLY <1>1, <1>3
<1>4. CASE x % 3 = 2 /\ x = 3 * q + 2
  BY ONLY <1>1, <1>4
<1> QED
  BY ONLY <1>1, <1>2, <1>3, <1>4

LEMMA FaithDataTake ==
  ASSUME Shape, Steps, JobsFit, Uploads, part <= Len(Parts), Take, NEW x \in Nat, x < 3 * Size,
         IsData(x + 1, Head(wire)), FaithLines(x)
  PROVE  FaithLines(x + 1)'
<1> DEFINE c == Head(wire)
           a == Addr
           d == Parts[part].data
<1>1. /\ Read(c) /\ Write(c) /\ MonitorShape /\ wire # <<>> /\ UNCHANGED <<job, at, part, line>>
  BY DEF Take, pc, Shape
<1>2. /\ Addr' = a /\ d' = d /\ Size \in Nat /\ a \in 0..(RAMEnd - 1) /\ part \in 1..Len(Parts)
      /\ Parts[part].addr = a /\ Len(d) = Size /\ d \in Seq(Byte) /\ a + Size <= RAMEnd /\ RAMEnd \in Nat
  <2>1. Addr' = a /\ d' = d /\ Size \in Nat /\ a \in 0..(RAMEnd - 1) /\ part \in 1..Len(Parts)
        /\ Parts[part].addr = a /\ Len(d) = Size /\ d \in Seq(Byte)
    BY <1>1, Place DEF Addr, Size, Parts
  <2>2. a + Size <= RAMEnd
    BY <2>1, PartsOf
  <2>3. RAMEnd \in Nat
    BY EndIs
  <2> QED
    BY <2>1, <2>2, <2>3
<1>3. c \in Char /\ hi \in {NoCall} \cup 0..15 /\ NoCall \notin 0..15
  <2>1. c \in Char
    BY <1>1, WireTail DEF Shape, Take
  <2> QED
    BY <1>1, <2>1 DEF MonitorShape, NoCall
<1> DEFINE w == (x + 1) \div 3
<1>4. /\ st = "load" /\ addr = (a + w) % RAMEnd /\ Stored(part, w)
      /\ hi = IF x % 3 = 1 THEN d[w + 1] \div 16 ELSE NoCall
  BY DEF FaithLines
<1>5. /\ (x + 1) % 3 = 1 => c = Hex(d[((x + 1) + 2) \div 3] \div 16)
      /\ (x + 1) % 3 = 2 => c = Hex(d[((x + 1) + 2) \div 3] % 16)
      /\ (x + 1) % 3 = 0 => c \in {Ch("sp"), CR}
  BY DEF IsData
<1>6. /\ FaithLines(x + 1)' <=>
           /\ st' = "load" /\ addr' = (a + (((x + 1) + 1) \div 3)) % RAMEnd
           /\ Stored(part, ((x + 1) + 1) \div 3)'
           /\ hi' = IF (x + 1) % 3 = 1 THEN d[(((x + 1) + 1) \div 3) + 1] \div 16 ELSE NoCall
  BY <1>1, <1>2 DEF FaithLines
<1> HIDE DEF c, a, d
<1>7. PICK q \in Nat :
        \/ /\ x % 3 = 0 /\ x = 3 * q /\ w = q /\ ((x + 1) + 1) \div 3 = q
           /\ ((x + 1) + 2) \div 3 = q + 1 /\ (x + 1) % 3 = 1
        \/ /\ x % 3 = 1 /\ x = 3 * q + 1 /\ w = q /\ ((x + 1) + 1) \div 3 = q + 1
           /\ ((x + 1) + 2) \div 3 = q + 1 /\ (x + 1) % 3 = 2
        \/ /\ x % 3 = 2 /\ x = 3 * q + 2 /\ w = q + 1 /\ ((x + 1) + 1) \div 3 = q + 1
           /\ (x + 1) % 3 = 0
  BY Thirds
<1> HIDE DEF w
<1>8. PICK p : p = part
  OBVIOUS
<1>9. CASE /\ x % 3 = 0 /\ w = q /\ ((x + 1) + 1) \div 3 = q
           /\ ((x + 1) + 2) \div 3 = q + 1 /\ (x + 1) % 3 = 1
  <2>1. c = Hex(d[q + 1] \div 16) /\ c[1] = "hex" /\ c[2] = d[q + 1] \div 16 /\ hi = NoCall
        /\ Stored(p, q) /\ addr = (a + q) % RAMEnd
    <3>1. c = Hex(d[q + 1] \div 16)
      BY ONLY <1>5, <1>9
    <3>2. hi = NoCall /\ Stored(p, q) /\ addr = (a + q) % RAMEnd
      BY ONLY <1>4, <1>8, <1>9
    <3> QED
      BY <3>1, <3>2, WakeTexts
  <2>2. Nibble(c)
    BY <1>1, <1>3, <1>4, <2>1, ReadHex
  <2>3. hi' = d[q + 1] \div 16 /\ addr' = addr /\ st' = "load"
    BY <1>4, <2>1, <2>2 DEF Nibble
  <2>4. UNCHANGED memory
    BY <1>1, <2>1 DEF Write
  <2>5. Stored(p, q)'
    BY <1>1, <2>1, <2>4, StoredKept
  <2>6. Stored(part, q)'
    BY <1>1, <1>8, <2>5
  <2> DEFINE v == ((x + 1) + 1) \div 3
             m == (x + 1) % 3
  <2>7. v = q /\ m = 1
    BY ONLY <1>9
  <2>8. FaithLines(x + 1)' <=> st' = "load" /\ addr' = (a + v) % RAMEnd /\ Stored(part, v)'
                               /\ hi' = IF m = 1 THEN d[v + 1] \div 16 ELSE NoCall
    BY ONLY <1>6
  <2> HIDE DEF v, m
  <2> QED
    BY ONLY <2>1, <2>3, <2>6, <2>7, <2>8
<1>10. CASE /\ x % 3 = 1 /\ x = 3 * q + 1 /\ w = q /\ ((x + 1) + 1) \div 3 = q + 1
            /\ ((x + 1) + 2) \div 3 = q + 1 /\ (x + 1) % 3 = 2
  <2>0. q < Size /\ q + 1 \in 1..Len(d)
    <3>1. q < Size
      BY ONLY <1>2, <1>10, x < 3 * Size, q \in Nat
    <3> QED
      BY ONLY <1>2, <3>1, q \in Nat
  <2>1. c = Hex(d[q + 1] % 16) /\ c[1] = "hex" /\ c[2] = d[q + 1] % 16 /\ hi = d[q + 1] \div 16
        /\ Stored(p, q) /\ addr = (a + q) % RAMEnd
    <3>1. c = Hex(d[q + 1] % 16)
      BY ONLY <1>5, <1>10
    <3>2. hi = d[q + 1] \div 16 /\ Stored(p, q) /\ addr = (a + q) % RAMEnd
      BY ONLY <1>4, <1>8, <1>10
    <3> QED
      BY <3>1, <3>2, WakeTexts
  <2>2. hi # NoCall /\ 16 * hi + c[2] = d[q + 1]
    <3>1. d[q + 1] \in 0..255
      <4>1. d[q + 1] \in Byte
        BY ONLY <1>2, <2>0
      <4> QED
        BY ONLY <4>1 DEF Byte
    <3> DEFINE b == d[q + 1]
    <3>2. b \in 0..255 /\ hi = b \div 16 /\ c[2] = b % 16
      BY <2>1, <3>1
    <3> HIDE DEF b
    <3>3. b \div 16 \in 0..15 /\ 16 * (b \div 16) + (b % 16) = b
      BY ONLY <3>2
    <3> QED
      BY ONLY <1>3, <3>2, <3>3 DEF b
  <2>3. Nibble(c)
    BY <1>1, <1>3, <1>4, <2>1, ReadHex
  <2>4. hi' = NoCall /\ addr' = (addr + 1) % RAMEnd /\ st' = "load"
    BY <1>4, <2>2, <2>3 DEF Nibble
  <2>5. addr = a + q /\ addr + 1 = a + (q + 1)
    <3>1. a + q \in Nat /\ a + q < RAMEnd
      BY ONLY <1>2, <2>0, q \in Nat
    <3>2. (a + q) % RAMEnd = a + q
      BY ONLY <1>2, <3>1
    <3> QED
      BY ONLY <1>2, <2>1, <3>2, q \in Nat
  <2>6. memory' = [b \in DOMAIN memory \cup {addr} |-> IF b = addr THEN d[q + 1] ELSE memory[b]]
    BY <1>1, <1>4, <2>1, <2>2 DEF Write
  <2>7. Stored(p, q + 1)'
    <3>1. PICK r : r = addr
      OBVIOUS
    <3>2. /\ p \in 1..Len(Parts) /\ q < Len(Parts[p].data) /\ r = Parts[p].addr + q
          /\ memory' = [b \in DOMAIN memory \cup {r} |-> IF b = r THEN Parts[p].data[q + 1] ELSE memory[b]]
      BY <1>2, <1>8, <2>0, <2>5, <2>6, <3>1 DEF d
    <3> QED
      BY <1>1, <2>1, <3>2, StoredMore
  <2>8. Stored(part, q + 1)'
    BY <1>1, <1>8, <2>7
  <2> DEFINE v == ((x + 1) + 1) \div 3
             m == (x + 1) % 3
  <2>9. v = q + 1 /\ m # 1
    BY ONLY <1>10
  <2>10. FaithLines(x + 1)' <=> st' = "load" /\ addr' = (a + v) % RAMEnd /\ Stored(part, v)'
                               /\ hi' = IF m = 1 THEN d[v + 1] \div 16 ELSE NoCall
    BY ONLY <1>6
  <2> HIDE DEF v, m
  <2> QED
    BY ONLY <2>4, <2>5, <2>8, <2>9, <2>10
<1>11. CASE /\ x % 3 = 2 /\ w = q + 1 /\ ((x + 1) + 1) \div 3 = q + 1 /\ (x + 1) % 3 = 0
  <2>1. Space(c) /\ c[1] # "hex" /\ hi = NoCall /\ Stored(p, q + 1) /\ addr = (a + (q + 1)) % RAMEnd
    <3>1. c \in {Ch("sp"), CR}
      BY ONLY <1>5, <1>11
    <3>2. hi = NoCall /\ Stored(p, q + 1) /\ addr = (a + (q + 1)) % RAMEnd
      BY ONLY <1>4, <1>8, <1>11
    <3> QED
      BY <3>1, <3>2, WakeTexts DEF Space, CR
  <2>2. UNCHANGED mon
    BY <1>1, <1>3, <1>4, <2>1, ReadSpace
  <2>3. UNCHANGED memory
    BY <1>1, <2>1 DEF Write
  <2>4. Stored(p, q + 1)'
    BY <1>1, <2>1, <2>3, StoredKept
  <2>5. Stored(part, q + 1)' /\ st' = "load" /\ addr' = addr /\ hi' = NoCall
    BY <1>1, <1>4, <1>8, <2>1, <2>2, <2>4 DEF mon
  <2> DEFINE v == ((x + 1) + 1) \div 3
             m == (x + 1) % 3
  <2>6. v = q + 1 /\ m # 1
    BY ONLY <1>11
  <2>7. FaithLines(x + 1)' <=> st' = "load" /\ addr' = (a + v) % RAMEnd /\ Stored(part, v)'
                               /\ hi' = IF m = 1 THEN d[v + 1] \div 16 ELSE NoCall
    BY ONLY <1>6
  <2> HIDE DEF v, m
  <2> QED
    BY ONLY <2>1, <2>5, <2>6, <2>7
<1> QED
  BY ONLY <1>7, <1>9, <1>10, <1>11

LEMMA FaithInit == Init => Faith
BY DEF Init, Faith

LEMMA FaithBegins ==
  ASSUME Shape, Steps, Sending, Clean, Faith, FaithHyp, LoadAnswered, at' = "lines"
  PROVE  FaithLines(DataGone)'
<1>1. /\ at = "loading" /\ Quiet /\ line' = 1 /\ wire' = <<>> /\ wire = <<>>
      /\ UNCHANGED <<job, part, mon, st, cmd, nibs, addr, hi, ret, memory>>
      /\ (job.tool = "c64" => HasPrompt(rx, ">"))
  BY DEF LoadAnswered, Goto, Exit, Hear, Quiet, Sent, board, mon
<1>2. part <= Len(Parts) /\ Size \in Nat /\ Addr \in 0..(RAMEnd - 1) /\ Len(LoadCommand(Addr)) = 7 /\ Len(wire) = 0
  BY <1>1, Place DEF Steps
<1>3. Size' = Size /\ Addr' = Addr
  BY <1>1 DEF Size, Addr, Parts
<1>4. DataGone' = 0
  <2>1. (1 - 1) * BytesPerLine = 0
    BY PerLine
  <2>2. SentBytes' = 0
    BY ONLY <1>1, <1>2, <1>3, <2>1 DEF SentBytes, Lesser
  <2>3. Len(wire') = 0
    BY <1>1
  <2> QED
    BY ONLY <2>2, <2>3 DEF DataGone
<1>5. FaithLoading(7) /\ (CleanHyp => CleanLoading(7))
  BY <1>1, <1>2 DEF Faith, Clean, Gone
<1>6. Stored(part, 0) /\ Ready(Addr)
  <2>1. CASE job.tool = "c64"
    <3>1. rx \in Seq(Pieces) /\ Proper(rx)
      BY DEF Shape
    <3>2. Said(">")
      BY <1>1, <2>1, <3>1, Heard DEF Said
    <3> QED
      BY <1>5, <3>2 DEF FaithLoading
  <2>2. CASE job.tool # "c64"
    <3>1. Ready(Addr)
      BY <1>5, <2>2 DEF FaithHyp, CleanHyp, CleanLoading
    <3> QED
      BY <1>5, <2>2, <3>1 DEF FaithLoading
  <2> QED
    BY <2>1, <2>2
<1>7. st' = "load" /\ addr' = Addr /\ hi' = NoCall
  BY <1>1, <1>6 DEF Ready, Mode, Quiet
<1>8. Stored(part, 0)'
  <2>1. PICK p : p = part
    OBVIOUS
  <2>2. Stored(p, 0)'
    BY <1>1, <1>6, <2>1, StoredKept
  <2> QED
    BY <1>1, <2>1, <2>2
<1>9. (Addr + 0) % RAMEnd = Addr
  <2>0. RAMEnd \in Nat
    BY EndIs
  <2>1. Addr \in 0..(RAMEnd - 1) /\ RAMEnd \in Nat
    BY <1>2, <2>0
  <2>2. Addr + 0 = Addr /\ Addr % RAMEnd = Addr
    BY ONLY <2>1
  <2> QED
    BY ONLY <2>2
<1>10. (0 + 1) \div 3 = 0 /\ 0 % 3 # 1
  OBVIOUS
<1>11. FaithLines(0)'
  <2> DEFINE w == (0 + 1) \div 3
             m == 0 % 3
  <2>1. w = 0 /\ m # 1
    BY ONLY <1>10
  <2>2. FaithLines(0)' <=> st' = "load" /\ addr' = (Addr' + w) % RAMEnd /\ Stored(part, w)'
                           /\ hi' = IF m = 1 THEN Parts'[part'].data[w + 1] \div 16 ELSE NoCall
    BY DEF FaithLines
  <2> HIDE DEF w, m
  <2> QED
    BY ONLY <1>3, <1>7, <1>8, <1>9, <2>1, <2>2
<1> QED
  BY ONLY <1>4, <1>11

\* When the last lines go out, nothing writes any more.
LEMMA FaithLast ==
  ASSUME Shape, Steps, Sending, JobsFit, Clean, Finish, FaithHyp, at = "last", Take
  PROVE  UNCHANGED memory
<1>1. /\ Uploads /\ wire # <<>> /\ wire' = Tail(wire) /\ wire \in Seq(Char) /\ MonitorShape
      /\ line <= Len(job.last) + 1 /\ (line > 1 => Left(job.last[line - 1]))
      /\ line \in Nat \ {0} /\ line # 1
  BY DEF FaithHyp, Take, Shape, Sending, Steps
<1>2. /\ Len(job.last) \in 0..2
      /\ Len(job.last) >= 1 /\ job.tool = "c64" => job.last[1] = Release
      /\ Len(job.last) = 2 => job.tool # "c64"
  BY <1>1, FewLines
<1>3. line \in 2..3 /\ (line = 3 => Len(job.last) = 2) /\ (line = 2 => Len(job.last) >= 1)
  <2> DEFINE m == Len(job.last)
  <2>1. m \in 0..2 /\ line <= m + 1 /\ line \in Nat \ {0} /\ line # 1
    BY <1>1, <1>2
  <2> HIDE DEF m
  <2>2. line \in 2..3 /\ (line = 3 => m = 2) /\ (line = 2 => m >= 1)
    BY ONLY <2>1
  <2> QED
    BY <2>2 DEF m
<1>4. CASE job.tool = "c64"
  <2>1. line = 2 /\ Left(Release)
    <3>1. line = 2
      BY <1>2, <1>3, <1>4
    <3>2. line > 1 /\ line - 1 = 1
      BY ONLY <3>1
    <3> QED
      BY <1>1, <1>2, <1>3, <1>4, <3>1, <3>2
  <2>2. Head(wire)[1] \in {"G", "cr"}
    <3> DEFINE t == Release
    <3>1. t \in Seq(Char) /\ Len(t) = 2 /\ t[1] = Ch("G") /\ t[2] = CR /\ Left(t)
      BY <2>1, ReleaseChars
    <3> HIDE DEF t
    <3>2. Gone(t) \in 0..(Len(t) - 1) /\ Head(wire) = t[Gone(t) + 1]
      BY <1>1, <3>1, RestTail
    <3>3. Gone(t) = 0 \/ Gone(t) = 1
      BY ONLY <3>1, <3>2
    <3>4. Head(wire) \in {Ch("G"), CR}
      BY ONLY <3>1, <3>2, <3>3
    <3> QED
      BY <3>4, WakeTexts DEF CR
  <2> QED
    BY <1>1, <2>2, NoWrite
<1>5. CASE job.tool # "c64"
  <2>1. CleanHyp
    BY <1>5 DEF FaithHyp, CleanHyp
  <2>2. line = 3 => st = "off"
    BY <2>1 DEF Finish
  <2>3. line = 2 => st \in {"off", "cmd"}
    BY <2>1 DEF Finish, CleanLast, Came
  <2>4. st \in {"off", "cmd"}
    BY <1>3, <2>2, <2>3
  <2> QED
    BY <1>1, <2>4, NoWrite DEF Mode
<1> QED
  BY <1>4, <1>5

LEMMA FaithTake ==
  ASSUME Shape, Steps, Sending, JobsFit, Clean, Finish, Faith, FaithHyp, Take
  PROVE  Faith'
<1>1. /\ wire \in Seq(Char) /\ wire # <<>> /\ wire' = Tail(wire) /\ Read(Head(wire)) /\ MonitorShape
      /\ UNCHANGED <<job, at, part, line, rx, lost, result>> /\ Uploads /\ Head(wire) \in Char
  BY WireTail DEF Take, pc, Shape, FaithHyp
<1>2. result = "complete" => at # "last" /\ FALSE
  BY <1>1 DEF Steps, Quiet, Sent
<1>3. CASE at \in {"wake", "load"}
  BY <1>1, <1>3 DEF Steps, Quiet, Sent
<1>4. CASE at \in {"idle", "waking"}
  BY <1>1, <1>2, <1>4 DEF Faith
<1>5. CASE at = "loading"
  <2>1. PICK x : x = Gone(LoadCommand(Addr))
    OBVIOUS
  <2>2. FaithLoading(x)
    BY <1>5, <2>1 DEF Faith
  <2>3. FaithLoading(x + 1)'
    BY <1>5, <2>1, <2>2, FaithLoadTake
  <2>4. Gone(LoadCommand(Addr))' = x + 1
    <3>1. Addr' = Addr /\ Len(LoadCommand(Addr)) - Len(wire') = x + 1
      BY <1>1, <1>5, <2>1, LoadHead DEF Addr, Parts
    <3> QED
      BY <3>1 DEF Gone
  <2> QED
    BY <1>1, <1>2, <1>5, <2>3, <2>4 DEF Faith
<1>6. CASE at = "lines"
  <2>1. PICK x \in Nat : x = DataGone
    BY <1>6 DEF Sending
  <2>2. DataLeft(DataGone) /\ FaithLines(x) /\ part <= Len(Parts) /\ Size \in Nat /\ SentBytes \in Nat
    BY <1>6, <2>1, Place, Progress DEF Sending, Faith, Steps
  <2>3. DataGone' = x + 1 /\ x < 3 * Size /\ IsData(x + 1, Head(wire))
    BY <1>1, <2>1, <2>2, DataTail
  <2>4. FaithLines(x + 1)'
    BY <1>1, <2>2, <2>3, FaithDataTake
  <2> QED
    BY <1>1, <1>2, <1>6, <2>3, <2>4 DEF Faith
<1>7. CASE at = "dot"
  <2>1. Head(wire)[1] \in {".", "cr"}
    <3>1. /\ Len(wire) \in 1..2 /\ (Len(wire) = 2 => Head(wire) = Ch("."))
          /\ (Len(wire) = 1 => Head(wire) = CR)
      BY <1>1, <1>7, DotHead
    <3>2. Len(wire) = 1 \/ Len(wire) = 2
      BY ONLY <3>1
    <3> QED
      BY <3>1, <3>2, WakeTexts DEF CR
  <2>2. UNCHANGED memory
    BY <1>1, <2>1, NoWrite
  <2>3. cmd' = "none"
    BY <1>1, <1>7, <2>1, NoneStays DEF Faith
  <2>4. Stored(part + 1, 0)'
    <3>1. PICK p : p = part + 1
      OBVIOUS
    <3>2. Stored(p, 0)
      BY <1>7, <3>1 DEF Faith
    <3>3. Stored(p, 0)'
      BY <1>1, <2>2, <3>2, StoredKept
    <3> QED
      BY <1>1, <3>1, <3>3
  <2> QED
    BY <1>1, <1>2, <1>7, <2>3, <2>4 DEF Faith
<1>8. CASE at = "last"
  <2>1. UNCHANGED memory
    BY <1>8, FaithLast
  <2>2. Stored(part, 0)'
    <3>1. PICK p : p = part
      OBVIOUS
    <3>2. Stored(p, 0)
      BY <1>8, <3>1 DEF Faith
    <3>3. Stored(p, 0)'
      BY <1>1, <2>1, <3>2, StoredKept
    <3> QED
      BY <1>1, <3>1, <3>3
  <2> QED
    BY <1>1, <1>2, <1>8, <2>2 DEF Faith
<1> QED
  BY <1>3, <1>4, <1>5, <1>6, <1>7, <1>8 DEF Steps

LEMMA FaithNext ==
  ASSUME Shape, Steps, Sending, Waking, Fresh, JobsFit, Clean, Finish, Faith, [Next]_vars
  PROVE  Faith'
<1> SUFFICES ASSUME FaithHyp' PROVE Faith'
  BY DEF Faith
<1>0. Steps' /\ (at' # "idle" => result' = "none")
  <2>1. Steps'
    BY StepsNext
  <2> QED
    BY <2>1 DEF Steps
<1>h. ASSUME UNCHANGED <<job, lost, found>> PROVE FaithHyp /\ Uploads
  BY <1>h DEF FaithHyp, Uploads
<1>p. PICK p : p = part
  OBVIOUS
<1>s. ASSUME UNCHANGED <<job, memory, part>>
      PROVE  /\ Stored(part, 0)' <=> Stored(part, 0)
             /\ Stored(part + 1, 0)' <=> Stored(part + 1, 0)
             /\ Stored(Len(Parts) + 1, 0)' <=> Stored(Len(Parts) + 1, 0)
  <2>1. \A q : Stored(q, 0)' <=> Stored(q, 0)
    BY <1>s, StoredKept
  <2>2. part' = part /\ Parts' = Parts
    BY <1>s DEF Parts
  <2>3. PICK n : n = Len(Parts) + 1
    OBVIOUS
  <2>4. (Len(Parts) + 1)' = n
    BY <2>2, <2>3
  <2>5. Stored(n, 0)' <=> Stored(n, 0)
    BY <2>1
  <2>6. PICK m : m = part + 1
    OBVIOUS
  <2>7. Stored(m, 0)' <=> Stored(m, 0)
    BY <2>1
  <2>8. Stored(p, 0)' <=> Stored(p, 0)
    BY <2>1
  <2> QED
    BY <1>p, <2>2, <2>3, <2>4, <2>5, <2>6, <2>7, <2>8
<1>1. CASE SendWake
  BY <1>0, <1>1 DEF SendWake, Faith
<1>2. CASE WakeAnswered
  <2>1. /\ UNCHANGED <<job, lost, found, mon, cmd, memory>> /\ at = "waking" /\ Quiet
        /\ \/ at' = "wake" \/ (at' = "idle" /\ result' = "no_monitor")
           \/ at' = AfterPart(part) /\ part' = part /\ Woken
    BY <1>2 DEF WakeAnswered, Goto, Exit, Hear, board, mon
  <2>2. FaithHyp /\ Uploads /\ part = 1
    BY <1>h, <2>1 DEF Steps
  <2>3. Stored(1, 0)'
    <3>1. Uploads'
      BY DEF FaithHyp
    <3> QED
      BY <1>0, <3>1, StoredStart
  <2>4. CASE at' = AfterPart(part) /\ part' = part /\ Woken
    <3>1. cmd = "none"
      <4>1. found # "load" => CmdIdle
        BY <2>1, <2>4, WokenIdle
      <4>2. found = "load" => Mode = "load"
        BY <2>1 DEF Waking
      <4>3. st # "emit" /\ MonitorShape
        BY <2>1 DEF Quiet, Shape
      <4> QED
        BY <4>1, <4>2, <4>3 DEF CmdIdle, Mode, MonitorShape
    <3>2. at' \in {"load", "last"} /\ cmd' = "none" /\ Stored(part, 0)'
      BY <2>1, <2>2, <2>3, <2>4, <3>1 DEF AfterPart
    <3> QED
      BY <1>0, <3>2 DEF Faith
  <2> QED
    BY <1>0, <2>1, <2>4 DEF Faith
<1>3. CASE SendLoad
  <2>1. /\ UNCHANGED <<job, lost, found, mon, cmd, nibs, addr, hi, memory, part, rx>> /\ at = "load" /\ at' = "loading"
        /\ wire' = LoadCommand(Addr) /\ part <= Len(Parts)
    BY <1>3 DEF SendLoad, Goto, Send, board, mon, history, Addr, Steps
  <2>2. FaithHyp /\ Stored(part, 0) /\ cmd = "none" /\ ~Said(">")
    BY <1>h, <2>1 DEF Faith, Fresh, Nothing, Said, In
  <2>3. Gone(LoadCommand(Addr))' = 0
    <3>1. Addr' = Addr /\ LoadCommand(Addr) \in Seq(Char) /\ Len(LoadCommand(Addr)) = 7
      BY <2>1, Place DEF Addr, Parts
    <3> QED
      BY <2>1, <3>1 DEF Gone
  <2>4. FaithLoading(0)
    <3>1. CASE job.tool = "c64"
      <4>1. Mode \in {"off", "cmd", "load"}
        BY DEF Mode, Shape, MonitorShape
      <4> QED
        BY <2>2, <3>1, <4>1 DEF FaithLoading
    <3>2. CASE job.tool # "c64"
      <4>1. CmdIdle
        BY <2>1, <2>2, <3>2 DEF FaithHyp, CleanHyp, Clean
      <4> QED
        BY <2>2, <4>1 DEF FaithLoading, CmdIdle
    <3> QED
      BY <3>1, <3>2
  <2>5. Mode' = Mode /\ (Said(">")' <=> Said(">"))
    BY <2>1, HeardKept
  <2>6. FaithLoading(0)'
    BY <2>1, <2>4, <2>5, FaithLoadKept
  <2> QED
    BY <1>0, <2>1, <2>3, <2>6 DEF Faith
<1>4. CASE LoadAnswered
  <2>1. /\ UNCHANGED <<job, lost, found>>
        /\ at' = "lines" \/ (at' = "idle" /\ result' = "no_load_mode")
    BY <1>4 DEF LoadAnswered, Goto, Exit, Hear
  <2>2. at' = "lines" => FaithLines(DataGone)'
    BY <1>4, <1>h, <2>1, FaithBegins
  <2> QED
    BY <1>0, <2>1, <2>2 DEF Faith
<1>5. CASE SendLine
  <2>1. /\ UNCHANGED <<job, lost, found, mon, memory, part>> /\ at = "lines" /\ at' = "lines"
    BY <1>5 DEF SendLine, Goto, Send, board, history
  <2>2. DataGone' = DataGone
    BY <1>5, LineSent
  <2>3. PICK x, w : x = DataGone /\ w = (x + 1) \div 3
    OBVIOUS
  <2>4. FaithLines(x)
    BY <1>h, <2>1, <2>3 DEF Faith
  <2>5. Addr' = Addr /\ Parts' = Parts /\ UNCHANGED <<st, addr, hi>>
    BY <2>1 DEF Addr, Parts, mon
  <2>6. Stored(p, w)' <=> Stored(p, w)
    BY <2>1, StoredKept
  <2>7. Stored(part, w)' <=> Stored(part, w)
    BY <1>p, <2>1, <2>6
  <2>8. FaithLines(x)'
    BY <2>1, <2>3, <2>4, <2>5, <2>7 DEF FaithLines
  <2> QED
    BY <1>0, <2>1, <2>2, <2>3, <2>8 DEF Faith
<1>6. CASE SendDot
  <2>1. /\ UNCHANGED <<job, lost, found, mon, memory, part>> /\ at = "lines" /\ at' = "dot"
        /\ wire = <<>> /\ line > Len(Lines) /\ part <= Len(Parts)
    BY <1>6 DEF SendDot, Goto, Send, board, history, Sent, Steps
  <2>2. part \in 1..Len(Parts) /\ Size \in Nat /\ SentBytes = Size
    BY <2>1, Place, Progress
  <2>3. DataGone = 3 * Size
    <3>1. Len(wire) = 0
      BY <2>1
    <3> QED
      BY ONLY <2>2, <3>1 DEF DataGone
  <2>4. FaithLines(3 * Size)
    BY <1>h, <2>1, <2>3 DEF Faith
  <2>5. (3 * Size + 1) \div 3 = Size
    BY ONLY <2>2
  <2>6. Stored(part, Size) /\ st = "load"
    BY <2>4, <2>5 DEF FaithLines
  <2>7. Stored(part + 1, 0)
    <3>1. p \in 1..Len(Parts) /\ Stored(p, Len(Parts[p].data))
      BY <1>p, <2>2, <2>6 DEF Size
    <3>2. Stored(p + 1, 0)
      BY <1>h, <2>1, <3>1, StoredPart
    <3> QED
      BY <1>p, <3>2
  <2>8. cmd' = "none"
    BY <2>1, <2>6 DEF mon, Shape, MonitorShape
  <2> QED
    BY <1>0, <1>s, <2>1, <2>7, <2>8 DEF Faith
<1>7. CASE DotAnswered
  <2>1. /\ UNCHANGED <<job, lost, found, memory, cmd>> /\ at = "dot"
        /\ \/ at' = "idle" /\ result' = "refused"
           \/ at' \in {"load", "last"} /\ part' = part + 1
    BY <1>7 DEF DotAnswered, Goto, Exit, AfterPart, Hear, board, mon
  <2>2. Stored(part + 1, 0) /\ cmd = "none"
    BY <1>h, <2>1 DEF Faith
  <2>3. Stored(p + 1, 0)'
    BY <1>p, <2>1, <2>2, StoredKept
  <2>4. part' = part + 1 => Stored(part, 0)'
    BY <1>p, <2>3
  <2> QED
    BY <1>0, <2>1, <2>2, <2>4 DEF Faith
<1>8. CASE SendLast
  <2>1. /\ UNCHANGED <<job, lost, found, memory, part>> /\ at = "last" /\ at' = "last"
    BY <1>8 DEF SendLast, Goto, Send, board, history
  <2>2. Stored(part, 0)'
    BY <1>h, <1>s, <2>1 DEF Faith
  <2> QED
    BY <1>0, <2>1, <2>2 DEF Faith
<1>9. CASE Complete
  <2>1. /\ UNCHANGED <<job, lost, found, memory, part>> /\ at = "last" /\ at' = "idle"
    BY <1>9 DEF Complete, Exit, Hear, board
  <2>2. Stored(part, 0) /\ part \in Nat /\ part > Len(Parts)
    BY <1>h, <2>1, Place DEF Faith, Steps
  <2>3. Stored(Len(Parts) + 1, 0)
    BY <1>h, <1>p, <2>1, <2>2, StoredEnd
  <2> QED
    BY <1>s, <2>1, <2>3 DEF Faith
<1>10. CASE Take
  <2>1. FaithHyp
    BY <1>10, <1>h DEF Take, pc
  <2> QED
    BY <1>10, <2>1, FaithTake
<1>11. CASE Emitted
  <2>1. /\ st = "emit" /\ UNCHANGED <<job, at, line, part, result, wire, memory, cmd, nibs, addr, hi, lost, found>>
        /\ Mode' = Mode /\ (at # "idle" => (Said(">")' <=> Said(">")))
    BY <1>11, EmittedHeard DEF history
  <2>2. FaithHyp /\ at # "lines"
    BY <1>h, <2>1 DEF Faith, FaithLines
  <2>3. PICK x : x = Gone(LoadCommand(Addr))
    OBVIOUS
  <2>4. Gone(LoadCommand(Addr))' = x
    BY <2>1, <2>3 DEF Gone, Addr, Parts
  <2>5. at = "loading" => FaithLoading(x)'
    BY <2>1, <2>2, <2>3, FaithLoadKept DEF Faith
  <2> QED
    BY <1>s, <2>1, <2>2, <2>4, <2>5 DEF Faith
<1>12. CASE Lose
  <2>1. /\ UNCHANGED <<job, at, line, part, result, rx, mon, memory, cmd, found>>
        /\ wire # <<>> /\ wire' = Tail(wire) /\ lost \subseteq lost' /\ lost' # {}
        /\ (at = "lines" => "data" \in lost')
    BY <1>12 DEF Lose, pc, board, mon
  <2>2. FaithHyp /\ at # "lines"
    BY <2>1 DEF FaithHyp, Uploads
  <2>3. at # "load"
    BY <2>1 DEF Steps, Quiet, Sent
  <2>4. at = "loading" => FaithLoading(Gone(LoadCommand(Addr)))'
    <3> SUFFICES ASSUME at = "loading" PROVE FaithLoading(Gone(LoadCommand(Addr)))'
      OBVIOUS
    <3>1. PICK x : x = Gone(LoadCommand(Addr))
      OBVIOUS
    <3>2. FaithLoading(x + 1)'
      BY <1>12, <2>2, <3>1, FaithLoadLose DEF Faith
    <3>3. Gone(LoadCommand(Addr))' = x + 1
      <4>1. Addr' = Addr /\ Len(LoadCommand(Addr)) - Len(wire') = x + 1
        BY <2>1, <3>1, LoadHead DEF Addr, Parts
      <4> QED
        BY <4>1 DEF Gone
    <3> QED
      BY <3>2, <3>3
  <2> QED
    BY <1>s, <2>1, <2>2, <2>3, <2>4 DEF Faith
<1>13. ASSUME NEW j \in Jobs[jumps], Start(j) PROVE Faith'
  <2>1. /\ job' = j /\ result' = "none" /\ part' = 1 /\ UNCHANGED cmd /\ (j.wake => at' = "wake")
        /\ at' \in {"wake", "load", "last"} /\ (found' = "cmd" => cmd = "none" \/ found' = "typing")
    BY <1>13 DEF Start, board, mon
  <2>2. at' = "load" => cmd' = "none"
    <3> SUFFICES ASSUME at' = "load" PROVE cmd' = "none"
      OBVIOUS
    <3>1. ~j.wake /\ (j.tool = "c64" => j.wake)
      BY <2>1, JobOf DEF Steps
    <3>2. found' = "cmd"
      BY <2>1, <3>1 DEF FaithHyp
    <3> QED
      BY <2>1, <3>2
  <2>3. Stored(1, 0)'
    <3>1. Uploads'
      BY DEF FaithHyp
    <3> QED
      BY <1>0, <3>1, StoredStart
  <2> QED
    BY <2>1, <2>2, <2>3 DEF Faith
<1>14. ASSUME NEW n \in 0..Len(wire), Kill(n) PROVE Faith'
  BY <1>14 DEF Kill, Exit, Faith
<1>15. CASE UNCHANGED vars
  <2>1. /\ UNCHANGED <<job, at, line, part, result, wire, rx, mon, memory, st, cmd, nibs, addr, hi, lost, found>>
    BY <1>15 DEF vars, pc, board, mon, history
  <2>2. FaithHyp
    BY <1>h, <2>1
  <2>3. Mode' = Mode /\ (Said(">")' <=> Said(">"))
    BY <2>1, HeardKept
  <2>4. PICK x, y, w : x = Gone(LoadCommand(Addr)) /\ y = DataGone /\ w = (y + 1) \div 3
    OBVIOUS
  <2>5. Gone(LoadCommand(Addr))' = x /\ DataGone' = y /\ Addr' = Addr /\ Parts' = Parts
    BY <2>1, <2>4 DEF Gone, Addr, Parts, DataGone, SentBytes, Size
  <2>6. at = "loading" => FaithLoading(x)'
    BY <2>1, <2>2, <2>3, <2>4, FaithLoadKept DEF Faith
  <2>7. Stored(p, w)' <=> Stored(p, w)
    BY <2>1, StoredKept
  <2>8. at = "lines" => FaithLines(y)'
    <3>1. Stored(part, w)' <=> Stored(part, w)
      BY <1>p, <2>1, <2>7
    <3>2. at = "lines" => FaithLines(y)
      BY <2>2, <2>4 DEF Faith
    <3> QED
      BY <2>1, <2>4, <2>5, <3>1, <3>2 DEF FaithLines
  <2> QED
    BY <1>s, <2>1, <2>2, <2>5, <2>6, <2>8 DEF Faith
<1> QED
  BY <1>1, <1>2, <1>3, <1>4, <1>5, <1>6, <1>7, <1>8, <1>9, <1>10, <1>11, <1>12, <1>13, <1>14, <1>15
     DEF Next, PcMoves, BoardMoves

-----------------------------------------------------------------------------
(* All parts are in memory: the image is. *)

LEMMA Greatest ==
  ASSUME NEW n \in Nat, NEW I, I \subseteq 1..n, I # {}
  PROVE  \E m \in I : \A j \in I : j <= m
<1> DEFINE Less == OpToRel(<, Nat)
           B    == {k \in Nat : n - k \in I}
<1>0. \A k, l \in Nat : k < l => <<k, l>> \in Less
  BY DEF OpToRel
<1>1. IsWellFoundedOn(Less, Nat)
  BY NatLessThanWellFounded
<1> HIDE DEF Less
<1>2. ASSUME NEW i \in I PROVE n - i \in B /\ n - (n - i) = i /\ i \in Nat
  BY <1>2
<1>3. B # {} /\ B \subseteq Nat
  BY <1>2
<1>4. PICK k \in B : \A l \in B : <<l, k>> \notin Less
  <2> HIDE DEF B
  <2> QED
    BY ONLY <1>1, <1>3, WFMin
<1>5. n - k \in I /\ k \in Nat
  OBVIOUS
<1>6. ASSUME NEW i \in I PROVE i <= n - k
  <2>1. ~(n - i < k)
    BY <1>0, <1>2, <1>3, <1>4
  <2>2. i \in Nat /\ n - i \in Int
    BY <1>2
  <2> QED
    BY ONLY <1>5, <2>1, <2>2, n \in Nat
<1> QED
  BY <1>5, <1>6

\* The byte of an image at an address comes from the last part that covers it.
LEMMA ImageByte ==
  ASSUME Steps, Uploads, NEW a \in DOMAIN Image
  PROVE  \E m \in DOMAIN Parts : \E k \in DOMAIN Parts[m].data :
           /\ At(m, k) = a /\ Image[a] = Parts[m].data[k]
           /\ \A j \in DOMAIN Parts : \A l \in DOMAIN Parts[j].data : At(j, l) = a => j <= m
<1> DEFINE n == Len(Parts)
           I == {i \in DOMAIN Parts : Covers(Parts[i], a)}
<1>1. /\ n \in Nat /\ DOMAIN Parts = 1..n
      /\ \A i \in DOMAIN Parts :
           /\ i \in Nat /\ Parts[i].addr \in 0..(RAMEnd - 1) /\ Len(Parts[i].data) \in Nat
           /\ DOMAIN Parts[i].data = 1..Len(Parts[i].data)
  BY PartsOf
<1>2. I # {} /\ I \subseteq 1..n /\ Image[a] = ByteAt(Parts, a)
  <2>1. /\ a \in UNION {q.addr..(q.addr + Len(q.data) - 1) : q \in {Parts[i] : i \in DOMAIN Parts}}
        /\ Image[a] = ByteAt(Parts, a)
    BY DEF Image, ImageOf
  <2>2. \E i \in DOMAIN Parts : a \in Parts[i].addr..(Parts[i].addr + Len(Parts[i].data) - 1)
    BY <2>1
  <2> QED
    BY <1>1, <2>1, <2>2 DEF Covers
<1>3. PICK m \in I : \A j \in I : j <= m
  <2> HIDE DEF n, I
  <2> QED
    BY ONLY <1>1, <1>2, Greatest
<1> DEFINE Last(i) == Covers(Parts[i], a) /\ \A j \in (i + 1)..Len(Parts) : ~Covers(Parts[j], a)
<1>4. m \in DOMAIN Parts /\ Last(m)
  <2>1. m \in DOMAIN Parts /\ Covers(Parts[m], a) /\ m \in Nat
    BY <1>1
  <2>2. ASSUME NEW j \in (m + 1)..n PROVE ~Covers(Parts[j], a)
    <3>1. j \in 1..n /\ j \in Nat /\ j > m
      BY <1>1, <2>1, <2>2
    <3>2. ~(j <= m)
      BY ONLY <2>1, <3>1
    <3> QED
      BY <1>1, <1>3, <3>1, <3>2
  <2> QED
    BY <2>1, <2>2
<1>5. ASSUME NEW i \in DOMAIN Parts, Last(i) PROVE i = m
  <2>1. i \in I /\ i \in Nat /\ m \in Nat /\ i <= m /\ i \in 1..n /\ m \in 1..n
    BY <1>1, <1>3, <1>4, <1>5
  <2>2. i < m => m \in (i + 1)..n
    BY ONLY <1>1, <2>1
  <2>3. ~(i < m)
    BY <1>4, <1>5, <2>2
  <2> QED
    BY ONLY <2>1, <2>3
<1>6. (CHOOSE i \in DOMAIN Parts : Last(i)) = m
  <2> HIDE DEF Last
  <2> QED
    BY <1>4, <1>5
<1>7. Image[a] = Parts[m].data[a - Parts[m].addr + 1]
  BY <1>2, <1>6 DEF ByteAt
<1> DEFINE k == a - Parts[m].addr + 1
<1>8. k \in DOMAIN Parts[m].data /\ At(m, k) = a
  <2>1. a \in Parts[m].addr..(Parts[m].addr + Len(Parts[m].data) - 1) /\ Parts[m].addr \in Nat /\ Len(Parts[m].data) \in Nat
    <3>1. RAMEnd \in Nat
      BY EndIs
    <3>2. Parts[m].addr \in 0..(RAMEnd - 1) /\ Len(Parts[m].data) \in Nat
      BY <1>1, <1>4
    <3>3. Parts[m].addr \in Nat
      BY ONLY <3>1, <3>2
    <3> QED
      BY <1>4, <3>2, <3>3 DEF Covers
  <2>2. k \in 1..Len(Parts[m].data) /\ Parts[m].addr + k - 1 = a
    BY ONLY <2>1
  <2> QED
    BY <1>1, <1>4, <2>2 DEF At
<1>9. ASSUME NEW j \in DOMAIN Parts, NEW l \in DOMAIN Parts[j].data, At(j, l) = a PROVE j <= m
  <2>1. /\ Parts[j].addr \in 0..(RAMEnd - 1) /\ Len(Parts[j].data) \in Nat /\ l \in 1..Len(Parts[j].data)
        /\ a = Parts[j].addr + l - 1
    BY <1>1, <1>9 DEF At
  <2>2. RAMEnd \in Nat
    BY EndIs
  <2>3. a \in Parts[j].addr..(Parts[j].addr + Len(Parts[j].data) - 1)
    BY ONLY <2>1, <2>2
  <2>4. j \in I
    BY <2>3 DEF Covers
  <2> QED
    BY <1>3, <2>4
<1> QED
  BY <1>4, <1>7, <1>8, <1>9

LEMMA StoredLoaded ==
  ASSUME Steps, Uploads, Stored(Len(Parts) + 1, 0)
  PROVE  Loaded
<1> SUFFICES ASSUME NEW a \in DOMAIN Image PROVE a \in DOMAIN memory /\ memory[a] = Image[a]
  BY DEF Loaded
<1>1. PICK m \in DOMAIN Parts : \E k \in DOMAIN Parts[m].data :
        /\ At(m, k) = a /\ Image[a] = Parts[m].data[k]
        /\ \A j \in DOMAIN Parts : \A l \in DOMAIN Parts[j].data : At(j, l) = a => j <= m
  BY ImageByte
<1>2. PICK k \in DOMAIN Parts[m].data :
        /\ At(m, k) = a /\ Image[a] = Parts[m].data[k]
        /\ \A j \in DOMAIN Parts : \A l \in DOMAIN Parts[j].data : At(j, l) = a => j <= m
  BY <1>1
<1>3. /\ Len(Parts) \in Nat /\ \A j \in DOMAIN Parts : j \in 1..Len(Parts)
  BY PartsOf
<1>4. Done(Len(Parts) + 1, 0, m, k)
  <2>1. m < Len(Parts) + 1
    BY ONLY <1>3, m \in DOMAIN Parts
  <2> QED
    BY ONLY <2>1 DEF Done
<1>5. \A j \in DOMAIN Parts : \A l \in DOMAIN Parts[j].data : At(j, l) = a => ~(j > m)
  <2>1. \A j \in DOMAIN Parts : j <= m => ~(j > m)
    <3>1. \A j \in DOMAIN Parts : j \in Nat
      BY <1>3
    <3> QED
      BY ONLY <3>1, m \in DOMAIN Parts
  <2> QED
    BY <1>2, <2>1
<1>6. At(m, k) \in DOMAIN memory /\ memory[At(m, k)] = Parts[m].data[k]
  BY <1>2, <1>4, <1>5 DEF Stored
<1> QED
  BY <1>2, <1>6

-----------------------------------------------------------------------------
(* The theorems. *)

\* The inductive invariant of the uploads, whatever the jobs are, and the part
\* of it that needs jobs as the tools build them.
UploadInv ==
  /\ Shape /\ Steps /\ Sending /\ Waking /\ FailureHasCause /\ Fresh /\ Deceived /\ Clean

UploadInvFit == Stray /\ Finish /\ Faith

-----------------------------------------------------------------------------
(* The invariants are inductive, and say what the properties say. *)

LEMMA UploadInit == Init => UploadInv /\ UploadInvFit
BY ShapeInit, StepsInit, SendingInit, WakingInit, CauseInit, FreshInit, DeceivedInit, CleanInit,
   StrayInit, FinishInit, FaithInit DEF UploadInv, UploadInvFit

LEMMA UploadStep ==
  ASSUME UploadInv, [Next]_vars
  PROVE  UploadInv'
BY ShapeNext, StepsNext, SendingNext, WakingNext, CauseNext, FreshNext, DeceivedNext, CleanNext
   DEF UploadInv

LEMMA UploadStepFit ==
  ASSUME JobsFit, UploadInv, UploadInvFit, [Next]_vars
  PROVE  UploadInvFit'
BY StrayNext, FinishNext, FaithNext DEF UploadInv, UploadInvFit

LEMMA UploadMeans == UploadInv => TypeOK /\ FailureHasCause
BY DEF UploadInv, Shape, MonitorShape, Steps, TypeOK

LEMMA UploadArrives ==
  ASSUME UploadInv, UploadInvFit
  PROVE  ImageArrives
<1>1. NoStrayByte
  BY DEF UploadInvFit, Stray, StrayHyp, NoStrayByte
<1>2. CompleteIsLoaded
  <2> SUFFICES ASSUME result = "complete", FaithHyp PROVE Loaded /\ (lost = {} => cpu = Ending)
    BY DEF CompleteIsLoaded, FaithHyp
  <2>1. Loaded
    BY StoredLoaded DEF UploadInv, UploadInvFit, Faith, FaithHyp
  <2>2. ASSUME lost = {} PROVE cpu = Ending
    <3>1. job.tool = "c64" => found # "load"
      BY DEF UploadInv, Deceived
    <3>2. job.tool = "c64" => job.wake
      BY JobOf DEF UploadInv, Steps
    <3>3. CleanHyp
      BY <2>2, <3>1, <3>2 DEF FaithHyp, CleanHyp
    <3> QED
      BY <3>3 DEF UploadInvFit, Finish
  <2> QED
    BY <2>1, <2>2
<1> QED
  BY <1>1, <1>2 DEF ImageArrives

-----------------------------------------------------------------------------
(* The uploads' theorems. *)

\* Every variable of tools, line and monitor keeps its range, whatever is
\* started, killed and lost: no more attempts than --wake-retries, addresses of
\* 16 bits, bytes in memory.
THEOREM UploadTypeCorrect == Spec => []TypeOK
<1>1. UploadInv /\ [Next]_vars => UploadInv'
  BY UploadStep
<1> QED
  BY UploadInit, UploadMeans, <1>1, PTL DEF Spec

\* A tool that gives up has a cause on the line or in the state it found: it
\* never gives up on a monitor that answers over a working line.
THEOREM UploadFailureHasCause == Spec => []FailureHasCause
<1>1. UploadInv /\ [Next]_vars => UploadInv'
  BY UploadStep
<1> QED
  BY UploadInit, UploadMeans, <1>1, PTL DEF Spec

\* "Upload complete" means that the image is in memory and the CPU where the
\* last line puts it, and no byte goes where the image has none.
THEOREM UploadImageArrives ==
  ASSUME JobsFit
  PROVE  Spec => []ImageArrives
<1>1. UploadInv /\ [Next]_vars => UploadInv'
  BY UploadStep
<1>2. UploadInv /\ UploadInvFit /\ [Next]_vars => UploadInvFit'
  BY UploadStepFit
<1>3. UploadInv /\ UploadInvFit => ImageArrives
  BY UploadArrives
<1> QED
  BY UploadInit, <1>1, <1>2, <1>3, PTL DEF Spec

-----------------------------------------------------------------------------
(* The jump with G. *)

\* The reset pulse and its override go together, and a CPU in reset stands at
\* the start of its sequence.
PulseResets == /\ mon_jump_reset_cnt # 0 => mon_jump_vector_active
               /\ cpu_reset => t65 = ResetCycle(1)

\* The override is up only on the way to the vector's high byte, and ends in
\* the first clock of the cycle that reads it.
OverrideEnds ==
  mon_jump_vector_active =>
    \/ t65.seq \in 1 .. 5
    \/ t65.seq = 6 /\ ~cpu_enable

\* While a jump is on its way its address is in force, and after that the T65
\* is in the last cycle of the sequence.
JumpUnderWay ==
  /\ mon_jump_vector_active => asked = mon_jump_vector
  /\ asked # NoJump /\ ~mon_jump_vector_active => t65.seq = 6

\* The low byte read is the jump's, or the ROM's if there is no jump.
LowRead ==
  t65.seq = 6 => low = IF asked = NoJump THEN RomVector.lo ELSE asked.lo

JumpInv == /\ JumpTypeOK /\ PulseResets /\ OverrideEnds /\ JumpUnderWay /\ LowRead
        /\ PlainRestart /\ LowByteLands

USE VectorAssumption, PulseAssumption

----------------------------------------------------------------------------
(* The reset sequence.                                                     *)

LEMMA ResetCycles ==
  ASSUME NEW n \in 1 .. 6
  PROVE  /\ ResetCycle(n).seq = n /\ ~ResetCycle(n).sync
         /\ ResetCycle(n).addr = "FFFC" <=> n = 5
         /\ ResetCycle(n).addr = "FFFD" <=> n = 6
BY DEF ResetCycle

LEMMA InSequence ==
  ASSUME JumpTypeOK
  PROVE  /\ t65.seq \in 0 .. 6
         /\ t65.seq # 0 => t65 = ResetCycle(t65.seq)
<1>1. CASE t65 \in ProgramCycle
  BY <1>1 DEF ProgramCycle
<1>2. CASE \E n \in 1 .. 6 : t65 = ResetCycle(n)
  BY <1>2, ResetCycles
<1> QED
  BY <1>1, <1>2 DEF JumpTypeOK

LEMMA VectorBytes ==
  ASSUME JumpTypeOK
  PROVE  /\ cpu_din("lo") \in Halves /\ cpu_din("hi") \in Halves
         /\ ~mon_jump_vector_active =>
              cpu_din("lo") = RomVector.lo /\ cpu_din("hi") = RomVector.hi
         /\ mon_jump_vector_active => cpu_din("lo") = mon_jump_vector.lo
BY DEF cpu_din, JumpTypeOK, Vector

----------------------------------------------------------------------------
LEMMA JumpTypeStep ==
  ASSUME JumpTypeOK, JumpNext
  PROVE  JumpTypeOK'
<1>1. /\ soft_reset' \in BOOLEAN /\ cpu_enable' \in BOOLEAN
      /\ monitor' \in {"off", "active", "leaving"}
      /\ jump_req' \in Vector \cup {NoJump}
  BY DEF JumpNext, ResetKey, EnableClock, MonitorClock, MonitorEnters, MonitorGoes,
         MonitorReleases, MonitorRests, JumpTypeOK
<1>2. /\ mon_jump_vector' \in Vector /\ mon_jump_reset_cnt' \in 0 .. ResetClocks
      /\ mon_jump_vector_active' \in BOOLEAN
  <2>1. CASE JumpStarts
    BY <2>1 DEF JumpStarts, JumpTypeOK
  <2>2. CASE JumpResets
    BY <2>2 DEF JumpResets, JumpTypeOK
  <2>3. CASE JumpEnds \/ JumpWaits
    BY <2>3 DEF JumpEnds, JumpWaits, JumpTypeOK
  <2> QED
    BY <2>1, <2>2, <2>3 DEF JumpNext, JumpClock
<1>3. t65' \in {ResetCycle(n) : n \in 1 .. 6} \cup ProgramCycle
  <2>1. CASE T65Reset
    BY <2>1 DEF T65Reset
  <2>2. CASE T65Advances
    BY <2>2 DEF T65Advances
  <2>3. CASE T65Waits
    BY <2>3 DEF T65Waits, JumpTypeOK
  <2> QED
    BY <2>1, <2>2, <2>3 DEF JumpNext, T65Clock
<1>4. low' \in Halves
  BY VectorBytes DEF JumpNext, T65Clock, T65Reset, T65Advances, T65Waits, JumpTypeOK
<1>5. asked' \in Vector \cup {NoJump}
  BY DEF JumpNext, HistoryClock, JumpTypeOK
<1>6. landed' \in [at : Vector, asked : Vector \cup {NoJump}]
  <2>1. [hi |-> cpu_din("hi"), lo |-> low] \in Vector
    BY VectorBytes DEF Vector, JumpTypeOK
  <2> QED
    BY <2>1 DEF JumpNext, HistoryClock, JumpTypeOK
<1> QED
  BY <1>1, <1>2, <1>3, <1>4, <1>5, <1>6 DEF JumpTypeOK

LEMMA PulseStep ==
  ASSUME JumpTypeOK, PulseResets, JumpNext
  PROVE  PulseResets'
<1>1. mon_jump_reset_cnt' # 0 => mon_jump_vector_active'
  BY DEF JumpNext, JumpClock, JumpStarts, JumpResets, JumpEnds, JumpWaits, PulseResets,
         JumpTypeOK
<1>2. cpu_reset' => t65' = ResetCycle(1)
  BY DEF JumpNext, T65Clock, T65Reset, T65Advances, T65Waits
<1> QED
  BY <1>1, <1>2 DEF PulseResets

----------------------------------------------------------------------------
(* A step while a jump is requested, or the CPU is reset, puts the T65 back *)
(* to the start; the others move it along the sequence.                     *)

LEMMA RequestResets ==
  ASSUME JumpTypeOK, JumpNext, jump_req # NoJump
  PROVE  /\ t65'.seq = 1 /\ asked' = jump_req /\ mon_jump_vector' = jump_req
         /\ mon_jump_vector_active'
<1>1. /\ mon_jump_vector_active' /\ mon_jump_vector' = jump_req
      /\ mon_jump_reset_cnt' # 0
  BY DEF JumpNext, JumpClock, JumpStarts, JumpResets, JumpEnds, JumpWaits
<1>2. t65' = ResetCycle(1)
  BY <1>1 DEF JumpNext, T65Clock, T65Reset, T65Advances, T65Waits, cpu_reset
<1> QED
  BY <1>1, <1>2, ResetCycles DEF JumpNext, HistoryClock

LEMMA Advance ==
  ASSUME JumpInv, JumpNext, jump_req = NoJump, T65Advances
  PROVE  /\ t65.seq \in 1 .. 5 => t65'.seq = t65.seq + 1
         /\ t65.seq \notin 1 .. 5 => t65'.seq = 0
         /\ t65.seq = 5 => low' = cpu_din("lo")
         /\ ~cpu_enable' /\ ~cpu_reset'
         /\ mon_jump_vector_active' = mon_jump_vector_active
         /\ mon_jump_vector' = mon_jump_vector
<1>1. mon_jump_reset_cnt = 0 /\ cpu_enable
  BY DEF T65Advances, cpu_reset
<1>2. ~(mon_jump_vector_active /\ VectorPassed)
  BY <1>1, InSequence, ResetCycles DEF JumpInv, OverrideEnds, VectorPassed
<1>3. JumpWaits
  BY <1>1, <1>2 DEF JumpNext, JumpClock, JumpStarts, JumpResets, JumpEnds
<1>4. /\ t65.seq \in 1 .. 5 => t65'.seq = t65.seq + 1
      /\ t65.seq \notin 1 .. 5 => t65'.seq = 0
  <2>1. CASE t65.seq \in 1 .. 5
    BY <2>1, ResetCycles DEF T65Advances
  <2>2. CASE t65.seq \notin 1 .. 5
    BY <2>2 DEF T65Advances, ProgramCycle
  <2> QED
    BY <2>1, <2>2
<1> QED
  BY <1>1, <1>3, <1>4 DEF JumpWaits, T65Advances, JumpNext, EnableClock

LEMMA EndedInSix ==
  ASSUME JumpInv, JumpNext, JumpEnds
  PROVE  t65.seq = 6 /\ ~cpu_enable
BY InSequence, ResetCycles DEF JumpEnds, VectorPassed, JumpInv, OverrideEnds

----------------------------------------------------------------------------
(* The override and the restart.                                           *)

LEMMA OverrideStep ==
  ASSUME JumpInv, JumpNext
  PROVE  OverrideEnds'
<1> SUFFICES ASSUME mon_jump_vector_active'
             PROVE  t65'.seq \in 1 .. 5 \/ (t65'.seq = 6 /\ ~cpu_enable')
  BY DEF OverrideEnds
<1>1. CASE jump_req # NoJump \/ T65Reset
  BY <1>1, RequestResets, ResetCycles DEF T65Reset, JumpInv
<1>2. CASE jump_req = NoJump /\ T65Advances
  <2>1. mon_jump_vector_active
    BY <1>2, Advance
  <2>2. t65.seq \in 1 .. 5
    BY <1>2, <2>1 DEF JumpInv, OverrideEnds, T65Advances
  <2> QED
    BY <1>2, <2>2, Advance
<1>3. CASE jump_req = NoJump /\ T65Waits
  <2>1. mon_jump_vector_active /\ t65' = t65 /\ mon_jump_reset_cnt = 0
    BY <1>3 DEF JumpNext, JumpClock, JumpStarts, JumpResets, JumpEnds, JumpWaits, T65Waits,
                cpu_reset
  <2>2. t65.seq \in 1 .. 5
    <3>1. CASE t65.seq = 6
      <4>1. VectorPassed
        BY <3>1, InSequence, ResetCycles DEF VectorPassed, JumpInv
      <4>2. ~mon_jump_vector_active'
        BY <1>3, <2>1, <4>1 DEF JumpNext, JumpClock, JumpStarts, JumpResets, JumpEnds, JumpWaits
      <4> QED
        BY <4>2
    <3> QED
      BY <2>1, <3>1 DEF JumpInv, OverrideEnds
  <2> QED
    BY <2>1, <2>2
<1> QED
  BY <1>1, <1>2, <1>3 DEF JumpNext, T65Clock

LEMMA UnderWayStep ==
  ASSUME JumpInv, JumpNext
  PROVE  JumpUnderWay'
<1>1. CASE jump_req # NoJump
  BY <1>1, RequestResets DEF JumpUnderWay, JumpInv
<1>2. CASE jump_req = NoJump
  <2>1. mon_jump_vector_active' => asked' = mon_jump_vector'
    <3> SUFFICES ASSUME mon_jump_vector_active'
                 PROVE  asked' = mon_jump_vector'
      OBVIOUS
    <3>1. mon_jump_vector_active /\ mon_jump_vector' = mon_jump_vector
      BY <1>2 DEF JumpNext, JumpClock, JumpStarts, JumpResets, JumpEnds, JumpWaits
    <3>2. ~Restarts
      BY OverrideStep DEF OverrideEnds, Restarts
    <3> QED
      BY <1>2, <3>1, <3>2 DEF JumpNext, HistoryClock, JumpInv, JumpUnderWay
  <2>2. ASSUME asked' # NoJump, ~mon_jump_vector_active'
        PROVE  t65'.seq = 6
    <3>1. ~Restarts /\ ~cpu_reset' /\ asked # NoJump
      BY <1>2, <2>2 DEF JumpNext, HistoryClock
    <3>2. t65.seq = 6
      <4>1. CASE mon_jump_vector_active
        BY <1>2, <2>2, <4>1, EndedInSix DEF JumpNext, JumpClock, JumpStarts, JumpResets,
                JumpWaits
      <4>2. CASE ~mon_jump_vector_active
        BY <3>1, <4>2 DEF JumpInv, JumpUnderWay
      <4> QED
        BY <4>1, <4>2
    <3>3. ~T65Advances
      BY <1>2, <3>1, <3>2, Advance DEF Restarts
    <3>4. ~cpu_reset
      BY <3>2, ResetCycles DEF JumpInv, PulseResets
    <3> QED
      BY <3>1, <3>2, <3>3, <3>4 DEF JumpNext, T65Clock, T65Reset, T65Waits
  <2> QED
    BY <2>1, <2>2 DEF JumpUnderWay
<1> QED
  BY <1>1, <1>2

LEMMA LowStep ==
  ASSUME JumpInv, JumpNext
  PROVE  LowRead'
<1> SUFFICES ASSUME t65'.seq = 6
             PROVE  low' = IF asked' = NoJump THEN RomVector.lo ELSE asked'.lo
  BY DEF LowRead
<1>1. jump_req = NoJump
  BY RequestResets DEF JumpInv
<1>2. ~T65Reset
  BY ResetCycles DEF T65Reset
<1>3. ~cpu_reset' /\ ~Restarts
  BY <1>2 DEF JumpNext, T65Clock, T65Reset, T65Advances, T65Waits, Restarts
<1>4. asked' = asked
  BY <1>1, <1>3 DEF JumpNext, HistoryClock
<1>5. CASE T65Advances
  <2>1. t65.seq = 5
    BY <1>1, <1>5, Advance
  <2>2. low' = cpu_din("lo")
    BY <1>1, <1>5, <2>1, Advance
  <2>3. mon_jump_vector_active <=> asked # NoJump
    BY <2>1 DEF JumpInv, JumpUnderWay, JumpTypeOK
  <2> QED
    BY <1>4, <2>2, <2>3, VectorBytes DEF JumpInv, JumpUnderWay
<1>6. CASE T65Waits
  BY <1>4, <1>6 DEF T65Waits, JumpInv, LowRead
<1> QED
  BY <1>2, <1>5, <1>6 DEF JumpNext, T65Clock

\* The T65 restarts only when the override is gone: the high byte it reads is
\* the ROM's.
LEMMA RestartStep ==
  ASSUME JumpInv, JumpNext
  PROVE  PlainRestart' /\ LowByteLands'
<1>1. CASE Restarts
  <2>1. jump_req = NoJump
    BY <1>1, RequestResets DEF JumpInv, Restarts
  <2>2. T65Advances
    BY <1>1, ResetCycles DEF JumpNext, T65Clock, T65Reset, T65Waits, Restarts
  <2>3. ~mon_jump_vector_active
    BY <1>1, <2>2 DEF T65Advances, Restarts, JumpInv, OverrideEnds
  <2>4. landed' = [at |-> [hi |-> RomVector.hi, lo |-> low], asked |-> asked]
    BY <1>1, <2>3, VectorBytes DEF JumpNext, HistoryClock, JumpInv
  <2>5. low = IF asked = NoJump THEN RomVector.lo ELSE asked.lo
    BY <1>1 DEF JumpInv, LowRead, Restarts
  <2>6. RomVector = [hi |-> RomVector.hi, lo |-> RomVector.lo]
    BY DEF Vector
  <2> QED
    BY <2>4, <2>5, <2>6 DEF PlainRestart, LowByteLands
<1>2. CASE ~Restarts
  BY <1>2 DEF JumpNext, HistoryClock, PlainRestart, LowByteLands, JumpInv
<1> QED
  BY <1>1, <1>2

----------------------------------------------------------------------------
\* The strengthened invariant is inductive.
THEOREM JumpInvariance == JumpSpec => []JumpInv
<1>1. JumpInit => JumpInv
  <2> SUFFICES ASSUME JumpInit PROVE JumpInv
    OBVIOUS
  <2>1. JumpTypeOK
    <3>1. RomVector.lo \in Halves
      BY DEF Vector
    <3>2. t65 \in {ResetCycle(n) : n \in 1 .. 6}
      BY DEF JumpInit
    <3>3. landed \in [at : Vector, asked : Vector \cup {NoJump}]
      BY DEF JumpInit
    <3>4. mon_jump_reset_cnt \in 0 .. ResetClocks
      BY DEF JumpInit
    <3> QED
      BY <3>1, <3>2, <3>3, <3>4 DEF JumpInit, JumpTypeOK
  <2> QED
    BY <2>1, ResetCycles DEF JumpInit, JumpInv, PulseResets, OverrideEnds, JumpUnderWay,
         LowRead, PlainRestart, LowByteLands, cpu_reset
<1>2. JumpInv /\ [JumpNext]_jump_vars => JumpInv'
  <2> SUFFICES ASSUME JumpInv, [JumpNext]_jump_vars PROVE JumpInv'
    OBVIOUS
  <2>1. CASE JumpNext
    <3>1. JumpTypeOK' /\ PulseResets'
      BY <2>1, JumpTypeStep, PulseStep DEF JumpInv
    <3> QED
      BY <2>1, <3>1, OverrideStep, UnderWayStep, LowStep, RestartStep DEF JumpInv
  <2>2. CASE UNCHANGED jump_vars
    BY <2>2 DEF jump_vars, JumpInv, JumpTypeOK, PulseResets, OverrideEnds, JumpUnderWay, LowRead,
                PlainRestart, LowByteLands, cpu_reset
  <2> QED
    BY <2>1, <2>2
<1> QED
  BY <1>1, <1>2, PTL DEF JumpSpec

\* The signals keep their types, in particular the counter its range.
THEOREM JumpTypeCorrect == JumpSpec => []JumpTypeOK
<1>1. JumpInv => JumpTypeOK
  BY DEF JumpInv
<1> QED
  BY <1>1, JumpInvariance, PTL

\* No program reads the override: a reset that is not a jump, and any read of
\* $FFFC by a program, sees the ROM.
THEOREM OverrideNeverLingers == JumpSpec => []OverrideGone
<1>1. JumpInv => OverrideGone
  BY DEF JumpInv, OverrideEnds, OverrideGone
<1> QED
  BY <1>1, JumpInvariance, PTL

\* A restart without a jump goes to the ROM's vector, whatever jumps, resets
\* and sessions went before it.
THEOREM PlainRestartIsPlain == JumpSpec => []PlainRestart
<1>1. JumpInv => PlainRestart
  BY DEF JumpInv
<1> QED
  BY <1>1, JumpInvariance, PTL

\* The low byte of a jump reaches the T65.
THEOREM LowByteArrives == JumpSpec => []LowByteLands
<1>1. JumpInv => LowByteLands
  BY DEF JumpInv
<1> QED
  BY <1>1, JumpInvariance, PTL

\* The override of the vector changes the one reset sequence it was meant for
\* and nothing a program or a later restart sees.
THEOREM EveryRestartRight == JumpSpec => []RestartsRight
<1>1. JumpInv => RestartsRight
  BY DEF JumpInv, OverrideEnds, OverrideGone, RestartsRight
<1> QED
  BY <1>1, JumpInvariance, PTL
=============================================================================
