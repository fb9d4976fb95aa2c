---------------------------- MODULE SectorSource ----------------------------
(***************************************************************************)
(* The drive of the C64 probe fetching its sectors from a PC: the state    *)
(* machine of c1541_v1541_uart_sector_source.vhd, the two directions of    *)
(* the serial line between the boards, and the serial worker of            *)
(* tools/virtual_1541/c64_1541_uart_gui.py with the image its GUI mounts.  *)
(*                                                                         *)
(* The line carries tokens, each standing for the byte or the few bytes    *)
(* that one state of the receiver reads; a sector is SectorLen data        *)
(* tokens.  Two assumptions are built in.  ChecksumDetects: the checksum   *)
(* of a frame is the sequence of tokens it sums up, so that it matches     *)
(* exactly when they arrived undamaged (the code's is their sum modulo     *)
(* 256).  NoLookAlikes: no byte but the first of a frame reads as its      *)
(* magic.                                                                  *)
(***************************************************************************)
EXTENDS Integers, Sequences

CONSTANTS
  Sectors,        \* the legal (track, sector) addresses the head passes over
  NoSector,       \* what loaded_track/loaded_sector hold after a reset
  IllegalSector,  \* an address past the last sector of its track
  SectorLen,      \* data tokens in a sector (256 bytes)
  WildLen,        \* the longest plausible payload a damaged length announces
  MaxFaults,      \* bound: lost or garbled tokens, watchdogs that expire
                  \* before a late answer, and resets, all together
  MaxMounts,      \* bound: images the user mounts
  ZoneCrossings   \* may a step onto a track with fewer sectors be seen

ASSUME ConstantsAssumption ==
  /\ SectorLen \in Nat \ {0}
  /\ {WildLen, MaxFaults, MaxMounts} \subseteq Nat
  /\ WildLen > 0
  /\ ZoneCrossings \in BOOLEAN
  /\ Sectors # {} /\ {NoSector, IllegalSector} \cap Sectors = {}
  /\ NoSector # IllegalSector

VARIABLES
  wanted,                     \* the address under the head (track, sector)
  state, fill, loaded, asked, \* the fetch; asked is history, see AnswerIsFresh
  tx_idx, r_head, r_idx, acc, sec_buf,
  up, down,                   \* tokens on the way to the PC and back
  buf, mounted, mounts,       \* the PC: bytes read, image in the drive
  losses, stalls, resets      \* the faults so far, by kind

drive  == <<state, fill, loaded, asked>>
parser == <<tx_idx, r_head, r_idx, acc, sec_buf>>
host   == <<buf, mounted, mounts>>
faults == <<losses, stalls, resets>>
vars   == <<wanted, drive, parser, up, down, host, faults>>

-----------------------------------------------------------------------------
(* The tokens of the two kinds of frame. *)

Magic   == <<"magic">>
Cmd     == <<"cmd">>          \* CMD_SECTOR
Text    == <<"text">>         \* an error message, or an ASCII answer
Junk    == <<"junk">>         \* a damaged byte
TooLong == WildLen + 1        \* a length above MAX_BINARY_REQUEST

Addresses == Sectors \cup {IllegalSector}
Images    == 1..MaxMounts
Statuses  == {"ok", "error"}

\* The request C6 30 02 00 <track> <sector> <cks>.
Request(a) == << Magic, <<"len", 1>>, <<"address", a>>,
                 <<"cks", << <<"len", 1>>, <<"address", a>> >> >> >>

\* make_response: 64 <cmd> <status> <len> <payload> <cks>.
Response(cmd, status, payload) ==
  LET head == <<"head", status, Len(payload)>>
  IN  <<Magic, cmd, head>> \o payload \o << <<"cks", <<head>> \o payload>> >>

\* The bytes of sector a of an image.
SectorData(image, a) == [k \in 1..SectorLen |-> <<"data", image, a, k>>]

\* What damage makes of a token: a length it changes is plausible or not, and
\* a head it changes announces anything; the rest becomes a wrong byte.
Damaged(token) ==
  CASE token[1] = "len"  -> {<<"len", n>> : n \in 0..TooLong}
    [] token[1] = "head" -> {<<"head", s, n>> : s \in Statuses, n \in 0..SectorLen + 1}
    [] OTHER             -> {Junk}

-----------------------------------------------------------------------------
(* The FPGA. *)

Receiving == state \in {"RX_MAGIC", "RX_CMD", "RX_HEAD", "RX_DATA", "RX_CKSUM"}
Valid     == state = "SERVE" /\ loaded = wanted

Init ==
  /\ wanted \in Sectors
  /\ state = "SERVE" /\ fill = NoSector /\ loaded = NoSector /\ asked = 0
  /\ tx_idx = 1 /\ r_head = <<"error", 0>> /\ r_idx = 0 /\ acc = <<>>
  /\ sec_buf = [k \in 1..SectorLen |-> Junk]
  /\ up = <<>> /\ down = <<>>
  /\ buf = <<>> /\ mounted = 0 /\ mounts = 0
  /\ losses = 0 /\ stalls = 0 /\ resets = 0

Faulty == losses + stalls + resets < MaxFaults  \* another fault may come

\* The oldest image a fetch that starts now may be answered from.
Current == IF mounted = 0 THEN mounts + 1 ELSE mounted

\* Leave SERVE to fetch address a.
Fetch(a) ==
  /\ state' = "TX_ISSUE" /\ fill' = a /\ asked' = Current
  /\ tx_idx' = 1
  /\ UNCHANGED <<loaded, r_head, r_idx, acc, sec_buf>>

\* SERVE with req_change: the address under the head is not the one loaded.
Serve ==
  /\ state = "SERVE" /\ wanted # loaded
  /\ Fetch(wanted)
  /\ UNCHANGED <<wanted, up, down, host, faults>>

\* TX_ISSUE, TX_BUSY, TX_DRAIN: the next part of the request goes out.
Issue ==
  /\ state = "TX_ISSUE"
  /\ up' = Append(up, Request(fill)[tx_idx])
  /\ IF tx_idx = Len(Request(fill))
       THEN state' = "RX_MAGIC" /\ UNCHANGED tx_idx
       ELSE tx_idx' = tx_idx + 1 /\ UNCHANGED state
  /\ UNCHANGED <<wanted, fill, loaded, asked, r_head, r_idx, acc, sec_buf,
                 down, host, faults>>

\* Start the request over for the same address.
ReIssue == state' = "TX_ISSUE" /\ tx_idx' = 1

\* What each receiving state does with a byte.
TakeMagic(token) ==
  /\ state = "RX_MAGIC"
  /\ state' = IF token = Magic THEN "RX_CMD" ELSE state
  /\ UNCHANGED <<loaded, tx_idx, r_head, r_idx, acc, sec_buf>>

TakeCmd(token) ==
  /\ state = "RX_CMD"
  /\ state' = IF token = Cmd THEN "RX_HEAD" ELSE "RX_MAGIC"
  /\ acc' = IF token = Cmd THEN <<>> ELSE acc
  /\ UNCHANGED <<loaded, tx_idx, r_head, r_idx, sec_buf>>

\* RX_STATUS, RX_LENLO, RX_LENHI: bytes that are not a head read as any.
TakeHead(token) ==
  /\ state = "RX_HEAD"
  /\ r_head' \in IF token[1] = "head" THEN {<<token[2], token[3]>>}
                 ELSE Statuses \X (0..SectorLen + 1)
  /\ acc' = Append(acc, token)
  /\ r_idx' = 0
  /\ state' = IF r_head'[2] = 0 THEN "RX_CKSUM" ELSE "RX_DATA"
  /\ UNCHANGED <<loaded, tx_idx, sec_buf>>

\* The buffer takes what fits; the state ends after r_len bytes.
TakeData(token) ==
  /\ state = "RX_DATA"
  /\ sec_buf' = IF r_idx < SectorLen THEN [sec_buf EXCEPT ![r_idx + 1] = token]
                ELSE sec_buf
  /\ acc' = Append(acc, token)
  /\ IF r_idx = r_head[2] - 1
       THEN state' = "RX_CKSUM" /\ UNCHANGED r_idx
       ELSE r_idx' = r_idx + 1 /\ UNCHANGED state
  /\ UNCHANGED <<loaded, tx_idx, r_head>>

\* Mutant of Accepted: the checksum is not compared.
Accepted_Unchecked(token) == r_head = <<"ok", SectorLen>>

\* RX_CKSUM: the answer counts if its checksum, its status and its length are
\* those of a good sector.
Accepted(token) == token = <<"cks", acc>> /\ r_head = <<"ok", SectorLen>>

TakeChecksum(token) ==
  /\ state = "RX_CKSUM"
  /\ IF Accepted(token)
       THEN loaded' = fill /\ state' = "SERVE" /\ UNCHANGED tx_idx
       ELSE ReIssue /\ UNCHANGED loaded
  /\ UNCHANGED <<r_head, r_idx, acc, sec_buf>>

\* A byte reaches the FPGA; outside the receiving states nothing reads it.
Receive ==
  /\ down # <<>>
  /\ down' = Tail(down)
  /\ \/ TakeMagic(Head(down)) \/ TakeCmd(Head(down)) \/ TakeHead(Head(down))
     \/ TakeData(Head(down)) \/ TakeChecksum(Head(down))
     \/ ~Receiving /\ UNCHANGED <<state, loaded, parser>>
  /\ UNCHANGED <<wanted, fill, asked, up, host, faults>>

-----------------------------------------------------------------------------
(* The PC: one iteration of the loop of _consume per action. *)

Garbage == buf # <<>> /\ Head(buf) # Magic

\* The payload length bytes 2 and 3 announce.  Where they are not a length,
\* a second magic reads as a plausible one (560), the rest as one too long.
Announced == CASE buf[2][1] = "len" -> buf[2][2]
               [] buf[2] = Magic    -> WildLen
               [] OTHER             -> TooLong

Headed      == Len(buf) >= 2 /\ Head(buf) = Magic
Implausible == Headed /\ Announced = TooLong
Framed      == Headed /\ ~Implausible /\ Len(buf) >= 3 + Announced
Idle        == ~(Garbage \/ Implausible \/ Framed)

\* port.read: only when _consume can do nothing more with what it has.
HostReads ==
  /\ Idle /\ up # <<>>
  /\ buf' = Append(buf, Head(up)) /\ up' = Tail(up)
  /\ UNCHANGED <<wanted, drive, parser, down, mounted, mounts, faults>>

\* Bytes before a magic are dropped; if one of them is a newline (sector 10
\* or 13, or any damaged byte) they are an ASCII line, answered by a text.
HostResyncs ==
  /\ Garbage
  /\ buf' = Tail(buf)
  /\ \E answer \in {<<>>, <<Text>>} : down' = down \o answer
  /\ UNCHANGED <<wanted, drive, parser, up, mounted, mounts, faults>>

HostDropsMagic ==
  /\ Implausible
  /\ buf' = Tail(buf)
  /\ UNCHANGED <<wanted, drive, parser, up, down, mounted, mounts, faults>>

\* handle_binary of CMD_SECTOR: read_sector fails without a disk and for an
\* address past the end of its track.
Answer(a) == IF mounted # 0 /\ a \in Sectors
               THEN Response(Cmd, "ok", SectorData(mounted, a))
               ELSE Response(Cmd, "error", <<Text>>)

\* A whole frame: a wrong checksum is answered too, under the command that
\* was read, which may be another; a right one is that of a sector request.
HostAnswers ==
  /\ Framed
  /\ LET size    == 3 + Announced
         covered == SubSeq(buf, 2, size - 1)
     IN  /\ buf' = SubSeq(buf, size + 1, Len(buf))
         /\ IF buf[size] = <<"cks", covered>>
              THEN down' = down \o Answer(covered[2][2])
              ELSE \E cmd \in {Cmd, Junk} :
                     down' = down \o Response(cmd, "error", <<Text>>)
  /\ UNCHANGED <<wanted, drive, parser, up, mounted, mounts, faults>>

\* The user mounts an image in the GUI, or changes the folder (set_folder),
\* which leaves the drive empty.
Mount ==
  /\ mounts < MaxMounts
  /\ mounts' = mounts + 1 /\ mounted' = mounts + 1
  /\ UNCHANGED <<wanted, drive, parser, up, down, buf, faults>>

Eject ==
  /\ mounted # 0 /\ mounts < MaxMounts
  /\ mounted' = 0
  /\ UNCHANGED <<wanted, drive, parser, up, down, buf, mounts, faults>>

-----------------------------------------------------------------------------
(* The watchdog, the head, the line and the reset. *)

\* Everything sent was used up and nobody is about to send.
Quiet == up = <<>> /\ down = <<>> /\ Idle

\* Mutant of Watchdog: it runs only until an answer begins.
Watchdog_UntilMagic ==
  /\ state = "RX_MAGIC"
  /\ Quiet \/ Faulty
  /\ ReIssue
  /\ stalls' = IF Quiet THEN stalls ELSE stalls + 1
  /\ UNCHANGED <<wanted, fill, loaded, asked, r_head, r_idx, acc, sec_buf,
                 up, down, host, losses, resets>>

\* The inter-byte watchdog.  It outlasts an answer that is on its way, but
\* for the times when the PC was held up for longer than TIMEOUT_CYC.
Watchdog ==
  /\ Receiving
  /\ Quiet \/ Faulty
  /\ ReIssue
  /\ stalls' = IF Quiet THEN stalls ELSE stalls + 1
  /\ UNCHANGED <<wanted, fill, loaded, asked, r_head, r_idx, acc, sec_buf,
                 up, down, host, losses, resets>>

\* The disk turns under the head, or the head steps to another track.
HeadMoves ==
  /\ wanted' \in Sectors \ {wanted}
  /\ UNCHANGED <<drive, parser, up, down, host, faults>>

\* A step onto a track with fewer sectors: the sector number is past its end
\* for one clock, in which a source that serves leaves for it.
ZoneCrossing ==
  /\ ZoneCrossings
  /\ state = "SERVE"
  /\ Fetch(IllegalSector)
  /\ wanted' \in Sectors
  /\ UNCHANGED <<up, down, host, faults>>

\* The line loses or changes the next token it delivers.
LoseUp ==
  /\ up # <<>> /\ Faulty
  /\ up' \in {Tail(up)} \cup {<<t>> \o Tail(up) : t \in Damaged(Head(up))}
  /\ losses' = losses + 1
  /\ UNCHANGED <<wanted, drive, parser, down, host, stalls, resets>>

LoseDown ==
  /\ down # <<>> /\ Faulty
  /\ down' \in {Tail(down)} \cup {<<t>> \o Tail(down) : t \in Damaged(Head(down))}
  /\ losses' = losses + 1
  /\ UNCHANGED <<wanted, drive, parser, up, host, stalls, resets>>

\* The board is reset; the PC and what it sends are not.
Reset ==
  /\ Faulty
  /\ resets' = resets + 1
  /\ state' = "SERVE" /\ loaded' = NoSector /\ tx_idx' = 1 /\ acc' = <<>>
  /\ UNCHANGED <<wanted, fill, asked, r_head, r_idx, sec_buf, up, down, host,
                 losses, stalls>>

FpgaMoves == Serve \/ Issue \/ Receive \/ Watchdog
HostMoves == HostReads \/ HostResyncs \/ HostDropsMagic \/ HostAnswers
UserMoves == Mount \/ Eject
LineFails == LoseUp \/ LoseDown

Next == FpgaMoves \/ HostMoves \/ UserMoves \/ LineFails
        \/ HeadMoves \/ ZoneCrossing \/ Reset

Spec     == Init /\ [][Next]_vars
FairSpec == Spec /\ WF_vars(FpgaMoves) /\ WF_vars(HostMoves)

-----------------------------------------------------------------------------
(* Properties. *)

Tokens == {Magic, Cmd, Text, Junk}
          \cup {"len"} \X (0..TooLong) \cup {"address"} \X Addresses
          \cup {"head"} \X Statuses \X (0..SectorLen + 1)
          \cup {"data"} \X Images \X Addresses \X (1..SectorLen)

CheckedTokens == Tokens \cup {"cks"} \X Seq(Tokens)

\* Every variable has its type, and a payload still being received is shorter
\* than the length its head announced (the counter never runs past r_len).
TypeOK ==
  /\ wanted \in Sectors
  /\ state \in {"SERVE", "TX_ISSUE"} \/ Receiving
  /\ {fill, loaded} \subseteq Addresses \cup {NoSector}
  /\ tx_idx \in 1..4 /\ r_head \in Statuses \X (0..SectorLen + 1)
  /\ r_idx \in 0..SectorLen /\ (state = "RX_DATA" => r_idx < r_head[2])
  /\ acc \in Seq(CheckedTokens)
  /\ sec_buf \in [1..SectorLen -> CheckedTokens]
  /\ {up, down, buf} \subseteq Seq(CheckedTokens)
  /\ asked \in 0..MaxMounts + 1 /\ mounts \in 0..MaxMounts /\ mounted \in 0..mounts
  /\ {losses, stalls, resets} \subseteq 0..MaxFaults

\* No watchdog expired early and no reset cut a fetch short.
Punctual == stalls = 0 /\ resets = 0

\* While valid is high the buffer holds one sector of one image, whole, whatever
\* the line lost or changed, however late the PC is and whenever the board was
\* reset: the drive never reads a mixed or damaged sector (lines 88-90 and
\* 218-228 of the sector source).
WholeSector ==
  Valid => \E image \in Images, a \in Sectors : sec_buf = SectorData(image, a)

\* It is moreover the sector under the head, and of an image that was in the
\* drive at or after the moment the fetch began, if no answer was later than
\* the watchdog: frames do not name their sector.
AnswerIsFresh ==
  /\ WholeSector
  /\ Punctual /\ Valid => \E image \in Images :
                           image >= asked /\ sec_buf = SectorData(image, wanted)

\* The fetch of a sector that exists ends while a disk is in the drive,
\* whatever was lost, late or cut short by a reset (lines 229-243).
FetchServed ==
  (state # "SERVE" /\ fill \in Sectors) ~> (state = "SERVE" \/ mounted = 0)

\* What the header says of the buffer, whenever the answers come: track,
\* sector and offset select a byte, plus valid (line 4).
ValidIsWanted ==
  Valid => \E image \in Images : sec_buf = SectorData(image, wanted)

\* What the comment on the watchdog says: no fetch hangs the drive forever
\* (lines 231-232).
NeverHangs == (state # "SERVE") ~> (state = "SERVE" \/ mounted = 0)

=============================================================================
