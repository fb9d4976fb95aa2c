---------------------------- MODULE DosChannels ----------------------------
(***************************************************************************)
(* The DOS side of the virtual drive: the D64Drive and the Protocol of     *)
(* tools/virtual_1541/c64_1541_uart_gui.py.  The serial worker answers one *)
(* request at a time, in binary frames or in ASCII lines; the GUI thread   *)
(* mounts images and changes the folder meanwhile, without a lock.         *)
(*                                                                         *)
(* A method of D64Drive is an operator from a drive to [drive, exc, body]. *)
(* What both threads assign (a mount, a change of folder) goes assignment  *)
(* by assignment; OPEN and B-R fetch their bytes in one step and store     *)
(* them in a channel in the next; the other methods are one step, for they *)
(* use one of the shared fields, or use them only to write a text.         *)
(***************************************************************************)
EXTENDS Integers, Sequences, FiniteSets

CONSTANTS
  Disks,        \* the images there are, 1..n
  Folders,      \* the sets of images the user's folders hold
  DirOf,        \* [Disks -> sequences of [name, type, at]]; <<>>: not a D64
  Sectors,      \* the legal <<track, sector>>
  Link,         \* [Disks -> [Sectors -> [next, used]]]; next <<0, 0>>: last
  SectorSize,   \* bytes of a sector
  Matches,      \* the names each pattern matches (fnmatch)
  Channels,     \* the channels in use, 15 among them
  Specs,        \* what clients open: [name, type, mode], mode a set of letters
  BlockArgs,    \* the arguments of B-R: sequences of [n, zero], zero: "08"
  Pointers,     \* the arguments of B-P: <<channel, position>>
  Sizes,        \* the lengths of READ
  MaxRequests, MaxChanges   \* bounds: requests, and changes made by the GUI

NoChannel == 16
NoEof     == <<NoChannel, 0>>

LOADABLE_TYPES == {"PRG", "SEQ", "USR"}

ASSUME DosAssumption ==
  /\ Channels \subseteq 0..15 /\ {2, 15} \subseteq Channels
  /\ Disks \subseteq Nat \ {0} /\ Folders \subseteq SUBSET Disks
  /\ \A d \in Disks, s \in Sectors : Link[d][s].next \in Sectors \cup {<<0, 0>>}
  /\ IsFiniteSet(Sectors) /\ \A d \in Disks, s \in Sectors : Link[d][s].used \in Nat
  /\ Pointers \subseteq Channels \X Nat /\ Sizes \subseteq Nat /\ SectorSize \in Nat

VARIABLES
  drive,     \* [folder, images, path, data, entries, ok, channels]; of a
             \* channel, got (the bytes READ since OPEN) and calm (its OPEN met
             \* no change of disk) are history
  gui,       \* the GUI thread: [doing, disk, folder, step]
  worker,    \* the serial worker: [doing, disk, channel, data, calm, ascii]
  eof,       \* <<channel, length>> of the READ last answered with EOF, or NoEof
  event,     \* a "mounted" event waits for _poll_events
  shown,     \* [path, entries] the window shows; missed is history: a change of
             \* folder failed and nothing has refreshed the window since
  requests, changes,
  mixed      \* history: the last change of disk met one of the other thread

vars == <<drive, gui, worker, eof, event, shown, requests, changes, mixed>>

-----------------------------------------------------------------------------
(* The methods of D64Drive. *)

Opened(data, quiet) ==
  [open |-> TRUE, data |-> data, pos |-> 0, got |-> <<>>, calm |-> quiet]
Closed     == [Opened(<<>>, TRUE) EXCEPT !.open = FALSE]
NoChannels == [c \in Channels |-> Closed]

Ret(d, body)  == [drive |-> d, exc |-> "none", body |-> body]
Raise(d, exc) == [drive |-> d, exc |-> exc, body |-> <<>>]

\* Of the status line, the drive itself only asks whether it is "00, OK".
SetStatus(d, code)  == [d EXCEPT !.ok = (code = 0)]
Put(d, c, contents) == [d EXCEPT !.channels[c] = contents]

\* Codes 0 and 74 are "OK" and "DRIVE NOT READY".
StatusPayload(d) ==
  LET told == IF d.path = 0 /\ d.ok THEN SetStatus(d, 74) ELSE d
  IN  Ret(told, << <<"status", told.ok>> >>)

\* SetStatus, and the answer with it.
Report(d, code) == StatusPayload(SetStatus(d, code))

RequireDisk(d, result) ==
  IF d.data = 0 THEN Raise(SetStatus(d, 74), "RuntimeError") ELSE result

Broken == << <<"broken", 0>> >>
Zeros  == [i \in 1..SectorSize |-> <<"zero", 0>>]

\* The bytes of a sector and of what follows it, which comes from `from'; a
\* chain may not come back to a sector it has seen.
FollowLink(disk, from, at, seen) ==
  LET link  == Link[disk][at]
      bytes == [i \in 1..link.used |-> <<"file", disk, at, i>>]
      rest  == IF link.next \in Sectors \ (seen \cup {at})
                 THEN from[<<link.next, seen \cup {at}>>] ELSE Broken
  IN  CASE link.next = <<0, 0>> -> bytes
        [] link.next # <<0, 0>> /\ rest = Broken -> Broken
        [] OTHER -> bytes \o rest

\* The bytes from a sector to the end of its chain.
Chain(disk) ==
  LET from[walk \in Sectors \X SUBSET Sectors] == FollowLink(disk, from, walk[1], walk[2])
  IN  from

\* A file shorter than its load address is refused.
FollowPrgChain(disk, at) ==
  LET bytes == IF at \in Sectors THEN Chain(disk)[<<at, {}>>] ELSE Broken
  IN  IF Len(bytes) < 2 THEN Broken ELSE bytes

LoadEntry(d, entry) ==
  LET bytes == FollowPrgChain(d.data, entry.at)
  IN  IF bytes = Broken THEN Raise(d, "ValueError") ELSE Ret(d, bytes)

\* The directory: its title and free blocks are on the disk, its lines in
\* the entries.
DirectoryPayload(d) == RequireDisk(d, Ret(d, << <<"dir", d.data, d.entries>> >>))

Directory(d) == IF d.entries = 0 THEN <<>> ELSE DirOf[d.entries]

FirstOf(entries, d) ==
  IF entries = <<>> THEN Raise(d, "FileNotFoundError") ELSE LoadEntry(d, entries[1])

\* find_load_entry and load_entry: the exact name before the pattern.
LoadNamed(d, name, type) ==
  LET allowed == IF type = "" THEN LOADABLE_TYPES ELSE {type}
      usable  == SelectSeq(Directory(d), LAMBDA e : e.type \in allowed)
      exact   == SelectSeq(usable, LAMBDA e : e.name = name)
      similar == SelectSeq(usable, LAMBDA e : e.name \in Matches[name])
  IN  RequireDisk(d, CASE name = "*"                   -> FirstOf(usable, d)
                       [] name # "*" /\ exact # <<>>   -> FirstOf(exact, d)
                       [] OTHER                        -> FirstOf(similar, d))

LoadFile(d, name, type) ==
  IF name = "$" THEN DirectoryPayload(d) ELSE LoadNamed(d, name, type)

\* LOADCHUNK and LOADFIRSTCHUNK read the whole file for each chunk.
LoadChunk(d, name, offset, size) ==
  LET whole == LoadFile(d, name, "")
      end   == IF offset + size < Len(whole.body) THEN offset + size ELSE Len(whole.body)
  IN  [whole EXCEPT !.body = SubSeq(whole.body, offset + 1, end)]

ReadSector(d, at) ==
  RequireDisk(d, IF at \in Sectors
                   THEN Ret(d, [i \in 1..SectorSize |-> <<"sector", d.data, at, i>>])
                   ELSE Raise(SetStatus(d, 66), "ValueError"))

\* _numbers: int(part, 0) drops what it cannot read, and numbers that begin
\* with a zero are among it.
Numbers(args) ==
  LET read == SelectSeq(args, LAMBDA a : ~a.zero)
  IN  [k \in 1..Len(read) |-> read[k].n]

\* _parse_block_command: <<channel, track, sector>>.
BlockAddress(args) ==
  LET n == Numbers(args)
  IN  CASE Len(n) >= 4 -> <<n[1] % 16, n[3], n[4]>>
        [] Len(n) = 3  -> <<n[1] % 16, n[2], n[3]>>
        [] Len(n) = 2  -> <<2, n[1], n[2]>>
        [] OTHER       -> <<>>

\* I, UI (0) and UJ (73).
Initialize(d, code) ==
  Report([d EXCEPT !.channels = NoChannels], IF d.path = 0 THEN 74 ELSE code)

Validate(d) == RequireDisk(d, Report(d, 0))

\* B-P: a channel not open becomes a buffer.
BufferPointer(d, c, pos) ==
  LET ch  == IF d.channels[c].open THEN d.channels[c]
             ELSE Opened(Zeros, TRUE)
      at  == IF pos % 256 < Len(ch.data) THEN pos % 256 ELSE Len(ch.data)
  IN  Report(Put(d, c, [ch EXCEPT !.pos = at, !.got = Broken]), 0)

\* B-W, N:, ... (26), M-R (31) and what is no command (30).
Refuse(d, code) == Report(d, code)

CloseChannel(d, c) == Report(Put(d, c, Closed), 0)

\* Mutant of ReadChannel: a READ of the last bytes already says END OF FILE.
ReadChannel_EofEarly(d, c, size) ==
  LET ch   == d.channels[c]
      end  == IF ch.pos + size < Len(ch.data) THEN ch.pos + size ELSE Len(ch.data)
      out  == SubSeq(ch.data, ch.pos + 1, end)
      next == Put(d, c, [ch EXCEPT !.pos = end])
  IN  CASE c = 15 -> StatusPayload(d)
        [] c # 15 /\ ~ch.open -> Raise(SetStatus(d, 61), "RuntimeError")
        [] OTHER -> Ret(SetStatus(next, IF end = Len(ch.data) THEN 64 ELSE 0),
                        IF end = Len(ch.data) THEN <<>> ELSE out)

\* Channel 15 answers with the status.
ReadChannel(d, c, size) ==
  LET ch   == d.channels[c]
      end  == IF ch.pos + size < Len(ch.data) THEN ch.pos + size ELSE Len(ch.data)
      out  == SubSeq(ch.data, ch.pos + 1, end)
      next == Put(d, c, [ch EXCEPT !.pos = end,
                                   !.got = IF @ = Broken THEN @ ELSE @ \o out])
  IN  CASE c = 15 -> StatusPayload(d)
        [] c # 15 /\ ~ch.open -> Raise(SetStatus(d, 61), "RuntimeError")
        [] OTHER -> Ret(SetStatus(next, IF out = <<>> /\ end = Len(ch.data) THEN 64 ELSE 0),
                        out)

-----------------------------------------------------------------------------
(* The two threads. *)

Idle    == [doing |-> "idle", disk |-> 0, folder |-> {}, step |-> 0]
Waiting == [doing |-> "idle", disk |-> 0, step |-> 0, channel |-> 0, data |-> <<>>,
            calm |-> TRUE, ascii |-> FALSE]

\* The program starts with a disk when its settings name one of the folder.
Init ==
  \E f \in Folders : \E d \in {0} \cup {disk \in f : DirOf[disk] # <<>>} :
    /\ drive = [folder |-> f, images |-> f, path |-> d, data |-> d, entries |-> d,
                ok |-> d # 0, channels |-> NoChannels]
    /\ gui = Idle /\ worker = Waiting
    /\ eof = NoEof
    /\ event = FALSE /\ shown = [path |-> d, entries |-> d, missed |-> FALSE]
    /\ requests = 0 /\ changes = 0
    /\ mixed = FALSE

\* Mutant of MountStep: the channels of the last disk stay open.
MountStep_Keeps(d, disk, step) ==
  CASE step = 1 -> [d EXCEPT !.path = disk]
    [] step = 2 -> [d EXCEPT !.data = disk]
    [] step = 3 -> [d EXCEPT !.entries = disk]
    [] step = 4 -> d
    [] OTHER    -> SetStatus(d, 0)

\* The assignments of mount, once the image was read and its directory parsed.
MountStep(d, disk, step) ==
  CASE step = 1 -> [d EXCEPT !.path = disk]
    [] step = 2 -> [d EXCEPT !.data = disk]
    [] step = 3 -> [d EXCEPT !.entries = disk]
    [] step = 4 -> [d EXCEPT !.channels = NoChannels]
    [] OTHER    -> SetStatus(d, 0)

\* The assignments of set_folder; the last is rescan.
FolderStep(d, folder, step) ==
  CASE step = 1 -> [d EXCEPT !.folder = folder, !.path = 0]
    [] step = 2 -> [d EXCEPT !.data = 0]
    [] step = 3 -> [d EXCEPT !.entries = 0]
    [] step = 4 -> [d EXCEPT !.channels = NoChannels]
    [] step = 5 -> SetStatus(d, 74)
    [] OTHER    -> [d EXCEPT !.images = d.folder]

\* _resolve_image, is_supported_size and the parse of the directory.
CanMount(d, disk) == disk \in d.images /\ DirOf[disk] # <<>>

Changing(thread) == thread.doing \in {"mount", "folder"}

\* A change of disk begins in one thread.
Begins(other) ==
  /\ mixed' = Changing(other)
  /\ UNCHANGED <<drive, event, shown>>

\* _mount_selected, _mount_initial_image and _rescan.
GuiBegins ==
  /\ gui.doing = "idle" /\ changes < MaxChanges
  /\ changes' = changes + 1
  /\ \/ \E disk \in Disks : CanMount(drive, disk)
                            /\ gui' = [Idle EXCEPT !.doing = "mount", !.disk = disk, !.step = 1]
     \/ \E f \in Folders : gui' = [Idle EXCEPT !.doing = "folder", !.folder = f, !.step = 1]
  /\ Begins(worker)
  /\ worker' = [worker EXCEPT !.calm = FALSE]
  /\ UNCHANGED <<eof, requests>>

GuiAssigns ==
  /\ \/ gui.doing = "mount" /\ gui.step <= 5 /\ drive' = MountStep(drive, gui.disk, gui.step)
     \/ gui.doing = "folder" /\ gui.step <= 6
        /\ drive' = FolderStep(drive, gui.folder, gui.step)
  /\ gui' = [gui EXCEPT !.step = @ + 1]
  /\ UNCHANGED <<worker, eof, event, shown, requests, changes, mixed>>

\* _refresh_directory.
Refresh == shown' = [path |-> drive.path, entries |-> drive.entries, missed |-> FALSE]

GuiEnds ==
  /\ <<gui.doing, gui.step>> \in {<<"mount", 6>>, <<"folder", 7>>}
  /\ gui' = Idle /\ Refresh
  /\ UNCHANGED <<drive, worker, eof, event, requests, changes, mixed>>

\* The folder cannot be listed: _rescan catches what iterdir raised, the disk is
\* out, the old images stay listed, and nobody refreshes the window.
FolderFails ==
  /\ gui.doing = "folder" /\ gui.step = 6
  /\ gui' = Idle /\ shown' = [shown EXCEPT !.missed = TRUE]
  /\ UNCHANGED <<drive, worker, eof, event, requests, changes, mixed>>

\* _poll_events: the worker mounted an image.
GuiPolls ==
  /\ gui.doing = "idle" /\ event
  /\ event' = FALSE /\ Refresh
  /\ UNCHANGED <<drive, gui, worker, eof, requests, changes, mixed>>

-----------------------------------------------------------------------------
(* handle_binary and handle_ascii. *)

Asked ==
  /\ worker.doing = "idle" /\ requests < MaxRequests
  /\ requests' = requests + 1

Answer(result) ==
  /\ drive' = result.drive
  /\ eof' = NoEof

Quietly == UNCHANGED <<gui, event, shown, changes, mixed>>

\* PING, and requests that are refused before the drive sees them.
Refused ==
  /\ Asked /\ Quietly
  /\ eof' = NoEof
  /\ UNCHANGED <<drive, worker>>

\* LIST looks into the folder again, which may fail.
Images ==
  /\ Asked /\ Quietly
  /\ \/ Answer(Ret([drive EXCEPT !.images = drive.folder], <<>>))
     \/ Answer(Raise(drive, "OSError"))
  /\ UNCHANGED worker

Mount(disk, ascii) ==
  /\ Asked /\ CanMount(drive, disk)
  /\ worker' = [Waiting EXCEPT !.doing = "mount", !.disk = disk, !.step = 1, !.ascii = ascii]
  /\ Begins(gui)
  /\ UNCHANGED <<gui, eof, changes>>

MountNot(disk) ==
  /\ Asked /\ ~CanMount(drive, disk) /\ Quietly
  /\ Answer(Raise(drive, IF disk \in drive.images THEN "ValueError" ELSE "FileNotFoundError"))
  /\ UNCHANGED worker

MountAssigns ==
  /\ worker.doing = "mount" /\ worker.step <= 5
  /\ drive' = MountStep(drive, worker.disk, worker.step)
  /\ worker' = [worker EXCEPT !.step = @ + 1]
  /\ UNCHANGED <<gui, eof, event, shown, requests, changes, mixed>>

\* Mutant of MountEnds: the window is not told.
MountEnds_Silent ==
  /\ worker.doing = "mount" /\ worker.step = 6
  /\ worker' = Waiting
  /\ Answer(StatusPayload(drive))
  /\ UNCHANGED <<gui, event, shown, requests, changes, mixed>>

\* The ASCII answer has the name of mounted_path, which the GUI may have
\* taken away by now.
MountEnds ==
  /\ worker.doing = "mount" /\ worker.step = 6
  /\ worker' = Waiting /\ event' = TRUE
  /\ Answer(CASE ~worker.ascii                  -> StatusPayload(drive)
              [] worker.ascii /\ drive.path = 0 -> Raise(drive, "AttributeError")
              [] OTHER                          -> Ret(drive, <<>>))
  /\ UNCHANGED <<gui, shown, requests, changes, mixed>>

\* DIR, LOAD, LOADFIRST, the chunks, SECTOR, STATUS, V and what is refused:
\* the channels keep their bytes.
Told ==
  /\ Asked /\ Quietly
  /\ \/ Answer(DirectoryPayload(drive))
     \/ \E f \in Specs : Answer(LoadFile(drive, f.name, ""))
     \/ \E size \in Sizes : Answer(LoadChunk(drive, "*", 0, size))
     \/ \E at \in Sectors \cup {<<0, 0>>} : Answer(ReadSector(drive, at))
     \/ Answer(StatusPayload(drive))
     \/ Answer(Validate(drive))
     \/ \E code \in {26, 30, 31} : Answer(Refuse(drive, code))
  /\ UNCHANGED worker

Initializes ==
  /\ Asked /\ Quietly
  /\ \E code \in {0, 73} : Answer(Initialize(drive, code))
  /\ UNCHANGED worker

\* A channel is about to get these bytes, or the request fails.
Fetch(c, result) ==
  IF result.exc = "none"
    THEN /\ worker' = [Waiting EXCEPT !.doing = "store", !.channel = c, !.data = result.body,
                                      !.calm = gui.doing = "idle"]
         /\ drive' = result.drive /\ UNCHANGED eof
    ELSE Answer(result) /\ UNCHANGED worker

BlockRead(args) ==
  /\ Asked /\ Quietly
  /\ LET at == BlockAddress(args)
     IN  IF at = <<>> THEN Answer(Raise(SetStatus(drive, 30), "ValueError"))
                           /\ UNCHANGED worker
                      ELSE Fetch(at[1], ReadSector(drive, <<at[2], at[3]>>))

MovePointer(c, pos) ==
  /\ Asked /\ Quietly
  /\ Answer(BufferPointer(drive, c, pos))
  /\ UNCHANGED worker

\* A comma of an ASCII OPEN becomes a space: type and mode end in the name.
AsciiSpec(f) ==
  IF f.type = "" /\ f.mode = {} THEN f
  ELSE [f EXCEPT !.name = "none of the disk", !.type = "", !.mode = {}]

\* open_channel of a file; a missing one leaves the channel as it was.
Open(c, spec, ascii) ==
  /\ Asked /\ Quietly /\ c # 15
  /\ LET f      == IF ascii THEN AsciiSpec(spec) ELSE spec
         loaded == LoadFile(drive, f.name, f.type)
         result == IF loaded.exc = "FileNotFoundError"
                     THEN Raise(SetStatus(loaded.drive, 62), loaded.exc) ELSE loaded
     IN  CASE f.name = "#" -> Fetch(c, Ret(drive, Zeros))
           [] f.name # "#" /\ {"W", "A"} \cap f.mode # {} ->
                Answer(Report(drive, 26)) /\ UNCHANGED worker
           [] OTHER -> Fetch(c, result)

\* The command channel; a name with it is a command (Told, Initializes).
OpenStatus ==
  /\ Asked /\ Quietly
  /\ Answer(StatusPayload(Put(drive, 15, Opened(<<>>, TRUE))))
  /\ UNCHANGED worker

\* The second half of OPEN and B-R.
Stores ==
  /\ worker.doing = "store"
  /\ LET c == worker.channel
     IN  Answer(Report(Put(drive, c, Opened(worker.data, worker.calm)), 0))
  /\ worker' = Waiting
  /\ UNCHANGED <<gui, event, shown, requests, changes, mixed>>

Close(c) ==
  /\ Asked /\ Quietly
  /\ Answer(CloseChannel(drive, c))
  /\ UNCHANGED worker

\* A READ that brings nothing says EOF (in ASCII: "DATA 0"), even if it asked for
\* nothing.
Read(c, size) ==
  /\ Asked /\ Quietly
  /\ LET result == ReadChannel(drive, c, size)
         empty  == result.exc = "none" /\ result.body = <<>> /\ c # 15
     IN  /\ drive' = result.drive
         /\ eof' = IF empty THEN <<c, size>> ELSE NoEof
  /\ UNCHANGED worker

\* WRITE to channel 15 is a command; elsewhere it is refused.
Write(c) ==
  /\ Asked /\ Quietly /\ c # 15
  /\ Answer(Report(drive, 26))
  /\ UNCHANGED worker

Next ==
  \/ GuiBegins \/ GuiAssigns \/ GuiEnds \/ FolderFails \/ GuiPolls
  \/ Refused \/ Images \/ MountAssigns \/ MountEnds \/ Stores
  \/ Told \/ Initializes \/ OpenStatus
  \/ \E disk \in Disks : MountNot(disk) \/ \E ascii \in BOOLEAN : Mount(disk, ascii)
  \/ \E args \in BlockArgs : BlockRead(args)
  \/ \E p \in Pointers : MovePointer(p[1], p[2])
  \/ \E c \in Channels :
       \/ Close(c) \/ Write(c)
       \/ \E f \in Specs, ascii \in BOOLEAN : Open(c, f, ascii)
       \/ \E size \in Sizes : Read(c, size)

Spec == Init /\ [][Next]_vars

-----------------------------------------------------------------------------
(* What the drive promises. *)

Quiet == gui.doing = "idle" /\ worker.doing = "idle"

\* The READs of a channel deliver the bytes it was opened with, each once and
\* in order, whatever is asked of the drive between them, and END OF FILE to a
\* READ that asked for a byte means that they were all delivered (a channel
\* whose pointer B-P moved is another matter).  Protocol: "READ advances the
\* current channel position"; code: open_channel, read_channel and
\* handle_binary's EOF.
AtEnd(c) == eof[1] = c /\ eof[2] # 0

ReadsWhole ==
  \A c \in Channels \ {15} :
    LET ch == drive.channels[c]
    IN  ch.open /\ ch.got # Broken =>
          /\ ch.got \o SubSeq(ch.data, ch.pos + 1, Len(ch.data)) = ch.data
          /\ AtEnd(c) => ch.got = ch.data

\* That any END OF FILE means so.  It fails: a READ of no bytes is answered with
\* STATUS_EOF wherever the channel stands.
EofMeansEnd ==
  \A c \in Channels \ {15} :
    LET ch == drive.channels[c]
    IN  ch.open /\ ch.got # Broken /\ eof[1] = c => ch.got = ch.data

\* The image, its bytes and its directory are of one disk, once no change is
\* going on and the last one did not meet another.  Code: mount and set_folder.
DiskIsOne ==
  Quiet /\ ~mixed => drive.path = drive.data /\ drive.data = drive.entries

Of(disk, byte) ==
  /\ byte[1] \in {"file", "sector", "dir"} => byte[2] = disk
  /\ byte[1] = "dir" => byte[3] = disk

\* No channel still holds bytes of a disk that was taken out, unless its OPEN
\* met the change.  Code: channels.clear() in mount and set_folder.
ChannelsOfMounted ==
  Quiet /\ ~mixed =>
    \A c \in Channels : drive.channels[c].calm =>
      \A k \in DOMAIN drive.channels[c].data : Of(drive.data, drive.channels[c].data[k])

\* What the drive serves is one disk: image, bytes, directory and channels change
\* together, as far as nothing met the change.
OneDiskServed == DiskIsOne /\ ChannelsOfMounted

\* The window shows the disk that is in the drive, whichever thread put it
\* there and even if their changes met, once its event was handled; only after
\* a folder that could not be listed it may go on showing a disk that was taken
\* out, and then the drive is empty.  Code: the mounted callback, _poll_events,
\* _rescan and _refresh_directory.
WindowShowsDisk ==
  Quiet /\ ~event =>
    IF shown.missed THEN drive.path = 0 /\ drive.entries = 0
    ELSE shown.path = drive.path /\ shown.entries = drive.entries

\* That it always shows what is in the drive.  It fails: _rescan skips
\* _refresh_directory when set_folder raises.
WindowAlwaysRight ==
  Quiet /\ ~event => shown.path = drive.path /\ shown.entries = drive.entries

\* What a block read left in its channel is the sector whose numbers the
\* command gave, as "B-R expects channel,drive,track,sector" says.
BlockReadAsAsked ==
  worker.doing = "store" /\ worker.data[1][1] = "sector" =>
    \E args \in BlockArgs :
      Len(args) = 4 /\ worker.data[1][3] = <<args[3].n, args[4].n>>
=============================================================================
