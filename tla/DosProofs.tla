----------------------------- MODULE DosProofs -----------------------------
(***************************************************************************)
(* Theorems about DosChannels, for any disks, folders, names and bounds:   *)
(* the window follows the drive, the three fields that say which disk is   *)
(* in it agree, and so do the bytes its channels hold; and the READs of a  *)
(* channel deliver what was opened.  That the two threads share the drive  *)
(* without a lock is why none of it is a matter of one method.             *)
(***************************************************************************)
EXTENDS DosChannels, FiniteSetTheorems, SequenceTheorems, TLAPS

-----------------------------------------------------------------------------
(* Nothing but a change of disk assigns path, data or entries. *)

HasFields(d) ==
  {"folder", "images", "path", "data", "entries", "ok", "channels"} \subseteq DOMAIN d

SameDisk(d, e) ==
  HasFields(e) /\ e.path = d.path /\ e.data = d.data /\ e.entries = d.entries

\* A result of a method that was given d.
Keeps(result, d) ==
  {"drive", "body", "exc"} \subseteq DOMAIN result /\ SameDisk(d, result.drive)

\* Setting the status is no change of disk.
LEMMA SetStatusKeeps ==
  ASSUME NEW d, NEW code, HasFields(d)
  PROVE  SameDisk(d, SetStatus(d, code))
BY DEF HasFields, SameDisk, SetStatus

\* Nor is filling, moving or closing a channel.
LEMMA PutKeeps ==
  ASSUME NEW d, NEW c, NEW contents, HasFields(d)
  PROVE  SameDisk(d, Put(d, c, contents))
BY DEF HasFields, SameDisk, Put

\* A method's result is on the disk of the drive it leaves.
LEMMA RetKeeps ==
  ASSUME NEW d, NEW e, NEW body, SameDisk(d, e)
  PROVE  Keeps(Ret(e, body), d)
BY DEF Keeps, Ret

LEMMA RaiseKeeps ==
  ASSUME NEW d, NEW e, NEW exc, SameDisk(d, e)
  PROVE  Keeps(Raise(e, exc), d)
BY DEF Keeps, Raise

LEMMA SameItself ==
  ASSUME NEW d, HasFields(d)
  PROVE  SameDisk(d, d)
BY DEF SameDisk

LEMMA SameTransitive ==
  ASSUME NEW d, NEW e, NEW f, SameDisk(d, e), SameDisk(e, f)
  PROVE  SameDisk(d, f) /\ HasFields(e)
BY DEF SameDisk

\* The status answer may turn the status to "not ready", no more.
LEMMA StatusPayloadKeeps ==
  ASSUME NEW d, NEW e, HasFields(d), SameDisk(d, e)
  PROVE  Keeps(StatusPayload(e), d)
<1> DEFINE told == IF e.path = 0 /\ e.ok THEN SetStatus(e, 74) ELSE e
<1>1. HasFields(e)
  BY DEF SameDisk
<1>2. SameDisk(e, SetStatus(e, 74)) /\ SameDisk(e, e)
  BY <1>1, SetStatusKeeps, SameItself
<1>3. SameDisk(d, told)
  BY <1>2, SameTransitive
<1> HIDE DEF told
<1>4. Keeps(Ret(told, << <<"status", told.ok>> >>), d)
  BY <1>3, RetKeeps
<1> QED
  BY <1>4 DEF StatusPayload, told

LEMMA ReportKeeps ==
  ASSUME NEW d, NEW e, NEW code, HasFields(d), SameDisk(d, e)
  PROVE  Keeps(Report(e, code), d)
<1>1. SameDisk(d, SetStatus(e, code))
  BY SetStatusKeeps, SameTransitive DEF SameDisk
<1> QED
  BY <1>1, StatusPayloadKeeps DEF Report

LEMMA RequireDiskKeeps ==
  ASSUME NEW d, NEW result, HasFields(d), Keeps(result, d)
  PROVE  Keeps(RequireDisk(d, result), d)
<1>1. Keeps(Raise(SetStatus(d, 74), "RuntimeError"), d)
  BY SetStatusKeeps, RaiseKeeps
<1> QED
  BY <1>1 DEF RequireDisk

LEMMA DirectoryKeeps ==
  ASSUME NEW d, HasFields(d)
  PROVE  Keeps(DirectoryPayload(d), d)
<1>1. Keeps(Ret(d, << <<"dir", d.data, d.entries>> >>), d)
  BY SameItself, RetKeeps
<1> QED
  BY <1>1, RequireDiskKeeps DEF DirectoryPayload

LEMMA FirstOfKeeps ==
  ASSUME NEW d, NEW entries, HasFields(d)
  PROVE  Keeps(FirstOf(entries, d), d)
<1>1. \A exc : Keeps(Raise(d, exc), d)
  BY SameItself, RaiseKeeps
<1>2. \A body : Keeps(Ret(d, body), d)
  BY SameItself, RetKeeps
<1>3. Keeps(LoadEntry(d, entries[1]), d)
  BY <1>1, <1>2 DEF LoadEntry
<1> QED
  BY <1>1, <1>3 DEF FirstOf

\* Whatever name and type are asked for.
LEMMA LoadFileKeeps ==
  ASSUME NEW d, NEW name, NEW type, HasFields(d)
  PROVE  Keeps(LoadFile(d, name, type), d)
<1> DEFINE allowed == IF type = "" THEN LOADABLE_TYPES ELSE {type}
           usable  == SelectSeq(Directory(d), LAMBDA e : e.type \in allowed)
           exact   == SelectSeq(usable, LAMBDA e : e.name = name)
           similar == SelectSeq(usable, LAMBDA e : e.name \in Matches[name])
           chosen  == CASE name = "*"                 -> FirstOf(usable, d)
                        [] name # "*" /\ exact # <<>> -> FirstOf(exact, d)
                        [] OTHER                      -> FirstOf(similar, d)
<1>1. LoadNamed(d, name, type) = RequireDisk(d, chosen)
  BY DEF LoadNamed
<1> HIDE DEF exact, similar, usable
<1>2. \/ chosen = FirstOf(usable, d) \/ chosen = FirstOf(exact, d)
      \/ chosen = FirstOf(similar, d)
  OBVIOUS
<1> HIDE DEF chosen
<1>3. Keeps(chosen, d)
  BY <1>2, FirstOfKeeps
<1>4. Keeps(LoadNamed(d, name, type), d)
  BY <1>1, <1>3, RequireDiskKeeps
<1> QED
  BY <1>4, DirectoryKeeps DEF LoadFile

LEMMA LoadChunkKeeps ==
  ASSUME NEW d, NEW name, NEW offset, NEW size, HasFields(d)
  PROVE  Keeps(LoadChunk(d, name, offset, size), d)
<1>1. \A whole, part : Keeps(whole, d) => Keeps([whole EXCEPT !.body = part], d)
  BY DEF Keeps
<1> QED
  BY <1>1, LoadFileKeeps DEF LoadChunk

LEMMA ReadSectorKeeps ==
  ASSUME NEW d, NEW at, HasFields(d)
  PROVE  Keeps(ReadSector(d, at), d)
<1> DEFINE bytes == [i \in 1..SectorSize |-> <<"sector", d.data, at, i>>]
<1>1. Keeps(Ret(d, bytes), d)
  BY SameItself, RetKeeps
<1>2. Keeps(Raise(SetStatus(d, 66), "ValueError"), d)
  BY SetStatusKeeps, RaiseKeeps
<1> QED
  BY <1>1, <1>2, RequireDiskKeeps DEF ReadSector

LEMMA ReadChannelKeeps ==
  ASSUME NEW d, NEW c, NEW size, HasFields(d)
  PROVE  Keeps(ReadChannel(d, c, size), d)
<1> DEFINE ch   == d.channels[c]
           end  == IF ch.pos + size < Len(ch.data) THEN ch.pos + size ELSE Len(ch.data)
           out  == SubSeq(ch.data, ch.pos + 1, end)
           to   == [ch EXCEPT !.pos = end, !.got = IF @ = Broken THEN @ ELSE @ \o out]
           code == IF out = <<>> /\ end = Len(ch.data) THEN 64 ELSE 0
<1>1. ReadChannel(d, c, size)
        = CASE c = 15 -> StatusPayload(d)
            [] c # 15 /\ ~ch.open -> Raise(SetStatus(d, 61), "RuntimeError")
            [] OTHER -> Ret(SetStatus(Put(d, c, to), code), out)
  BY DEF ReadChannel
<1> HIDE DEF to, code, out, ch
<1>2. SameDisk(d, SetStatus(Put(d, c, to), code))
  BY PutKeeps, SetStatusKeeps, SameTransitive DEF SameDisk
<1>3. Keeps(Ret(SetStatus(Put(d, c, to), code), out), d)
  BY <1>2, RetKeeps
<1>4. Keeps(StatusPayload(d), d)
  BY SameItself, StatusPayloadKeeps
<1>5. Keeps(Raise(SetStatus(d, 61), "RuntimeError"), d)
  BY SetStatusKeeps, RaiseKeeps
<1> QED
  BY <1>1, <1>3, <1>4, <1>5

LEMMA BufferPointerKeeps ==
  ASSUME NEW d, NEW c, NEW pos, HasFields(d)
  PROVE  Keeps(BufferPointer(d, c, pos), d)
<1>1. \A contents : Keeps(Report(Put(d, c, contents), 0), d)
  BY PutKeeps, ReportKeeps
<1> QED
  BY <1>1 DEF BufferPointer

LEMMA InitializeKeeps ==
  ASSUME NEW d, NEW code, HasFields(d)
  PROVE  Keeps(Initialize(d, code), d)
<1>1. SameDisk(d, [d EXCEPT !.channels = NoChannels])
  BY DEF SameDisk, HasFields
<1> QED
  BY <1>1, ReportKeeps DEF Initialize

-----------------------------------------------------------------------------
(* What the steps do to the disk. *)

LEMMA MountStepSets ==
  ASSUME NEW d, NEW disk, NEW step \in Nat, HasFields(d)
  PROVE  LET e == MountStep(d, disk, step)
         IN  /\ HasFields(e)
             /\ e.path    = IF step = 1 THEN disk ELSE d.path
             /\ e.data    = IF step = 2 THEN disk ELSE d.data
             /\ e.entries = IF step = 3 THEN disk ELSE d.entries
<1>1. CASE step = 1
  BY <1>1 DEF MountStep, HasFields
<1>2. CASE step = 2
  BY <1>2 DEF MountStep, HasFields
<1>3. CASE step = 3
  BY <1>3 DEF MountStep, HasFields
<1>4. CASE step = 4
  BY <1>4 DEF MountStep, HasFields
<1>5. CASE step \notin 1..4
  <2>1. MountStep(d, disk, step) = SetStatus(d, 0)
    BY <1>5 DEF MountStep
  <2> QED
    BY <2>1, <1>5, SetStatusKeeps DEF SameDisk
<1> QED
  BY <1>1, <1>2, <1>3, <1>4, <1>5

LEMMA FolderStepSets ==
  ASSUME NEW d, NEW folder, NEW step \in Nat, HasFields(d)
  PROVE  LET e == FolderStep(d, folder, step)
         IN  /\ HasFields(e)
             /\ e.path    = IF step = 1 THEN 0 ELSE d.path
             /\ e.data    = IF step = 2 THEN 0 ELSE d.data
             /\ e.entries = IF step = 3 THEN 0 ELSE d.entries
<1>1. CASE step = 1
  <2> DEFINE e == [d EXCEPT !.folder = folder, !.path = 0]
  <2>1. FolderStep(d, folder, step) = e
    BY <1>1 DEF FolderStep
  <2>2. DOMAIN e = DOMAIN d
    OBVIOUS
  <2>3. e.path = 0 /\ e.data = d.data /\ e.entries = d.entries
    BY DEF HasFields
  <2> HIDE DEF e
  <2>4. HasFields(e)
    BY <2>2 DEF HasFields
  <2> QED
    BY <1>1, <2>1, <2>3, <2>4
<1>2. CASE step = 2
  BY <1>2 DEF FolderStep, HasFields
<1>3. CASE step = 3
  BY <1>3 DEF FolderStep, HasFields
<1>4. CASE step = 4
  BY <1>4 DEF FolderStep, HasFields
<1>5. CASE step = 5
  <2>1. FolderStep(d, folder, step) = SetStatus(d, 74)
    BY <1>5 DEF FolderStep
  <2> QED
    BY <2>1, <1>5, SetStatusKeeps DEF SameDisk
<1>6. CASE step \notin 1..5
  BY <1>6 DEF FolderStep, HasFields
<1> QED
  BY <1>1, <1>2, <1>3, <1>4, <1>5, <1>6

-----------------------------------------------------------------------------
(* The inductive invariant. *)

GuiShape ==
  /\ {"doing", "disk", "folder", "step"} \subseteq DOMAIN gui
  /\ gui.doing \in {"idle", "mount", "folder"} /\ gui.step \in Nat
  /\ gui.doing = "folder" => gui.disk = 0

WorkerShape ==
  /\ {"doing", "disk", "step", "channel", "data", "calm", "ascii"} \subseteq DOMAIN worker
  /\ worker.doing \in {"idle", "mount", "store"} /\ worker.step \in Nat

Shapes == HasFields(drive) /\ GuiShape /\ WorkerShape

\* A window that nobody will refresh shows the disk.
WindowSettled ==
  ~event /\ ~Changing(gui) /\ ~Changing(worker) =>
    IF shown.missed THEN drive.path = 0 /\ drive.entries = 0
    ELSE shown.path = drive.path /\ shown.entries = drive.entries

\* How far a change of disk has come.
SoFar(thread) ==
  /\ thread.step >= 2 => drive.path = thread.disk
  /\ thread.step >= 3 => drive.data = thread.disk
  /\ thread.step >= 4 => drive.entries = thread.disk

\* One change at a time, unless the last one met another.
OneChange ==
  ~mixed =>
    /\ ~(Changing(gui) /\ Changing(worker))
    /\ Changing(gui) => SoFar(gui)
    /\ Changing(worker) => SoFar(worker)
    /\ ~Changing(gui) /\ ~Changing(worker) =>
         drive.path = drive.data /\ drive.data = drive.entries

\* A change of the GUI that no mount of the worker met goes its way: the event of
\* one that met it waits until the change is over.
GuiUndisturbed ==
  Changing(gui) /\ ~Changing(worker) /\ ~event => SoFar(gui)

IInv == Shapes /\ WindowSettled /\ OneChange /\ GuiUndisturbed

\* A request that is no MOUNT.
Serves ==
  /\ SameDisk(drive, drive')
  /\ UNCHANGED <<gui, event, shown, mixed>>
  /\ ~Changing(worker) /\ ~Changing(worker') /\ WorkerShape'

Served ==
  \/ Refused \/ Images \/ Stores \/ Told \/ Initializes \/ OpenStatus
  \/ \E disk \in Disks : MountNot(disk)
  \/ \E args \in BlockArgs : BlockRead(args)
  \/ \E p \in Pointers : MovePointer(p[1], p[2])
  \/ \E c \in Channels :
       \/ Close(c) \/ Write(c)
       \/ \E f \in Specs, ascii \in BOOLEAN : Open(c, f, ascii)
       \/ \E size \in Sizes : Read(c, size)

\* A worker that answered, or is about to store, is not changing the disk.
LEMMA WaitingShape ==
  /\ ~Changing(Waiting)
  /\ worker' = Waiting => ~Changing(worker') /\ WorkerShape'
BY DEF Waiting, Changing, WorkerShape

LEMMA AnswerServes ==
  ASSUME Shapes, NEW result, Keeps(result, drive), Answer(result),
         UNCHANGED <<worker, gui, event, shown, mixed>>, ~Changing(worker)
  PROVE  Serves
BY DEF Shapes, Keeps, Answer, Serves, Changing, WorkerShape

LEMMA FetchServes ==
  ASSUME Shapes, NEW c, NEW result, Keeps(result, drive), Fetch(c, result),
         UNCHANGED <<gui, event, shown, mixed>>, ~Changing(worker)
  PROVE  Serves
<1>1. CASE result.exc = "none"
  <2>1. /\ drive' = result.drive
        /\ worker' = [Waiting EXCEPT !.doing = "store", !.channel = c, !.data = result.body,
                                     !.calm = gui.doing = "idle"]
    BY <1>1 DEF Fetch
  <2>2. worker'.doing = "store" /\ WorkerShape'
    BY <2>1 DEF Waiting, WorkerShape
  <2> QED
    BY <2>1, <2>2 DEF Keeps, Serves, Changing
<1>2. CASE result.exc # "none"
  BY <1>2, AnswerServes DEF Fetch
<1> QED
  BY <1>1, <1>2

LEMMA RequestsServe ==
  ASSUME Shapes, Served
  PROVE  Serves
<1> USE DEF Shapes
<1>1. Asked => ~Changing(worker)
  BY DEF Asked, Changing
<1>2. SameDisk(drive, drive)
  BY SameItself
<1>3. \A body : Keeps(Ret(drive, body), drive)
  BY <1>2, RetKeeps
<1>4. \A code : Keeps(Report(drive, code), drive)
  BY <1>2, ReportKeeps
<1>5. CASE Refused
  BY <1>1, <1>2, <1>5 DEF Refused, Quietly, Serves, Changing, WorkerShape
<1>6. CASE Images
  <2>1. SameDisk(drive, [drive EXCEPT !.images = drive.folder])
    BY DEF SameDisk, HasFields
  <2>2. Keeps(Raise(drive, "OSError"), drive)
    BY <1>2, RaiseKeeps
  <2>3. PICK result : Keeps(result, drive) /\ Answer(result)
    BY <1>6, <2>1, <2>2, RetKeeps DEF Images
  <2> QED
    BY <1>1, <1>6, <2>3, AnswerServes DEF Images, Quietly
<1>7. CASE Stores
  <2>1. \A c, contents : Keeps(Report(Put(drive, c, contents), 0), drive)
    BY PutKeeps, ReportKeeps
  <2>2. SameDisk(drive, drive') /\ worker' = Waiting
    BY <1>7, <2>1 DEF Stores, Answer, Keeps
  <2>3. ~Changing(worker)
    BY <1>7 DEF Stores, Changing
  <2> QED
    BY <1>7, <2>2, <2>3, WaitingShape DEF Stores, Serves
<1>8. CASE Told
  <2>1. \/ Answer(DirectoryPayload(drive))
        \/ \E f \in Specs : Answer(LoadFile(drive, f.name, ""))
        \/ \E size \in Sizes : Answer(LoadChunk(drive, "*", 0, size))
        \/ \E at \in Sectors \cup {<<0, 0>>} : Answer(ReadSector(drive, at))
        \/ Answer(StatusPayload(drive))
        \/ Answer(Validate(drive))
        \/ \E code \in {26, 30, 31} : Answer(Refuse(drive, code))
    BY <1>8 DEF Told
  <2>2. Keeps(Validate(drive), drive) /\ \A code : Keeps(Refuse(drive, code), drive)
    BY <1>4, RequireDiskKeeps DEF Validate, Refuse
  <2>3. PICK result : Keeps(result, drive) /\ Answer(result)
    BY <1>2, <2>1, <2>2, DirectoryKeeps, LoadFileKeeps, LoadChunkKeeps, ReadSectorKeeps,
       StatusPayloadKeeps
  <2> QED
    BY <1>1, <1>8, <2>3, AnswerServes DEF Told, Quietly
<1>9. CASE Initializes
  BY <1>1, <1>9, InitializeKeeps, AnswerServes DEF Initializes, Quietly
<1>10. CASE OpenStatus
  <2>1. \A contents : Keeps(StatusPayload(Put(drive, 15, contents)), drive)
    BY PutKeeps, StatusPayloadKeeps
  <2> QED
    BY <1>1, <1>10, <2>1, AnswerServes DEF OpenStatus, Quietly
<1>11. CASE \E disk \in Disks : MountNot(disk)
  BY <1>1, <1>2, <1>11, RaiseKeeps, AnswerServes DEF MountNot, Quietly
<1>12. ASSUME NEW args \in BlockArgs, BlockRead(args)
       PROVE  Serves
  <2>1. Keeps(Raise(SetStatus(drive, 30), "ValueError"), drive)
    BY SetStatusKeeps, RaiseKeeps
  <2> QED
    BY <1>1, <1>12, <2>1, ReadSectorKeeps, AnswerServes, FetchServes DEF BlockRead, Quietly
<1>13. CASE \E p \in Pointers : MovePointer(p[1], p[2])
  BY <1>1, <1>13, BufferPointerKeeps, AnswerServes DEF MovePointer, Quietly
<1>14. ASSUME NEW c \in Channels, Close(c) \/ Write(c)
       PROVE  Serves
  <2>1. Keeps(CloseChannel(drive, c), drive)
    BY PutKeeps, ReportKeeps DEF CloseChannel
  <2> QED
    BY <1>1, <1>4, <1>14, <2>1, AnswerServes DEF Close, Write, Quietly
<1>15. ASSUME NEW c \in Channels, NEW spec \in Specs, NEW ascii \in BOOLEAN, Open(c, spec, ascii)
       PROVE  Serves
  <2> DEFINE f      == IF ascii THEN AsciiSpec(spec) ELSE spec
             loaded == LoadFile(drive, f.name, f.type)
             result == IF loaded.exc = "FileNotFoundError"
                         THEN Raise(SetStatus(loaded.drive, 62), loaded.exc) ELSE loaded
  <2>1. Keeps(loaded, drive)
    BY LoadFileKeeps
  <2>2. Keeps(result, drive)
    <3> HIDE DEF loaded
    <3>1. SameDisk(drive, loaded.drive) /\ HasFields(loaded.drive)
      BY <2>1 DEF Keeps, SameDisk
    <3>2. SameDisk(drive, SetStatus(loaded.drive, 62))
      BY <3>1, SetStatusKeeps, SameTransitive
    <3> QED
      BY <2>1, <3>2, RaiseKeeps
  <2>3. \/ Fetch(c, Ret(drive, Zeros))
        \/ Answer(Report(drive, 26)) /\ UNCHANGED worker
        \/ Fetch(c, result)
    BY <1>15 DEF Open
  <2> HIDE DEF result
  <2> QED
    BY <1>1, <1>3, <1>4, <1>15, <2>2, <2>3, AnswerServes, FetchServes DEF Open, Quietly
<1>16. ASSUME NEW c \in Channels, NEW size \in Sizes, Read(c, size)
       PROVE  Serves
  <2>1. SameDisk(drive, drive')
    BY <1>16, ReadChannelKeeps DEF Read, Keeps
  <2> QED
    BY <1>1, <1>16, <2>1 DEF Read, Quietly, Serves, Changing, WorkerShape
<1> QED
  BY <1>5, <1>6, <1>7, <1>8, <1>9, <1>10, <1>11, <1>12, <1>13, <1>14, <1>15, <1>16 DEF Served

-----------------------------------------------------------------------------
(* The theorems. *)

\* The program starts at rest, its window filled.
LEMMA InitKeeps == Init => IInv
<1> SUFFICES ASSUME Init PROVE IInv
  OBVIOUS
<1>1. PICK f, d :
        drive = [folder |-> f, images |-> f, path |-> d, data |-> d, entries |-> d,
                 ok |-> d # 0, channels |-> NoChannels]
        /\ gui = Idle /\ worker = Waiting
        /\ shown = [path |-> d, entries |-> d, missed |-> FALSE]
  BY DEF Init
<1>2. HasFields(drive)
  BY <1>1 DEF HasFields
<1>3. drive.path = d /\ drive.data = d /\ drive.entries = d
  BY <1>1
<1>4. GuiShape /\ ~Changing(gui)
  BY <1>1 DEF Idle, GuiShape, Changing
<1>5. WorkerShape /\ ~Changing(worker)
  BY <1>1 DEF Waiting, WorkerShape, Changing
<1> QED
  BY <1>1, <1>2, <1>3, <1>4, <1>5 DEF IInv, Shapes, WindowSettled, OneChange, GuiUndisturbed

\* The GUI begins a change.
LEMMA GuiBeginsKeeps == IInv /\ GuiBegins => IInv'
<1> SUFFICES ASSUME IInv, GuiBegins PROVE IInv'
  OBVIOUS
<1> USE DEF IInv, Shapes
<1>1. /\ gui.doing = "idle" /\ mixed' = Changing(worker) /\ UNCHANGED <<drive, event, shown>>
      /\ worker' = [worker EXCEPT !.calm = FALSE]
  BY DEF GuiBegins, Begins
<1>2. GuiShape' /\ Changing(gui)' /\ gui'.step = 1
  <2>1. ASSUME NEW disk, gui' = [Idle EXCEPT !.doing = "mount", !.disk = disk, !.step = 1]
        PROVE  GuiShape' /\ Changing(gui)' /\ gui'.step = 1
    BY <2>1 DEF Idle, GuiShape, Changing
  <2>2. ASSUME NEW f, gui' = [Idle EXCEPT !.doing = "folder", !.folder = f, !.step = 1]
        PROVE  GuiShape' /\ Changing(gui)' /\ gui'.step = 1
    BY <2>2 DEF Idle, GuiShape, Changing
  <2> QED
    BY <2>1, <2>2 DEF GuiBegins
<1>3. WorkerShape' /\ Changing(worker)' = Changing(worker)
  BY <1>1 DEF WorkerShape, Changing
<1>4. OneChange'
  BY <1>1, <1>2, <1>3 DEF OneChange, SoFar
<1> QED
  BY <1>1, <1>2, <1>3, <1>4 DEF WindowSettled, GuiUndisturbed, SoFar

\* The worker begins a mount.
LEMMA MountKeeps ==
  ASSUME IInv, NEW disk \in Disks, NEW ascii \in BOOLEAN, Mount(disk, ascii)
  PROVE  IInv'
<1> USE DEF IInv, Shapes
<1>1. mixed' = Changing(gui) /\ UNCHANGED <<drive, gui, event, shown>>
  BY DEF Mount, Begins
<1>2. WorkerShape' /\ Changing(worker)' /\ worker'.step = 1
  BY DEF Mount, Waiting, WorkerShape, Changing
<1>3. GuiShape' /\ Changing(gui)' = Changing(gui)
  BY <1>1 DEF GuiShape, Changing
<1>4. OneChange'
  BY <1>1, <1>2, <1>3 DEF OneChange, SoFar
<1> QED
  BY <1>1, <1>2, <1>3, <1>4 DEF WindowSettled, GuiUndisturbed, SoFar

\* A thread makes the next assignment of its change.
LEMMA Assigns ==
  ASSUME NEW d, NEW e, NEW disk, NEW step \in Nat,
         e.path    = IF step = 1 THEN disk ELSE d.path,
         e.data    = IF step = 2 THEN disk ELSE d.data,
         e.entries = IF step = 3 THEN disk ELSE d.entries,
         /\ step >= 2 => d.path = disk
         /\ step >= 3 => d.data = disk
         /\ step >= 4 => d.entries = disk
  PROVE  /\ step + 1 >= 2 => e.path = disk
         /\ step + 1 >= 3 => e.data = disk
         /\ step + 1 >= 4 => e.entries = disk
<1>1. CASE step = 0
  BY <1>1
<1>2. CASE step = 1
  BY <1>2
<1>3. CASE step = 2
  BY <1>3
<1>4. CASE step = 3
  BY <1>4
<1>5. CASE step >= 4
  BY <1>5
<1> QED
  BY <1>1, <1>2, <1>3, <1>4, <1>5

LEMMA GuiAssignsKeeps == IInv /\ GuiAssigns => IInv'
<1> SUFFICES ASSUME IInv, GuiAssigns PROVE IInv'
  OBVIOUS
<1> USE DEF IInv, Shapes
<1>1. /\ gui' = [gui EXCEPT !.step = @ + 1]
      /\ UNCHANGED <<worker, event, shown, mixed>>
  BY DEF GuiAssigns
<1>2. Changing(gui) /\ gui.step \in Nat
  BY DEF GuiAssigns, Changing, GuiShape
<1>3. GuiShape' /\ Changing(gui)' /\ gui'.step = gui.step + 1 /\ gui'.disk = gui.disk
  BY <1>1, <1>2 DEF GuiShape, Changing
<1>4. WorkerShape' /\ Changing(worker)' = Changing(worker)
  BY <1>1 DEF WorkerShape, Changing
<1>5. /\ HasFields(drive')
      /\ drive'.path    = IF gui.step = 1 THEN gui.disk ELSE drive.path
      /\ drive'.data    = IF gui.step = 2 THEN gui.disk ELSE drive.data
      /\ drive'.entries = IF gui.step = 3 THEN gui.disk ELSE drive.entries
  <2>1. CASE gui.doing = "mount" /\ drive' = MountStep(drive, gui.disk, gui.step)
    BY <1>2, <2>1, MountStepSets
  <2>2. CASE gui.doing = "folder" /\ drive' = FolderStep(drive, gui.folder, gui.step)
    BY <1>2, <2>2, FolderStepSets DEF GuiShape
  <2> QED
    BY <2>1, <2>2 DEF GuiAssigns
<1>6. SoFar(gui) => SoFar(gui)'
  BY <1>2, <1>3, <1>5, Assigns DEF SoFar
<1>7. OneChange' /\ GuiUndisturbed'
  BY <1>1, <1>2, <1>3, <1>4, <1>6 DEF OneChange, GuiUndisturbed
<1> QED
  BY <1>1, <1>3, <1>4, <1>5, <1>7 DEF WindowSettled

LEMMA MountAssignsKeeps == IInv /\ MountAssigns => IInv'
<1> SUFFICES ASSUME IInv, MountAssigns PROVE IInv'
  OBVIOUS
<1> USE DEF IInv, Shapes
<1>1. /\ worker' = [worker EXCEPT !.step = @ + 1]
      /\ drive' = MountStep(drive, worker.disk, worker.step)
      /\ UNCHANGED <<gui, event, shown, mixed>>
  BY DEF MountAssigns
<1>2. Changing(worker) /\ worker.step \in Nat
  BY DEF MountAssigns, Changing, WorkerShape
<1>3. /\ WorkerShape' /\ Changing(worker)'
      /\ worker'.step = worker.step + 1 /\ worker'.disk = worker.disk
  BY <1>1, <1>2 DEF WorkerShape, Changing
<1>4. GuiShape' /\ Changing(gui)' = Changing(gui)
  BY <1>1 DEF GuiShape, Changing
<1>5. /\ HasFields(drive')
      /\ drive'.path    = IF worker.step = 1 THEN worker.disk ELSE drive.path
      /\ drive'.data    = IF worker.step = 2 THEN worker.disk ELSE drive.data
      /\ drive'.entries = IF worker.step = 3 THEN worker.disk ELSE drive.entries
  BY <1>1, <1>2, MountStepSets
<1>6. ~mixed => SoFar(worker)'
  <2> SUFFICES ASSUME ~mixed PROVE SoFar(worker)'
    OBVIOUS
  <2>1. SoFar(worker)
    BY <1>2 DEF OneChange
  <2> QED
    BY <1>2, <1>3, <1>5, <2>1, Assigns DEF SoFar
<1>7. OneChange'
  BY <1>1, <1>2, <1>3, <1>4, <1>6 DEF OneChange
<1> QED
  BY <1>1, <1>3, <1>4, <1>5, <1>7 DEF WindowSettled, GuiUndisturbed, SoFar

\* A change that ends has made all its assignments.
LEMMA GuiEndsKeeps == IInv /\ GuiEnds => IInv'
<1> SUFFICES ASSUME IInv, GuiEnds PROVE IInv'
  OBVIOUS
<1> USE DEF IInv, Shapes
<1>1. /\ gui' = Idle
      /\ shown' = [path |-> drive.path, entries |-> drive.entries, missed |-> FALSE]
      /\ UNCHANGED <<drive, worker, event, mixed>>
  BY DEF GuiEnds, Refresh
<1>2. Changing(gui) /\ gui.step >= 6
  BY DEF GuiEnds, Changing
<1>3. GuiShape' /\ ~Changing(gui)'
  BY <1>1 DEF Idle, GuiShape, Changing
<1>4. WorkerShape' /\ Changing(worker)' = Changing(worker)
  BY <1>1 DEF WorkerShape, Changing
<1>5. ~mixed => drive.path = drive.data /\ drive.data = drive.entries
  BY <1>2 DEF OneChange, SoFar, GuiShape
<1>6. OneChange'
  BY <1>1, <1>2, <1>3, <1>4, <1>5 DEF OneChange
<1> QED
  BY <1>1, <1>3, <1>4, <1>6 DEF WindowSettled, GuiUndisturbed, SoFar

\* One that fails at its end has made them too: the drive is empty, unless a mount
\* of the worker met it, whose event still waits.
LEMMA FolderFailsKeeps == IInv /\ FolderFails => IInv'
<1> SUFFICES ASSUME IInv, FolderFails PROVE IInv'
  OBVIOUS
<1> USE DEF IInv, Shapes
<1>1. /\ gui' = Idle /\ shown' = [shown EXCEPT !.missed = TRUE]
      /\ UNCHANGED <<drive, worker, event, mixed>>
  BY DEF FolderFails
<1>2. Changing(gui) /\ gui.step = 6 /\ gui.disk = 0
  BY DEF FolderFails, Changing, GuiShape
<1>3. GuiShape' /\ ~Changing(gui)'
  BY <1>1 DEF Idle, GuiShape, Changing
<1>4. WorkerShape' /\ Changing(worker)' = Changing(worker)
  BY <1>1 DEF WorkerShape, Changing
<1>5. ~mixed => drive.path = drive.data /\ drive.data = drive.entries
  BY <1>2 DEF OneChange, SoFar
<1>6. OneChange'
  BY <1>1, <1>2, <1>3, <1>4, <1>5 DEF OneChange
<1>7. ~event /\ ~Changing(worker) => drive.path = 0 /\ drive.entries = 0
  BY <1>2 DEF GuiUndisturbed, SoFar
<1>8. WindowSettled'
  BY <1>1, <1>4, <1>7 DEF WindowSettled
<1> QED
  BY <1>1, <1>3, <1>4, <1>6, <1>8 DEF GuiUndisturbed

LEMMA MountEndsKeeps == IInv /\ MountEnds => IInv'
<1> SUFFICES ASSUME IInv, MountEnds PROVE IInv'
  OBVIOUS
<1> USE DEF IInv, Shapes
<1>1. /\ worker' = Waiting /\ event' = TRUE /\ UNCHANGED <<gui, shown, mixed>>
      /\ worker.doing = "mount" /\ worker.step = 6
  BY DEF MountEnds
<1>2. SameDisk(drive, drive')
  <2>1. SameDisk(drive, drive)
    BY SameItself
  <2>2. \A exc : Keeps(Raise(drive, exc), drive)
    BY <2>1, RaiseKeeps
  <2>3. \A body : Keeps(Ret(drive, body), drive)
    BY <2>1, RetKeeps
  <2>4. Keeps(StatusPayload(drive), drive)
    BY <2>1, StatusPayloadKeeps
  <2>5. \/ drive' = StatusPayload(drive).drive \/ drive' = Raise(drive, "AttributeError").drive
        \/ drive' = Ret(drive, <<>>).drive
    BY DEF MountEnds, Answer
  <2> QED
    BY <2>2, <2>3, <2>4, <2>5 DEF Keeps
<1>3. WorkerShape' /\ ~Changing(worker)'
  BY <1>1, WaitingShape DEF Changing
<1>4. GuiShape' /\ Changing(gui)' = Changing(gui)
  BY <1>1 DEF GuiShape, Changing
<1>5. Changing(worker)
  BY <1>1 DEF Changing
<1>6. ~mixed => ~Changing(gui) /\ drive.path = drive.data /\ drive.data = drive.entries
  BY <1>1, <1>5 DEF OneChange, SoFar
<1>7. OneChange'
  BY <1>1, <1>2, <1>3, <1>4, <1>6 DEF OneChange, SameDisk
<1> QED
  BY <1>1, <1>2, <1>3, <1>4, <1>7 DEF WindowSettled, GuiUndisturbed, SoFar, SameDisk

\* The other steps leave the disk alone.
LEMMA ServesKeeps == IInv /\ Serves => IInv'
<1> SUFFICES ASSUME IInv, Serves PROVE IInv'
  OBVIOUS
<1> USE DEF IInv, Shapes
<1>1. /\ SameDisk(drive, drive') /\ UNCHANGED <<gui, event, shown, mixed>>
      /\ ~Changing(worker) /\ ~Changing(worker)' /\ WorkerShape'
  BY DEF Serves, Changing
<1>2. GuiShape' /\ Changing(gui)' = Changing(gui)
  BY <1>1 DEF GuiShape, Changing
<1>3. OneChange'
  <2>1. SoFar(gui)' <=> SoFar(gui)
    BY <1>1 DEF SoFar, SameDisk
  <2> QED
    BY <1>1, <1>2, <2>1 DEF OneChange, SameDisk
<1>4. GuiUndisturbed'
  BY <1>1, <1>2 DEF GuiUndisturbed, SoFar, SameDisk
<1>5. WindowSettled'
  BY <1>1, <1>2 DEF WindowSettled, SameDisk
<1>6. Shapes'
  BY <1>1, <1>2 DEF SameDisk
<1> QED
  BY ONLY <1>3, <1>4, <1>5, <1>6 DEF IInv

LEMMA GuiPollsKeeps == IInv /\ GuiPolls => IInv'
<1> SUFFICES ASSUME IInv, GuiPolls PROVE IInv'
  OBVIOUS
<1> USE DEF IInv, Shapes
<1>1. /\ shown' = [path |-> drive.path, entries |-> drive.entries, missed |-> FALSE]
      /\ UNCHANGED <<drive, gui, worker, mixed>>
  BY DEF GuiPolls, Refresh
<1>2. GuiShape' /\ WorkerShape'
  BY <1>1 DEF GuiShape, WorkerShape
<1>3. OneChange'
  BY <1>1 DEF OneChange, SoFar, Changing
<1>4. WindowSettled' /\ GuiUndisturbed'
  BY <1>1 DEF GuiPolls, WindowSettled, GuiUndisturbed, Changing
<1> QED
  BY <1>1, <1>2, <1>3, <1>4

LEMMA StepKeeps == IInv /\ [Next]_vars => IInv'
<1> SUFFICES ASSUME IInv, [Next]_vars PROVE IInv'
  OBVIOUS
<1>1. CASE UNCHANGED vars
  BY <1>1 DEF vars, IInv, Shapes, HasFields, GuiShape, WorkerShape, WindowSettled, OneChange,
              GuiUndisturbed, SoFar, Changing
<1>2. CASE Served
  BY <1>2, RequestsServe, ServesKeeps DEF IInv
<1>3. CASE \E disk \in Disks : \E ascii \in BOOLEAN : Mount(disk, ascii)
  BY <1>3, MountKeeps
<1> QED
  BY <1>1, <1>2, <1>3, GuiBeginsKeeps, GuiAssignsKeeps, GuiEndsKeeps, FolderFailsKeeps, GuiPollsKeeps,
     MountAssignsKeeps, MountEndsKeeps DEF Next, Served

LEMMA Invariant == Spec => []IInv
<1>1. Init => IInv
  BY InitKeeps
<1>2. IInv /\ [Next]_vars => IInv'
  BY StepKeeps
<1> QED
  BY <1>1, <1>2, PTL DEF Spec

\* When both threads are at rest and the event was handled, the window shows
\* the disk in the drive, though mount, _rescan and _poll_events share path
\* and entries without a lock; after a folder that could not be listed the drive
\* is empty, whatever the window shows, until somebody mounts or lists another.
THEOREM WindowFollows == Spec => []WindowShowsDisk
<1>1. IInv => WindowShowsDisk
  BY DEF IInv, WindowSettled, WindowShowsDisk, Quiet, Changing
<1> QED
  BY <1>1, Invariant, PTL

\* After a mount or a change of folder that met none of the other thread,
\* path, bytes and directory are of one disk.
THEOREM DiskStaysOne == Spec => []DiskIsOne
<1>1. IInv => DiskIsOne
  BY DEF IInv, OneChange, DiskIsOne, Quiet, Changing
<1> QED
  BY <1>1, Invariant, PTL

-----------------------------------------------------------------------------
(* Recursive functions: the library's induction needs a set, not an         *)
(* operator, and this is as much of it as the chains ask for.               *)

\* A set of naturals that has 0 and with each number the next has them all.
LEMMA SetInduction ==
  ASSUME NEW T, 0 \in T, \A n \in Nat : n \in T => n + 1 \in T
  PROVE  Nat \subseteq T
<1> DEFINE Less == OpToRel(<, Nat)
           Bad  == Nat \ T
<1>1. IsWellFoundedOn(Less, Nat)
  BY NatLessThanWellFounded
<1>2. \A m, n \in Nat : m < n => <<m, n>> \in Less
  BY DEF OpToRel
<1> SUFFICES ASSUME Bad # {} PROVE FALSE
  OBVIOUS
<1> HIDE DEF Less
<1>3. PICK n \in Bad : \A m \in Bad : <<m, n>> \notin Less
  <2>1. Bad \subseteq Nat
    OBVIOUS
  <2> HIDE DEF Bad
  <2> QED
    BY <1>1, <2>1, WFMin
<1>4. n - 1 \in Nat /\ n - 1 < n /\ n - 1 + 1 = n
  OBVIOUS
<1>5. n - 1 \in T
  BY <1>2, <1>3, <1>4
<1> QED
  BY <1>4, <1>5

\* A recursion's values depend on arguments of lower rank only.
LooksDown(S, V, rank, F) ==
  \A f, g \in [S -> V], x \in S :
    (\A y \in S : rank[y] < rank[x] => f[y] = g[y]) => F[<<f, x>>] = F[<<g, x>>]

Solves(f, S, F) == \A x \in S : f[x] = F[<<f, x>>]

\* The recursive function then exists.
LEMMA RecursionExists ==
  ASSUME NEW S, NEW V, V # {}, NEW bound \in Nat, NEW rank \in [S -> 0..bound],
         NEW F \in [[S -> V] \X S -> V], LooksDown(S, V, rank, F)
  PROVE  \E f \in [S -> V] : Solves(f, S, F)
<1> DEFINE Upto(n, f) == \A x \in S : rank[x] < n => f[x] = F[<<f, x>>]
           T == {n \in Nat : \E f \in [S -> V] : Upto(n, f)}
<1>1. 0 \in T
  <2>1. PICK v \in V : TRUE
    OBVIOUS
  <2>2. [x \in S |-> v] \in [S -> V]
    BY <2>1
  <2>3. \A x \in S : ~(rank[x] < 0)
    OBVIOUS
  <2> QED
    BY <2>2, <2>3
<1>2. ASSUME NEW n \in Nat, n \in T PROVE n + 1 \in T
  <2>1. PICK f \in [S -> V] : Upto(n, f)
    BY <1>2
  <2> DEFINE g == [x \in S |-> IF rank[x] < n THEN f[x] ELSE F[<<f, x>>]]
  <2>2. g \in [S -> V]
    OBVIOUS
  <2>3. \A x \in S : rank[x] < n => g[x] = f[x]
    OBVIOUS
  <2>3a. \A x \in S : ~(rank[x] < n) => g[x] = F[<<f, x>>]
    OBVIOUS
  <2> HIDE DEF g
  <2>4. ASSUME NEW x \in S, rank[x] < n + 1
        PROVE  F[<<g, x>>] = F[<<f, x>>]
    <3>1. \A y \in S : rank[y] < rank[x] => g[y] = f[y]
      BY <2>3, <2>4
    <3> QED
      BY <2>2, <3>1 DEF LooksDown
  <2>5. Upto(n + 1, g)
    BY <2>1, <2>3, <2>3a, <2>4
  <2> QED
    BY <2>2, <2>5
<1>3. Nat \subseteq T
  <2> HIDE DEF T
  <2> QED
    BY <1>1, <1>2, SetInduction
<1>4. bound + 1 \in T
  <2> HIDE DEF T
  <2> QED
    BY <1>3
<1>4a. PICK f \in [S -> V] : Upto(bound + 1, f)
  BY <1>4
<1>5. \A x \in S : rank[x] < bound + 1
  OBVIOUS
<1> QED
  BY <1>4a, <1>5 DEF Solves

\* And a property holds of all arguments that it holds of when it does of those
\* of lower rank.
LEMMA RankInduction ==
  ASSUME NEW S, NEW rank \in [S -> Nat], NEW T,
         \A x \in S : (\A y \in S : rank[y] < rank[x] => y \in T) => x \in T
  PROVE  S \subseteq T
<1> DEFINE U == {n \in Nat : \A x \in S : rank[x] < n => x \in T}
<1>1. 0 \in U
  OBVIOUS
<1>2. \A n \in Nat : n \in U => n + 1 \in U
  <2> SUFFICES ASSUME NEW n \in Nat, n \in U, NEW x \in S, rank[x] < n + 1
               PROVE  x \in T
    OBVIOUS
  <2>1. \A y \in S : rank[y] < rank[x] => y \in T
    OBVIOUS
  <2> QED
    BY <2>1
<1>3. Nat \subseteq U
  <2> HIDE DEF U
  <2> QED
    BY <1>1, <1>2, SetInduction
<1>4. \A x \in S : rank[x] + 1 \in U /\ rank[x] < rank[x] + 1
  BY <1>3
<1> QED
  BY <1>4

-----------------------------------------------------------------------------
(* The chain of a file is a walk that cannot come back to a sector it has  *)
(* seen: the recursion of Chain ends, so it has the values it is defined   *)
(* by, and they are the bytes of the disk.                                 *)

FileByte(disk) == {"file"} \X {disk} \X Sectors \X Nat
ChainValue(disk) == Seq(FileByte(disk)) \cup {Broken}
ChainArgs == Sectors \X SUBSET Sectors

\* How far a walk of the chain can still go.
Rank == [x \in ChainArgs |-> 2 * Cardinality(Sectors \ x[2]) + (IF x[1] \in x[2] THEN 1 ELSE 0)]

\* The next sector has less to go.
LEMMA RankFalls ==
  /\ Rank \in [ChainArgs -> 0..(2 * Cardinality(Sectors) + 1)]
  /\ \A at \in Sectors, seen \in SUBSET Sectors : \A next \in Sectors \ (seen \cup {at}) :
       Rank[<<next, seen \cup {at}>>] < Rank[<<at, seen>>]
<1> USE DosAssumption
<1>1. \A seen \in SUBSET Sectors : /\ Cardinality(Sectors \ seen) \in Nat
                                   /\ Cardinality(Sectors \ seen) <= Cardinality(Sectors)
  BY FS_Difference, FS_CardinalityType, FS_Subset
<1>2. Cardinality(Sectors) \in Nat
  BY FS_CardinalityType
<1> DEFINE left(seen) == Cardinality(Sectors \ seen)
           RankOf(at, seen) == 2 * left(seen) + (IF at \in seen THEN 1 ELSE 0)
<1>3. \A at \in Sectors, seen \in SUBSET Sectors : Rank[<<at, seen>>] = RankOf(at, seen)
  BY DEF Rank, ChainArgs
<1>4. \A at \in Sectors, seen \in SUBSET Sectors :
        RankOf(at, seen) \in 0..(2 * Cardinality(Sectors) + 1)
  <2> SUFFICES ASSUME NEW at \in Sectors, NEW seen \in SUBSET Sectors
               PROVE  RankOf(at, seen) \in 0..(2 * Cardinality(Sectors) + 1)
    OBVIOUS
  <2>1. left(seen) \in Nat /\ left(seen) <= Cardinality(Sectors)
    BY <1>1
  <2> HIDE DEF left
  <2> QED
    BY <1>2, <2>1
<1>5. Rank \in [ChainArgs -> 0..(2 * Cardinality(Sectors) + 1)]
  <2>1. \A x \in ChainArgs : Rank[x] \in 0..(2 * Cardinality(Sectors) + 1)
    <3> HIDE DEF RankOf
    <3> QED
      BY <1>3, <1>4 DEF ChainArgs
  <2>2. Rank = [x \in ChainArgs |-> Rank[x]]
    BY DEF Rank
  <2> QED
    BY <2>1, <2>2
<1>6. ASSUME NEW at \in Sectors, NEW seen \in SUBSET Sectors, NEW next \in Sectors \ (seen \cup {at})
      PROVE  Rank[<<next, seen \cup {at}>>] < Rank[<<at, seen>>]
  <2> SUFFICES ASSUME NEW more, more = seen \cup {at} PROVE Rank[<<next, more>>] < Rank[<<at, seen>>]
    OBVIOUS
  <2>0. more \in SUBSET Sectors /\ next \notin more
    OBVIOUS
  <2>1. Rank[<<next, more>>] = RankOf(next, more) /\ Rank[<<at, seen>>] = RankOf(at, seen)
    BY <1>3, <2>0
  <2>2. left(more) \in Nat /\ left(seen) \in Nat
    BY <1>1, <2>0
  <2>3. RankOf(next, more) = 2 * left(more)
    <3> HIDE DEF left
    <3> QED
      BY <2>0, <2>2
  <2>4. CASE at \in seen
    <3>1. more = seen
      BY <2>4
    <3>2. RankOf(at, seen) = 2 * left(more) + 1
      BY <2>4, <3>1
    <3> HIDE DEF left, RankOf
    <3> QED
      BY <2>1, <2>2, <2>3, <3>2
  <2>5. CASE at \notin seen
    <3>1. Sectors \ more = (Sectors \ seen) \ {at} /\ at \in Sectors \ seen
      BY <2>5
    <3>2. IsFiniteSet(Sectors \ seen)
      BY FS_Difference
    <3>3. left(more) = left(seen) - 1
      <4>1. \A T, x : IsFiniteSet(T) /\ x \in T => Cardinality(T \ {x}) = Cardinality(T) - 1
        BY FS_RemoveElement
      <4>2. Cardinality((Sectors \ seen) \ {at}) = Cardinality(Sectors \ seen) - 1
        BY <3>1, <3>2, <4>1, Zenon
      <4> QED
        BY <3>1, <4>2
    <3>4. RankOf(at, seen) = 2 * left(seen)
      <4> HIDE DEF left
      <4> QED
        BY <2>2, <2>5
    <3> HIDE DEF left, RankOf
    <3> QED
      BY <2>1, <2>2, <2>3, <3>3, <3>4
  <2> QED
    BY <2>4, <2>5
<1> QED
  BY <1>5, <1>6

\* One link of the chain, on whatever the rest of it is.
LEMMA LinkTyped ==
  ASSUME NEW disk \in Disks, NEW at \in Sectors, NEW seen \in SUBSET Sectors, NEW from,
         Link[disk][at].next \in Sectors \ (seen \cup {at}) =>
            from[<<Link[disk][at].next, seen \cup {at}>>] \in ChainValue(disk)
  PROVE  FollowLink(disk, from, at, seen) \in ChainValue(disk)
<1> DEFINE link  == Link[disk][at]
           bytes == [i \in 1..link.used |-> <<"file", disk, at, i>>]
           rest  == IF link.next \in Sectors \ (seen \cup {at})
                      THEN from[<<link.next, seen \cup {at}>>] ELSE Broken
<1>1. link.used \in Nat
  BY DosAssumption
<1>2. bytes \in Seq(FileByte(disk))
  <2>1. \A i \in 1..link.used : <<"file", disk, at, i>> \in FileByte(disk)
    BY <1>1 DEF FileByte
  <2> HIDE DEF link
  <2> QED
    BY <1>1, <2>1
<1>3. rest \in ChainValue(disk)
  BY DEF ChainValue
<1>4. rest # Broken => bytes \o rest \in Seq(FileByte(disk))
  <2> HIDE DEF bytes, rest
  <2> QED
    BY <1>2, <1>3, ConcatProperties DEF ChainValue
<1> HIDE DEF bytes, rest
<1>5. FollowLink(disk, from, at, seen)
        = CASE link.next = <<0, 0>> -> bytes
            [] link.next # <<0, 0>> /\ rest = Broken -> Broken
            [] OTHER -> bytes \o rest
  BY DEF FollowLink, bytes, rest
<1> HIDE DEF link
<1> QED
  BY <1>2, <1>4, <1>5 DEF ChainValue


\* The argument FollowPrgChain asks for.
LEMMA ChainTyped ==
  ASSUME NEW disk \in Disks, NEW at \in Sectors
  PROVE  Chain(disk)[<<at, {}>>] \in ChainValue(disk)
<1> DEFINE V == ChainValue(disk)
           F == [p \in [ChainArgs -> V] \X ChainArgs |-> FollowLink(disk, p[1], p[2][1], p[2][2])]
           Is(f) == f = [walk \in Sectors \X SUBSET Sectors |-> FollowLink(disk, f, walk[1], walk[2])]
<1>1. \A f \in [ChainArgs -> V], x \in ChainArgs : F[<<f, x>>] \in V
  <2> SUFFICES ASSUME NEW f \in [ChainArgs -> V], NEW a \in Sectors, NEW seen \in SUBSET Sectors
               PROVE  FollowLink(disk, f, a, seen) \in V
    BY DEF ChainArgs
  <2>1. \A b \in Sectors : f[<<b, seen \cup {a}>>] \in V
    BY DEF ChainArgs
  <2> QED
    BY <2>1, LinkTyped
<1>2. LooksDown(ChainArgs, V, Rank, F)
  <2> SUFFICES ASSUME NEW f \in [ChainArgs -> V], NEW g \in [ChainArgs -> V], NEW x \in ChainArgs,
                      \A y \in ChainArgs : Rank[y] < Rank[x] => f[y] = g[y]
               PROVE  F[<<f, x>>] = F[<<g, x>>]
    BY DEF LooksDown
  <2>1. PICK a \in Sectors, seen \in SUBSET Sectors : x = <<a, seen>>
    BY DEF ChainArgs
  <2>2. \A b \in Sectors \ (seen \cup {a}) : f[<<b, seen \cup {a}>>] = g[<<b, seen \cup {a}>>]
    BY <2>1, RankFalls DEF ChainArgs
  <2>3. FollowLink(disk, f, a, seen) = FollowLink(disk, g, a, seen)
    BY <2>2, Zenon DEF FollowLink
  <2> QED
    BY <2>1, <2>3
<1>3. \E f \in [ChainArgs -> V] : Solves(f, ChainArgs, F)
  <2>1. V # {}
    BY DEF ChainValue
  <2>2a. F \in [[ChainArgs -> V] \X ChainArgs -> V]
    <3> HIDE DEF V
    <3>1. \A p \in [ChainArgs -> V] \X ChainArgs : F[p] \in V
      BY <1>1
    <3> QED
      BY <3>1
  <2>2. 2 * Cardinality(Sectors) + 1 \in Nat
    BY FS_CardinalityType, DosAssumption
  <2>3. PICK bound \in Nat : Rank \in [ChainArgs -> 0..bound]
    BY <2>2, RankFalls
  <2> HIDE DEF V, F
  <2> QED
    BY <1>2, <2>1, <2>2a, <2>3, RecursionExists
<1>4. PICK f \in [ChainArgs -> V] : Is(f)
  <2>1. PICK f \in [ChainArgs -> V] : \A x \in ChainArgs : f[x] = F[<<f, x>>]
    BY <1>3 DEF Solves
  <2>2. \A x \in ChainArgs : F[<<f, x>>] = FollowLink(disk, f, x[1], x[2])
    <3> HIDE DEF V
    <3> QED
      OBVIOUS
  <2>2a. \A x \in ChainArgs : f[x] = FollowLink(disk, f, x[1], x[2])
    BY <2>1, <2>2
  <2>3. Is(f)
    BY <2>2a DEF ChainArgs
  <2> QED
    BY <2>3
<1>5. Is(Chain(disk))
  BY <1>4, Zenon DEF Chain
<1> DEFINE c == Chain(disk)
<1>6. c = [walk \in ChainArgs |-> FollowLink(disk, c, walk[1], walk[2])]
  BY <1>5 DEF ChainArgs
<1> HIDE DEF c
<1>7. \A x \in ChainArgs : c[x] = FollowLink(disk, c, x[1], x[2])
  BY <1>6
<1> DEFINE T == {x \in ChainArgs : c[x] \in V}
<1>8. ChainArgs \subseteq T
  <2>1. ASSUME NEW x \in ChainArgs, \A y \in ChainArgs : Rank[y] < Rank[x] => y \in T
        PROVE  x \in T
    <3>1. PICK a \in Sectors, seen \in SUBSET Sectors : x = <<a, seen>>
      BY DEF ChainArgs
    <3>2. \A b \in Sectors \ (seen \cup {a}) : c[<<b, seen \cup {a}>>] \in V
      BY <2>1, <3>1, RankFalls DEF ChainArgs
    <3>3. FollowLink(disk, c, a, seen) \in V
      BY <3>2, LinkTyped
    <3> QED
      BY <1>7, <3>1, <3>3
  <2>2. Rank \in [ChainArgs -> Nat]
    <3>1. 2 * Cardinality(Sectors) + 1 \in Nat
      BY FS_CardinalityType, DosAssumption
    <3> QED
      BY <3>1, RankFalls
  <2> HIDE DEF T
  <2> QED
    BY <2>1, <2>2, RankInduction
<1> QED
  BY <1>8 DEF c, ChainArgs

-----------------------------------------------------------------------------
(* What the channels hold. *)

\* The bytes of files, sectors and directories of these disks.
BytesOf(disks, entries) ==
  ({"file"} \X disks \X Sectors \X Nat) \cup ({"sector"} \X disks \X Sectors \X Nat)
  \cup ({"dir"} \X disks \X entries) \cup {<<"zero", 0>>}

Drives == {0} \cup Disks
Byte == BytesOf(Drives, Drives)

Channel == [open : BOOLEAN, data : Seq(Byte), pos : Nat, got : Seq(Byte) \cup {Broken},
            calm : BOOLEAN]

\* What the READs brought is what is before the position.
Delivered(ch) ==
  /\ ch.pos <= Len(ch.data)
  /\ ch.open /\ ch.got # Broken => ch.got = SubSeq(ch.data, 1, ch.pos)

\* These bytes are of one disk.
Pure(bytes, disk) == bytes \in Seq(BytesOf({disk}, {disk}))

\* Changes under way have cleared the channels.
Cleared ==
  /\ Changing(gui) => gui.step >= 5
  /\ Changing(worker) => worker.step >= 5

DiskTypes ==
  /\ drive.data \in Drives /\ drive.entries \in Drives
  /\ gui.disk \in Drives /\ worker.disk \in Drives

StoreType ==
  worker.doing = "store" =>
    /\ worker.data \in Seq(Byte) /\ worker.calm \in BOOLEAN
    /\ worker.calm => gui.doing = "idle"

ChannelsSound ==
  /\ drive.channels \in [Channels -> Channel]
  /\ \A c \in Channels : Delivered(drive.channels[c])

EofSound ==
  \A c \in Channels \ {15} :
    LET ch == drive.channels[c]
    IN  AtEnd(c) /\ ch.open /\ ch.got # Broken => ch.pos = Len(ch.data)

ChannelsPure ==
  ~mixed =>
    /\ Cleared => \A c \in Channels :
         drive.channels[c].calm => Pure(drive.channels[c].data, drive.data)
    /\ worker.doing = "store" /\ worker.calm => Pure(worker.data, drive.data)

CInv == DiskTypes /\ StoreType /\ ChannelsSound /\ EofSound /\ ChannelsPure

-----------------------------------------------------------------------------
(* What the methods do to the channels, and whose bytes they answer. *)

LEMMA SeqWiden ==
  ASSUME NEW A, NEW B, A \subseteq B, NEW s \in Seq(A)
  PROVE  s \in Seq(B)
<1>1. Len(s) \in Nat /\ s \in [1..Len(s) -> A]
  BY LenProperties
<1>2. s \in [1..Len(s) -> B]
  BY <1>1
<1> QED
  BY <1>1, <1>2, IsASeq

LEMMA DisksBytes ==
  ASSUME NEW disk \in Drives, NEW entries \in Drives
  PROVE  BytesOf({disk}, {entries}) \subseteq Byte
<1>1. {disk} \subseteq Drives /\ {entries} \subseteq Drives
  OBVIOUS
<1> HIDE DEF Drives
<1> QED
  BY <1>1 DEF BytesOf, Byte

LEMMA SetStatusKept ==
  ASSUME NEW d, NEW code, HasFields(d)
  PROVE  SetStatus(d, code).channels = d.channels /\ HasFields(SetStatus(d, code))
BY DEF HasFields, SetStatus

LEMMA PutKept ==
  ASSUME NEW d, NEW c, NEW contents, HasFields(d)
  PROVE  /\ Put(d, c, contents).channels = [d.channels EXCEPT ![c] = contents]
         /\ HasFields(Put(d, c, contents))
BY DEF HasFields, Put

LEMMA StatusPayloadKept ==
  ASSUME NEW d, HasFields(d)
  PROVE  StatusPayload(d).drive.channels = d.channels
BY SetStatusKept DEF StatusPayload, Ret

LEMMA ReportKept ==
  ASSUME NEW d, NEW code, HasFields(d)
  PROVE  Report(d, code).drive.channels = d.channels
BY SetStatusKept, StatusPayloadKept DEF Report

\* The result of a method that only reads the disk.
FromDisk(result, d) ==
  /\ result.drive.channels = d.channels
  /\ result.body \in Seq(BytesOf({d.data}, {d.entries}))

LEMMA RaiseFromDisk ==
  ASSUME NEW d, NEW exc, HasFields(d)
  PROVE  /\ FromDisk(Raise(d, exc), d)
         /\ \A code : FromDisk(Raise(SetStatus(d, code), exc), d)
BY SetStatusKept DEF FromDisk, Raise

LEMMA RequireDiskFromDisk ==
  ASSUME NEW d, NEW result, HasFields(d), d.data # 0 => FromDisk(result, d)
  PROVE  FromDisk(RequireDisk(d, result), d)
BY RaiseFromDisk DEF RequireDisk

LEMMA DirectoryFromDisk ==
  ASSUME NEW d, HasFields(d)
  PROVE  FromDisk(DirectoryPayload(d), d)
<1> DEFINE line == <<"dir", d.data, d.entries>>
<1>1. line \in BytesOf({d.data}, {d.entries})
  BY DEF BytesOf
<1> HIDE DEF line
<1>2. FromDisk(Ret(d, <<line>>), d)
  BY <1>1 DEF FromDisk, Ret
<1> QED
  BY <1>2, RequireDiskFromDisk DEF DirectoryPayload, line

LEMMA LoadEntryFromDisk ==
  ASSUME NEW d, NEW entry, HasFields(d), d.data \in Disks
  PROVE  FromDisk(LoadEntry(d, entry), d)
<1> DEFINE bytes == FollowPrgChain(d.data, entry.at)
<1>1. bytes \in ChainValue(d.data)
  <2>1. Broken \in ChainValue(d.data)
    BY DEF ChainValue
  <2> QED
    BY <2>1, ChainTyped DEF FollowPrgChain
<1>2. bytes # Broken => bytes \in Seq(BytesOf({d.data}, {d.entries}))
  <2>1. FileByte(d.data) \subseteq BytesOf({d.data}, {d.entries})
    BY DEF FileByte, BytesOf
  <2> HIDE DEF bytes
  <2> QED
    BY <1>1, <2>1, SeqWiden DEF ChainValue
<1> HIDE DEF bytes
<1>3. bytes # Broken => FromDisk(Ret(d, bytes), d)
  BY <1>2 DEF FromDisk, Ret
<1> QED
  BY <1>3, RaiseFromDisk DEF LoadEntry, bytes

LEMMA LoadFileFromDisk ==
  ASSUME NEW d, NEW name, NEW type, HasFields(d), d.data \in Drives
  PROVE  FromDisk(LoadFile(d, name, type), d)
<1> DEFINE allowed == IF type = "" THEN LOADABLE_TYPES ELSE {type}
           usable  == SelectSeq(Directory(d), LAMBDA e : e.type \in allowed)
           exact   == SelectSeq(usable, LAMBDA e : e.name = name)
           similar == SelectSeq(usable, LAMBDA e : e.name \in Matches[name])
           chosen  == CASE name = "*"                 -> FirstOf(usable, d)
                        [] name # "*" /\ exact # <<>> -> FirstOf(exact, d)
                        [] OTHER                      -> FirstOf(similar, d)
<1>1. LoadNamed(d, name, type) = RequireDisk(d, chosen)
  BY DEF LoadNamed
<1> HIDE DEF exact, similar, usable
<1>2. \/ chosen = FirstOf(usable, d) \/ chosen = FirstOf(exact, d)
      \/ chosen = FirstOf(similar, d)
  OBVIOUS
<1> HIDE DEF chosen
<1>3. d.data # 0 => \A entries : FromDisk(FirstOf(entries, d), d)
  BY LoadEntryFromDisk, RaiseFromDisk DEF FirstOf, Drives
<1>4. FromDisk(LoadNamed(d, name, type), d)
  BY <1>1, <1>2, <1>3, RequireDiskFromDisk
<1> QED
  BY <1>4, DirectoryFromDisk DEF LoadFile

LEMMA ReadSectorFromDisk ==
  ASSUME NEW d, NEW at, HasFields(d)
  PROVE  FromDisk(ReadSector(d, at), d)
<1> DEFINE bytes == [i \in 1..SectorSize |-> <<"sector", d.data, at, i>>]
<1>1. at \in Sectors => bytes \in Seq(BytesOf({d.data}, {d.entries}))
  <2>1. SectorSize \in Nat
    BY DosAssumption
  <2>2. at \in Sectors => \A i \in 1..SectorSize :
          <<"sector", d.data, at, i>> \in BytesOf({d.data}, {d.entries})
    BY <2>1 DEF BytesOf
  <2> QED
    BY <2>1, <2>2, IsASeq
<1> HIDE DEF bytes
<1>2. at \in Sectors => FromDisk(Ret(d, bytes), d)
  BY <1>1 DEF FromDisk, Ret
<1> QED
  BY <1>2, RaiseFromDisk, RequireDiskFromDisk DEF ReadSector, bytes

LEMMA ZerosBytes == \A disk, entries : Zeros \in Seq(BytesOf({disk}, {entries}))
<1> TAKE disk, entries
<1>1. <<"zero", 0>> \in BytesOf({disk}, {entries}) /\ SectorSize \in Nat
  BY DosAssumption DEF BytesOf
<1> QED
  BY <1>1, IsASeq DEF Zeros

-----------------------------------------------------------------------------
(* What the requests do to the channels. *)

\* Where the bytes of a channel that a request changes come from.
FilledFrom(ch, c) ==
  \/ ch.data \in {<<>>, Zeros}
  \/ c \in Channels /\ ch.data = drive.channels[c].data /\ ch.calm = drive.channels[c].calm
  \/ worker.doing = "store" /\ ch.data = worker.data /\ ch.calm = worker.calm

\* What a request may do to the channels, and what it may leave to be stored.
ChannelStep ==
  \/ drive'.channels \in {drive.channels, NoChannels} /\ eof' \in {eof, NoEof}
  \/ \E c, ch :
       /\ drive'.channels = [drive.channels EXCEPT ![c] = ch]
       /\ ch \in Channel /\ Delivered(ch) /\ FilledFrom(ch, c)
       /\ eof' = NoEof \/ (eof'[1] = c /\ (eof'[2] # 0 => ch.pos = Len(ch.data)))

FetchStep ==
  \/ worker' = worker
  \/ worker'.disk = 0 /\ worker'.doing # "store"
  \/ /\ worker'.disk = 0 /\ worker'.calm = (gui.doing = "idle")
     /\ worker'.data \in Seq(BytesOf({drive.data}, {drive.entries}))

ReadsStep == ChannelStep /\ FetchStep

LEMMA OpenedSound ==
  ASSUME NEW data \in Seq(Byte), NEW quiet \in BOOLEAN
  PROVE  LET ch == Opened(data, quiet)
         IN  ch \in Channel /\ Delivered(ch) /\ ch.data = data /\ ch.calm = quiet
<1>1. SubSeq(data, 1, 0) = <<>> /\ <<>> \in Seq(Byte) /\ Len(data) \in Nat
  BY SubSeqEmpty, EmptySeq, LenProperties
<1> QED
  BY <1>1 DEF Opened, Channel, Delivered

LEMMA ClosedSound ==
  Closed \in Channel /\ Delivered(Closed) /\ Closed.data = <<>> /\ ~Closed.open
<1> DEFINE ch == Opened(<<>>, TRUE)
<1>1. <<>> \in Seq(Byte)
  BY EmptySeq
<1>2. ch \in Channel /\ Delivered(ch) /\ ch.data = <<>>
  BY <1>1, OpenedSound
<1>3. Closed = [ch EXCEPT !.open = FALSE]
  BY DEF Closed
<1> HIDE DEF ch
<1> QED
  BY <1>2, <1>3 DEF Channel, Delivered

LEMMA ZerosSound == Zeros \in Seq(Byte) /\ Opened(Zeros, TRUE) \in Channel
<1>1. Zeros \in Seq(Byte)
  <2>1. BytesOf({0}, {0}) \subseteq Byte
    BY DisksBytes DEF Drives
  <2> QED
    BY <2>1, ZerosBytes, SeqWiden
<1> QED
  BY <1>1, OpenedSound

\* An answer that leaves the channels alone.
LEMMA AnswerReads ==
  ASSUME NEW result, result.drive.channels = drive.channels, Answer(result), UNCHANGED worker
  PROVE  ReadsStep
BY DEF Answer, ReadsStep, ChannelStep, FetchStep

LEMMA FetchReads ==
  ASSUME NEW c, NEW result, result.drive.channels = drive.channels,
         result.body \in Seq(BytesOf({drive.data}, {drive.entries})), Fetch(c, result)
  PROVE  ReadsStep
<1>1. CASE result.exc = "none"
  <2>1. /\ drive' = result.drive /\ eof' = eof
        /\ worker' = [Waiting EXCEPT !.doing = "store", !.channel = c, !.data = result.body,
                                     !.calm = gui.doing = "idle"]
    BY <1>1 DEF Fetch
  <2>2. /\ worker'.disk = 0 /\ worker'.calm = (gui.doing = "idle")
        /\ worker'.data = result.body
    BY <2>1 DEF Waiting
  <2> QED
    BY <2>1, <2>2 DEF ReadsStep, ChannelStep, FetchStep
<1>2. CASE result.exc # "none"
  BY <1>2, AnswerReads DEF Fetch
<1> QED
  BY <1>1, <1>2

\* One channel gets new contents.
LEMMA PutReads ==
  ASSUME NEW c, NEW ch \in Channel, Delivered(ch), FilledFrom(ch, c),
         drive'.channels = [drive.channels EXCEPT ![c] = ch], eof' = NoEof, FetchStep
  PROVE  ReadsStep
BY DEF ReadsStep, ChannelStep

LEMMA BufferPointerReads ==
  ASSUME Shapes, CInv, NEW c \in Channels, NEW pos \in Nat, MovePointer(c, pos)
  PROVE  ReadsStep
<1> DEFINE ch == IF drive.channels[c].open THEN drive.channels[c] ELSE Opened(Zeros, TRUE)
           at == IF pos % 256 < Len(ch.data) THEN pos % 256 ELSE Len(ch.data)
           to == [ch EXCEPT !.pos = at, !.got = Broken]
<1>1. ch \in Channel /\ FilledFrom(ch, c)
  BY ZerosSound, OpenedSound DEF CInv, ChannelsSound, FilledFrom
<1>2. drive' = Report(Put(drive, c, to), 0).drive /\ eof' = NoEof /\ worker' = worker
  BY DEF MovePointer, BufferPointer, Answer
<1> HIDE DEF ch
<1>3. Len(ch.data) \in Nat /\ at \in Nat /\ at <= Len(ch.data)
  BY <1>1 DEF Channel
<1> HIDE DEF at
<1>4. to \in Channel /\ to.data = ch.data /\ to.calm = ch.calm /\ to.pos = at /\ to.got = Broken
  BY <1>1, <1>3 DEF Channel
<1>5. Delivered(to) /\ FilledFrom(to, c)
  BY <1>1, <1>3, <1>4 DEF Delivered, FilledFrom
<1> HIDE DEF to
<1>6. drive'.channels = [drive.channels EXCEPT ![c] = to]
  <2> DEFINE e == Put(drive, c, to)
  <2>1. e.channels = [drive.channels EXCEPT ![c] = to] /\ HasFields(e)
    BY PutKept DEF Shapes
  <2>2. drive' = Report(e, 0).drive
    BY <1>2
  <2> HIDE DEF e
  <2> QED
    BY <2>1, <2>2, ReportKept
<1> QED
  BY <1>2, <1>4, <1>5, <1>6, PutReads DEF FetchStep

LEMMA ReadDelivers ==
  ASSUME NEW ch \in Channel, ch.open, Delivered(ch), NEW size \in Nat
  PROVE  LET end == IF ch.pos + size < Len(ch.data) THEN ch.pos + size ELSE Len(ch.data)
             out == SubSeq(ch.data, ch.pos + 1, end)
             to  == [ch EXCEPT !.pos = end, !.got = IF @ = Broken THEN @ ELSE @ \o out]
         IN  /\ to \in Channel /\ Delivered(to) /\ to.data = ch.data /\ to.calm = ch.calm
             /\ out = <<>> /\ size # 0 => to.pos = Len(to.data)
<1> DEFINE end == IF ch.pos + size < Len(ch.data) THEN ch.pos + size ELSE Len(ch.data)
           out == SubSeq(ch.data, ch.pos + 1, end)
           got == IF ch.got = Broken THEN ch.got ELSE ch.got \o out
           to  == [ch EXCEPT !.pos = end, !.got = IF @ = Broken THEN @ ELSE @ \o out]
<1>1. /\ ch.data \in Seq(Byte) /\ ch.pos \in Nat /\ ch.got \in Seq(Byte) \cup {Broken}
      /\ Len(ch.data) \in Nat /\ ch.pos <= Len(ch.data)
  BY DEF Channel, Delivered
<1>2. end \in ch.pos .. Len(ch.data)
  BY <1>1
<1> HIDE DEF end
<1>3. out \in Seq(Byte) /\ Len(out) = IF ch.pos + 1 <= end THEN end - (ch.pos + 1) + 1 ELSE 0
  <2>1. \A i \in ch.pos + 1 .. end : ch.data[i] \in Byte
    BY <1>1, <1>2, ElementOfSeq
  <2> QED
    BY <1>1, <1>2, <2>1, SubSeqProperties
<1>4. ch.got # Broken => got = SubSeq(ch.data, 1, end) /\ got \in Seq(Byte)
  <2> SUFFICES ASSUME ch.got # Broken
               PROVE  got = SubSeq(ch.data, 1, end) /\ got \in Seq(Byte)
    OBVIOUS
  <2>1. got = ch.got \o out /\ ch.got = SubSeq(ch.data, 1, ch.pos)
    BY DEF Delivered
  <2>2. 1 \in 1 .. Len(ch.data) + 1 /\ ch.pos \in 1 - 1 .. Len(ch.data) /\ end \in ch.pos .. Len(ch.data)
    BY <1>1, <1>2
  <2>3. SubSeq(ch.data, 1, ch.pos) \o out = SubSeq(ch.data, 1, end)
    BY <1>1, <2>2, ConcatAdjacentSubSeq
  <2>4. ch.got \o out \in Seq(Byte)
    BY <1>1, <1>3, ConcatProperties
  <2> QED
    BY <2>1, <2>3, <2>4
<1>5. out = <<>> /\ size # 0 => end = Len(ch.data)
  <2>1. Len(<<>>) = 0
    BY EmptySeq
  <2>2. out = <<>> => ~(ch.pos + 1 <= end)
    <3> HIDE DEF out
    <3> QED
      BY <1>1, <1>2, <1>3, <2>1
  <2> HIDE DEF out
  <2> QED
    BY <1>1, <1>2, <2>2 DEF end
<1>6. to = [ch EXCEPT !.pos = end, !.got = got]
  BY DEF Channel
<1> HIDE DEF out, got
<1>7. to \in Channel /\ to.data = ch.data /\ to.calm = ch.calm /\ to.pos = end /\ to.got = got
      /\ to.open = ch.open
  <2>1. got \in Seq(Byte) \cup {Broken}
    BY <1>1, <1>4 DEF got
  <2>2. end \in Nat
    BY <1>1, <1>2
  <2> HIDE DEF to
  <2> QED
    BY <1>6, <2>1, <2>2 DEF Channel
<1> HIDE DEF to
<1>8. Delivered(to)
  <2>1. got # Broken => ch.got # Broken
    BY DEF got
  <2> QED
    BY <1>1, <1>2, <1>4, <1>7, <2>1 DEF Delivered
<1> QED
  BY <1>5, <1>7, <1>8 DEF to, out, end

LEMMA ReadReads ==
  ASSUME Shapes, CInv, NEW c \in Channels, NEW size \in Sizes, Read(c, size)
  PROVE  ReadsStep
<1> DEFINE ch   == drive.channels[c]
           end  == IF ch.pos + size < Len(ch.data) THEN ch.pos + size ELSE Len(ch.data)
           out  == SubSeq(ch.data, ch.pos + 1, end)
           to   == [ch EXCEPT !.pos = end, !.got = IF @ = Broken THEN @ ELSE @ \o out]
           code == IF out = <<>> /\ end = Len(ch.data) THEN 64 ELSE 0
           result == ReadChannel(drive, c, size)
<1>1. /\ drive' = result.drive /\ worker' = worker
      /\ eof' = IF result.exc = "none" /\ result.body = <<>> /\ c # 15
                  THEN <<c, size>> ELSE NoEof
  BY DEF Read
<1>2. result = CASE c = 15 -> StatusPayload(drive)
                 [] c # 15 /\ ~ch.open -> Raise(SetStatus(drive, 61), "RuntimeError")
                 [] OTHER -> Ret(SetStatus(Put(drive, c, to), code), out)
  BY DEF ReadChannel
<1>3. CASE c = 15
  <2>1. drive'.channels = drive.channels /\ eof' = NoEof
    BY <1>1, <1>2, <1>3, StatusPayloadKept DEF Shapes
  <2> QED
    BY <1>1, <2>1 DEF ReadsStep, ChannelStep, FetchStep
<1>4. CASE c # 15 /\ ~ch.open
  <2>1. result = Raise(SetStatus(drive, 61), "RuntimeError")
    BY <1>2, <1>4
  <2>2. result.drive = SetStatus(drive, 61) /\ result.exc = "RuntimeError"
    BY <2>1 DEF Raise
  <2>3. drive'.channels = drive.channels /\ eof' = NoEof
    BY <1>1, <2>2, SetStatusKept DEF Shapes
  <2> QED
    BY <1>1, <2>3 DEF ReadsStep, ChannelStep, FetchStep
<1>5. CASE c # 15 /\ ch.open
  <2>1. result = Ret(SetStatus(Put(drive, c, to), code), out)
    BY <1>2, <1>5
  <2> HIDE DEF result
  <2>2. ch \in Channel /\ Delivered(ch) /\ size \in Nat
    BY DosAssumption DEF CInv, ChannelsSound
  <2>3. /\ to \in Channel /\ Delivered(to) /\ to.data = ch.data /\ to.calm = ch.calm
        /\ out = <<>> /\ size # 0 => to.pos = Len(to.data)
    <3> HIDE DEF ch
    <3> QED
      BY <1>5, <2>2, ReadDelivers
  <2> HIDE DEF to, out, code
  <2>4. drive' = SetStatus(Put(drive, c, to), code) /\ result.body = out
    BY <1>1, <2>1 DEF Ret
  <2>5. drive'.channels = [drive.channels EXCEPT ![c] = to]
    <3> DEFINE e == Put(drive, c, to)
    <3>1. e.channels = [drive.channels EXCEPT ![c] = to] /\ HasFields(e)
      BY PutKept DEF Shapes
    <3>2. drive' = SetStatus(e, code)
      BY <2>4
    <3> HIDE DEF e
    <3> QED
      BY <3>1, <3>2, SetStatusKept
  <2>6. eof' = NoEof \/ (eof'[1] = c /\ (eof'[2] # 0 => to.pos = Len(to.data)))
    BY <1>1, <2>3, <2>4
  <2>7. FilledFrom(to, c)
    BY <2>3 DEF FilledFrom
  <2> QED
    BY <1>1, <2>3, <2>5, <2>6, <2>7 DEF ReadsStep, ChannelStep, FetchStep
<1> QED
  BY <1>3, <1>4, <1>5

LEMMA StoresReads ==
  ASSUME Shapes, CInv, Stores
  PROVE  ReadsStep
<1> DEFINE ch == Opened(worker.data, worker.calm)
           e  == Put(drive, worker.channel, ch)
<1>1. ch \in Channel /\ Delivered(ch) /\ FilledFrom(ch, worker.channel)
  BY OpenedSound DEF Stores, CInv, StoreType, FilledFrom
<1>2. drive' = Report(e, 0).drive /\ eof' = NoEof /\ worker' = Waiting
  BY DEF Stores, Answer
<1>3. e.channels = [drive.channels EXCEPT ![worker.channel] = ch] /\ HasFields(e)
  BY PutKept DEF Shapes
<1> HIDE DEF e, ch
<1>4. drive'.channels = [drive.channels EXCEPT ![worker.channel] = ch]
  BY <1>2, <1>3, ReportKept
<1>5. FetchStep
  BY <1>2 DEF FetchStep, Waiting
<1> QED
  BY <1>1, <1>2, <1>4, <1>5, PutReads

LEMMA CloseReads ==
  ASSUME Shapes, NEW c, Close(c)
  PROVE  ReadsStep
<1> DEFINE e == Put(drive, c, Closed)
<1>1. drive' = Report(e, 0).drive /\ eof' = NoEof /\ worker' = worker
  BY DEF Close, CloseChannel, Answer
<1>2. e.channels = [drive.channels EXCEPT ![c] = Closed] /\ HasFields(e)
  BY PutKept DEF Shapes
<1> HIDE DEF e
<1>3. drive'.channels = [drive.channels EXCEPT ![c] = Closed]
  BY <1>1, <1>2, ReportKept
<1> QED
  BY <1>1, <1>3, ClosedSound, PutReads DEF FilledFrom, FetchStep

LEMMA OpenStatusReads ==
  ASSUME Shapes, OpenStatus
  PROVE  ReadsStep
<1> DEFINE ch == Opened(<<>>, TRUE)
           e  == Put(drive, 15, ch)
<1>1. drive' = StatusPayload(e).drive /\ eof' = NoEof /\ worker' = worker
  BY DEF OpenStatus, Answer
<1>2. e.channels = [drive.channels EXCEPT ![15] = ch] /\ HasFields(e)
  BY PutKept DEF Shapes
<1>3. ch \in Channel /\ Delivered(ch) /\ FilledFrom(ch, 15)
  BY EmptySeq, OpenedSound DEF FilledFrom
<1> HIDE DEF e, ch
<1>4. drive'.channels = [drive.channels EXCEPT ![15] = ch]
  BY <1>1, <1>2, StatusPayloadKept
<1> QED
  BY <1>1, <1>3, <1>4, PutReads DEF FetchStep

LEMMA InitializesReads ==
  ASSUME Shapes, Initializes
  PROVE  ReadsStep
<1> DEFINE e == [drive EXCEPT !.channels = NoChannels]
<1>1. PICK code : Answer(Initialize(drive, code)) /\ worker' = worker
  BY DEF Initializes
<1>2. e.channels = NoChannels /\ HasFields(e)
  BY DEF Shapes, HasFields
<1>3. \E n : Initialize(drive, code) = Report(e, n)
  BY DEF Initialize
<1> HIDE DEF e
<1>4. drive'.channels = NoChannels /\ eof' = NoEof
  BY <1>1, <1>2, <1>3, ReportKept DEF Answer
<1> QED
  BY <1>1, <1>4 DEF ReadsStep, ChannelStep, FetchStep

LEMMA OpenReads ==
  ASSUME Shapes, CInv, NEW c, NEW spec, NEW ascii \in BOOLEAN, Open(c, spec, ascii)
  PROVE  ReadsStep
<1> DEFINE f      == IF ascii THEN AsciiSpec(spec) ELSE spec
           loaded == LoadFile(drive, f.name, f.type)
           result == IF loaded.exc = "FileNotFoundError"
                       THEN Raise(SetStatus(loaded.drive, 62), loaded.exc) ELSE loaded
<1> USE DEF Shapes
<1>1. FromDisk(loaded, drive)
  BY LoadFileFromDisk DEF CInv, DiskTypes
<1>2. HasFields(loaded.drive)
  BY LoadFileKeeps DEF Keeps, SameDisk
<1>3. FromDisk(result, drive)
  <2> HIDE DEF loaded
  <2>1. SetStatus(loaded.drive, 62).channels = drive.channels
    BY <1>1, <1>2, SetStatusKept DEF FromDisk
  <2> QED
    BY <1>1, <2>1, EmptySeq DEF FromDisk, Raise
<1>4. FromDisk(Ret(drive, Zeros), drive)
  BY ZerosBytes DEF FromDisk, Ret
<1>5. \/ Fetch(c, Ret(drive, Zeros))
      \/ Answer(Report(drive, 26)) /\ UNCHANGED worker
      \/ Fetch(c, result)
  BY DEF Open
<1> HIDE DEF result
<1> QED
  BY <1>3, <1>4, <1>5, FetchReads, AnswerReads, ReportKept DEF FromDisk

LEMMA ToldReads ==
  ASSUME Shapes, CInv, Told
  PROVE  ReadsStep
<1> USE DEF Shapes
<1>1. drive.data \in Drives
  BY DEF CInv, DiskTypes
<1>2. \A name, type : LoadFile(drive, name, type).drive.channels = drive.channels
  BY <1>1, LoadFileFromDisk DEF FromDisk
<1>3. ASSUME NEW size
      PROVE  LoadChunk(drive, "*", 0, size).drive.channels = drive.channels
  <2>1. \A whole, part : Keeps(whole, drive) => [whole EXCEPT !.body = part].drive = whole.drive
    BY DEF Keeps
  <2>2. Keeps(LoadFile(drive, "*", ""), drive)
    BY LoadFileKeeps
  <2> DEFINE whole == LoadFile(drive, "*", "")
  <2>3. \E part : LoadChunk(drive, "*", 0, size) = [whole EXCEPT !.body = part]
    BY DEF LoadChunk
  <2>4. Keeps(whole, drive) /\ whole.drive.channels = drive.channels
    BY <1>2, <2>2
  <2> HIDE DEF whole
  <2> QED
    BY <2>1, <2>3, <2>4
<1>4. Validate(drive).drive.channels = drive.channels
  BY ReportKept, SetStatusKept DEF Validate, RequireDisk, Raise
<1>5. \A code : Refuse(drive, code).drive.channels = drive.channels
  BY ReportKept DEF Refuse
<1>6. /\ DirectoryPayload(drive).drive.channels = drive.channels
      /\ StatusPayload(drive).drive.channels = drive.channels
      /\ \A at : ReadSector(drive, at).drive.channels = drive.channels
  BY DirectoryFromDisk, ReadSectorFromDisk, StatusPayloadKept DEF FromDisk
<1>7. PICK result : result.drive.channels = drive.channels /\ Answer(result)
  <2>1. \/ Answer(DirectoryPayload(drive))
        \/ \E f \in Specs : Answer(LoadFile(drive, f.name, ""))
        \/ \E size \in Sizes : Answer(LoadChunk(drive, "*", 0, size))
        \/ \E at \in Sectors \cup {<<0, 0>>} : Answer(ReadSector(drive, at))
        \/ Answer(StatusPayload(drive))
        \/ Answer(Validate(drive))
        \/ \E code \in {26, 30, 31} : Answer(Refuse(drive, code))
    BY DEF Told
  <2> QED
    BY <1>2, <1>3, <1>4, <1>5, <1>6, <2>1
<1> QED
  BY <1>7, AnswerReads DEF Told

LEMMA RequestsRead ==
  ASSUME Shapes, CInv, Served
  PROVE  ReadsStep
<1> USE DEF Shapes
<1>1. CASE Refused
  BY <1>1 DEF Refused, ReadsStep, ChannelStep, FetchStep
<1>2. CASE Images
  <2>1. [drive EXCEPT !.images = drive.folder].channels = drive.channels
    BY DEF HasFields
  <2>2. PICK result : result.drive.channels = drive.channels /\ Answer(result)
    BY <1>2, <2>1 DEF Images, Ret, Raise
  <2> QED
    BY <1>2, <2>2, AnswerReads DEF Images
<1>3. CASE \E disk \in Disks : MountNot(disk)
  BY <1>3, AnswerReads DEF MountNot, Raise
<1>4. ASSUME NEW args \in BlockArgs, BlockRead(args)
      PROVE  ReadsStep
  <2>1. Raise(SetStatus(drive, 30), "ValueError").drive.channels = drive.channels
    BY SetStatusKept DEF Raise
  <2>2. \A at : FromDisk(ReadSector(drive, at), drive)
    BY ReadSectorFromDisk
  <2> QED
    BY <1>4, <2>1, <2>2, AnswerReads, FetchReads DEF BlockRead, FromDisk
<1>5. CASE \E p \in Pointers : MovePointer(p[1], p[2])
  BY <1>5, BufferPointerReads, DosAssumption
<1>6. ASSUME NEW c \in Channels, Write(c)
      PROVE  ReadsStep
  BY <1>6, AnswerReads, ReportKept DEF Write
<1> QED
  BY <1>1, <1>2, <1>3, <1>4, <1>5, <1>6, StoresReads, ToldReads, InitializesReads,
     OpenStatusReads, CloseReads, OpenReads, ReadReads DEF Served

-----------------------------------------------------------------------------
(* Every step keeps what the channels hold. *)

LEMMA EmptyPure == \A disk : Pure(<<>>, disk) /\ Pure(Zeros, disk)
BY EmptySeq, ZerosBytes DEF Pure

LEMMA NoChannelsSound ==
  /\ NoChannels \in [Channels -> Channel]
  /\ \A c \in Channels : /\ Delivered(NoChannels[c]) /\ ~NoChannels[c].open
                         /\ \A disk : Pure(NoChannels[c].data, disk)
<1> HIDE DEF Channel
<1>1. NoChannels \in [Channels -> Channel] /\ \A c \in Channels : NoChannels[c] = Closed
  BY ClosedSound DEF NoChannels
<1> QED
  BY <1>1, ClosedSound, EmptyPure

LEMMA ReadsKeep ==
  ASSUME IInv, CInv, Serves, ReadsStep
  PROVE  CInv'
<1> USE DEF CInv, IInv, Shapes
<1>1. /\ drive'.data = drive.data /\ drive'.entries = drive.entries
      /\ gui' = gui /\ mixed' = mixed /\ ~Changing(worker) /\ ~Changing(worker')
  BY DEF Serves, SameDisk
<1>2. worker'.doing = "store" =>
        \/ worker' = worker
        \/ worker'.calm = (gui.doing = "idle")
           /\ worker'.data \in Seq(BytesOf({drive.data}, {drive.entries}))
  BY DEF ReadsStep, FetchStep
<1>3. DiskTypes'
  BY <1>1 DEF DiskTypes, ReadsStep, FetchStep, Drives
<1>4. StoreType'
  <2>1. BytesOf({drive.data}, {drive.entries}) \subseteq Byte
    BY DisksBytes DEF DiskTypes
  <2>2. worker'.data \in Seq(BytesOf({drive.data}, {drive.entries})) => worker'.data \in Seq(Byte)
    BY <2>1, SeqWiden
  <2> QED
    BY <1>1, <1>2, <2>2 DEF StoreType
<1>5. ~mixed /\ worker'.doing = "store" /\ worker'.calm => Pure(worker'.data, drive.data)
  <2> SUFFICES ASSUME ~mixed, worker'.doing = "store", worker'.calm
               PROVE  Pure(worker'.data, drive.data)
    OBVIOUS
  <2>1. CASE worker' = worker
    BY <2>1 DEF ChannelsPure
  <2>2. CASE worker'.calm = (gui.doing = "idle")
             /\ worker'.data \in Seq(BytesOf({drive.data}, {drive.entries}))
    BY <1>1, <2>2 DEF OneChange, Changing, Pure
  <2> QED
    BY <1>2, <2>1, <2>2
<1>6. Cleared' <=> Cleared
  BY <1>1 DEF Cleared, Changing
<1>7. CASE drive'.channels = drive.channels /\ eof' \in {eof, NoEof}
  <2>1. ChannelsSound' /\ EofSound'
    BY <1>7, DosAssumption DEF ChannelsSound, EofSound, AtEnd, NoEof, NoChannel
  <2>2. ChannelsPure'
    BY <1>1, <1>5, <1>6, <1>7 DEF ChannelsPure
  <2> QED
    BY <1>3, <1>4, <2>1, <2>2
<1>8. CASE drive'.channels = NoChannels
  <2>1. ChannelsSound' /\ EofSound'
    BY <1>8, NoChannelsSound DEF ChannelsSound, EofSound, AtEnd
  <2>2. ChannelsPure'
    BY <1>1, <1>5, <1>8, NoChannelsSound DEF ChannelsPure
  <2> QED
    BY <1>3, <1>4, <2>1, <2>2
<1>9. ASSUME NEW c, NEW ch \in Channel,
             drive'.channels = [drive.channels EXCEPT ![c] = ch],
             Delivered(ch), FilledFrom(ch, c),
             eof' = NoEof \/ (eof'[1] = c /\ (eof'[2] # 0 => ch.pos = Len(ch.data)))
      PROVE  CInv'
  <2>1. drive'.channels \in [Channels -> Channel]
    BY <1>9 DEF ChannelsSound
  <2>2. \A k \in Channels : drive'.channels[k] = IF k = c THEN ch ELSE drive.channels[k]
    BY <1>9 DEF ChannelsSound
  <2>3. ChannelsSound' /\ EofSound'
    BY <1>9, <2>1, <2>2, DosAssumption DEF ChannelsSound, EofSound, AtEnd, NoEof, NoChannel
  <2>4. ~mixed /\ Cleared /\ ch.calm => Pure(ch.data, drive.data)
    BY <1>9, EmptyPure DEF FilledFrom, ChannelsPure
  <2>5. ChannelsPure'
    BY <1>1, <1>5, <1>6, <2>2, <2>4 DEF ChannelsPure
  <2> QED
    BY <1>3, <1>4, <2>3, <2>5
<1> QED
  BY <1>7, <1>8, <1>9 DEF ReadsStep, ChannelStep

LEMMA InitReads == Init => CInv
<1> SUFFICES ASSUME Init PROVE CInv
  OBVIOUS
<1>1. PICK f \in Folders, d \in Drives :
        /\ drive = [folder |-> f, images |-> f, path |-> d, data |-> d, entries |-> d,
                    ok |-> d # 0, channels |-> NoChannels]
        /\ gui = Idle /\ worker = Waiting
  BY DosAssumption DEF Init, Drives
<1>2. drive.data = d /\ drive.entries = d /\ drive.channels = NoChannels
  BY <1>1
<1>3. gui.disk = 0 /\ worker.disk = 0 /\ worker.doing = "idle"
  BY <1>1 DEF Idle, Waiting
<1> QED
  BY <1>2, <1>3, NoChannelsSound
     DEF CInv, DiskTypes, StoreType, ChannelsSound, EofSound, AtEnd, ChannelsPure, Drives

\* The assignments clear the channels, once.
LEMMA MountStepChannels ==
  ASSUME NEW d, NEW disk, NEW step \in Nat, HasFields(d)
  PROVE  MountStep(d, disk, step).channels = IF step = 4 THEN NoChannels ELSE d.channels
<1>1. step = 1 => MountStep(d, disk, step) = [d EXCEPT !.path = disk]
  BY DEF MountStep
<1>2. step = 2 => MountStep(d, disk, step) = [d EXCEPT !.data = disk]
  BY DEF MountStep
<1>3. step = 3 => MountStep(d, disk, step) = [d EXCEPT !.entries = disk]
  BY DEF MountStep
<1>4. step = 4 => MountStep(d, disk, step) = [d EXCEPT !.channels = NoChannels]
  BY DEF MountStep
<1>5. step \notin 1..4 => MountStep(d, disk, step) = SetStatus(d, 0)
  BY DEF MountStep
<1>6. SetStatus(d, 0).channels = d.channels
  BY SetStatusKept
<1> HIDE DEF NoChannels
<1> QED
  BY <1>1, <1>2, <1>3, <1>4, <1>5, <1>6 DEF HasFields

LEMMA FolderStepChannels ==
  ASSUME NEW d, NEW folder, NEW step \in Nat, HasFields(d)
  PROVE  FolderStep(d, folder, step).channels = IF step = 4 THEN NoChannels ELSE d.channels
<1>1. CASE step = 1
  <2> DEFINE e == [d EXCEPT !.folder = folder, !.path = 0]
  <2>1. FolderStep(d, folder, step) = e
    BY <1>1 DEF FolderStep
  <2>2. e.channels = d.channels
    BY DEF HasFields
  <2> HIDE DEF e
  <2> QED
    BY <1>1, <2>1, <2>2
<1>2. CASE step = 2
  BY <1>2 DEF FolderStep, HasFields
<1>3. CASE step = 3
  BY <1>3 DEF FolderStep, HasFields
<1>4. CASE step = 4
  BY <1>4 DEF FolderStep, HasFields
<1>5. CASE step = 5
  BY <1>5, SetStatusKept DEF FolderStep
<1>6. CASE step \notin 1..5
  BY <1>6 DEF FolderStep, HasFields
<1> QED
  BY <1>1, <1>2, <1>3, <1>4, <1>5, <1>6

\* A change of disk goes one assignment on.
LEMMA AssignsKeepChannels ==
  ASSUME CInv, eof' = eof,
         NEW step, drive'.channels = IF step = 4 THEN NoChannels ELSE drive.channels
  PROVE  ChannelsSound' /\ EofSound'
BY NoChannelsSound DEF CInv, ChannelsSound, EofSound, AtEnd

LEMMA GuiAssignsReads ==
  ASSUME IInv, CInv, GuiAssigns
  PROVE  CInv'
<1> USE DEF CInv, IInv, Shapes
<1>1. /\ gui' = [gui EXCEPT !.step = @ + 1] /\ UNCHANGED <<worker, eof, mixed>>
      /\ Changing(gui) /\ gui.step \in Nat
  BY DEF GuiAssigns, Changing, GuiShape
<1>2. gui'.disk = gui.disk /\ gui'.doing = gui.doing /\ gui'.step = gui.step + 1
  BY <1>1 DEF GuiShape
<1>3. /\ drive'.data     = IF gui.step = 2 THEN gui.disk ELSE drive.data
      /\ drive'.entries  = IF gui.step = 3 THEN gui.disk ELSE drive.entries
      /\ drive'.channels = IF gui.step = 4 THEN NoChannels ELSE drive.channels
  <2>1. CASE gui.doing = "mount" /\ drive' = MountStep(drive, gui.disk, gui.step)
    BY <1>1, <2>1, MountStepSets, MountStepChannels
  <2>2. CASE gui.doing = "folder" /\ drive' = FolderStep(drive, gui.folder, gui.step)
    BY <1>1, <2>2, FolderStepSets, FolderStepChannels DEF GuiShape
  <2> QED
    BY <2>1, <2>2 DEF GuiAssigns
<1>4. DiskTypes' /\ StoreType'
  BY <1>1, <1>2, <1>3 DEF DiskTypes, StoreType
<1>5. ~(worker.doing = "store" /\ worker.calm)
  BY <1>1 DEF StoreType, Changing
<1>6. ASSUME ~mixed, Cleared', NEW c \in Channels, drive'.channels[c].calm
      PROVE  Pure(drive'.channels[c].data, drive'.data)
  <2>1. gui.step >= 4
    BY <1>1, <1>2, <1>6 DEF Cleared, Changing
  <2>2. CASE gui.step = 4
    BY <1>3, <2>2, NoChannelsSound
  <2>3. CASE gui.step >= 5
    <3>1. ~Changing(worker)
      BY <1>1, <1>6 DEF OneChange
    <3>2. Cleared
      BY <2>3, <3>1 DEF Cleared
    <3> QED
      BY <1>1, <1>3, <1>6, <2>3, <3>2 DEF ChannelsPure
  <2> QED
    BY <1>1, <2>1, <2>2, <2>3
<1>7. ChannelsPure'
  BY <1>1, <1>5, <1>6 DEF ChannelsPure
<1> QED
  BY <1>1, <1>3, <1>4, <1>7, AssignsKeepChannels

LEMMA MountAssignsReads ==
  ASSUME IInv, CInv, MountAssigns
  PROVE  CInv'
<1> USE DEF CInv, IInv, Shapes
<1>1. /\ worker' = [worker EXCEPT !.step = @ + 1] /\ UNCHANGED <<gui, eof, mixed>>
      /\ Changing(worker) /\ worker.step \in Nat /\ worker.doing = "mount"
  BY DEF MountAssigns, Changing, WorkerShape
<1>2. worker'.disk = worker.disk /\ worker'.doing = "mount" /\ worker'.step = worker.step + 1
  BY <1>1 DEF WorkerShape
<1>3. /\ drive'.data     = IF worker.step = 2 THEN worker.disk ELSE drive.data
      /\ drive'.entries  = IF worker.step = 3 THEN worker.disk ELSE drive.entries
      /\ drive'.channels = IF worker.step = 4 THEN NoChannels ELSE drive.channels
  BY <1>1, MountStepSets, MountStepChannels DEF MountAssigns
<1>4. DiskTypes' /\ StoreType'
  BY <1>1, <1>2, <1>3 DEF DiskTypes, StoreType
<1>5. ASSUME ~mixed, Cleared', NEW c \in Channels, drive'.channels[c].calm
      PROVE  Pure(drive'.channels[c].data, drive'.data)
  <2>1. worker.step >= 4
    BY <1>1, <1>2, <1>5 DEF Cleared, Changing
  <2>2. CASE worker.step = 4
    BY <1>3, <2>2, NoChannelsSound
  <2>3. CASE worker.step >= 5
    <3>1. ~Changing(gui)
      BY <1>1, <1>5 DEF OneChange
    <3>2. Cleared
      BY <2>3, <3>1 DEF Cleared
    <3> QED
      BY <1>1, <1>3, <1>5, <2>3, <3>2 DEF ChannelsPure
  <2> QED
    BY <1>1, <2>1, <2>2, <2>3
<1>6. ChannelsPure'
  BY <1>1, <1>2, <1>5 DEF ChannelsPure
<1> QED
  BY <1>1, <1>3, <1>4, <1>6, AssignsKeepChannels

LEMMA GuiBeginsReads ==
  ASSUME IInv, CInv, GuiBegins
  PROVE  CInv'
<1> USE DEF CInv, IInv, Shapes
<1>1. UNCHANGED <<drive, eof>> /\ worker' = [worker EXCEPT !.calm = FALSE]
  BY DEF GuiBegins, Begins
<1>2. gui'.disk \in Drives /\ Changing(gui') /\ gui'.step = 1
  <2>1. ASSUME NEW disk \in Disks, gui' = [Idle EXCEPT !.doing = "mount", !.disk = disk, !.step = 1]
        PROVE  gui'.disk \in Drives /\ Changing(gui') /\ gui'.step = 1
    BY <2>1 DEF Idle, Changing, Drives
  <2>2. ASSUME NEW f, gui' = [Idle EXCEPT !.doing = "folder", !.folder = f, !.step = 1]
        PROVE  gui'.disk \in Drives /\ Changing(gui') /\ gui'.step = 1
    BY <2>2 DEF Idle, Changing, Drives
  <2> QED
    BY <2>1, <2>2 DEF GuiBegins
<1>3. ~worker'.calm /\ worker'.calm \in BOOLEAN /\ worker'.disk = worker.disk
      /\ worker'.doing = worker.doing /\ worker'.data = worker.data
  BY <1>1 DEF WorkerShape
<1>4. DiskTypes' /\ StoreType'
  BY <1>1, <1>2, <1>3 DEF DiskTypes, StoreType
<1>5. ChannelsSound' /\ EofSound'
  BY <1>1 DEF ChannelsSound, EofSound, AtEnd
<1>6. ChannelsPure'
  BY <1>2, <1>3 DEF ChannelsPure, Cleared, Changing
<1> QED
  BY <1>4, <1>5, <1>6

LEMMA MountReads ==
  ASSUME IInv, CInv, NEW disk \in Disks, NEW ascii \in BOOLEAN, Mount(disk, ascii)
  PROVE  CInv'
<1> USE DEF CInv
<1>1. UNCHANGED <<drive, gui, eof>>
  BY DEF Mount, Begins
<1>2. /\ worker'.doing = "mount" /\ worker'.disk = disk /\ worker'.step = 1 /\ Changing(worker')
      /\ worker'.doing # "store"
  BY DEF Mount, Waiting, Changing
<1>3. DiskTypes' /\ StoreType'
  BY <1>1, <1>2 DEF DiskTypes, StoreType, Drives
<1>4. ChannelsSound' /\ EofSound'
  BY <1>1 DEF ChannelsSound, EofSound, AtEnd
<1>5. ChannelsPure'
  BY <1>2 DEF ChannelsPure, Cleared, Changing
<1> QED
  BY <1>3, <1>4, <1>5

LEMMA GuiEndsReads ==
  ASSUME IInv, CInv, GuiEnds
  PROVE  CInv'
<1> USE DEF CInv, IInv, Shapes
<1>1. gui' = Idle /\ UNCHANGED <<drive, worker, eof, mixed>>
  BY DEF GuiEnds
<1>2. gui'.disk = 0 /\ gui'.doing = "idle" /\ Changing(gui) /\ gui.step >= 6 /\ ~Changing(gui')
  BY <1>1 DEF GuiEnds, Idle, Changing
<1>3. DiskTypes' /\ StoreType'
  BY <1>1, <1>2 DEF DiskTypes, StoreType, Drives
<1>4. ChannelsSound' /\ EofSound'
  BY <1>1 DEF ChannelsSound, EofSound, AtEnd
<1>5. Cleared' => Cleared
  BY <1>1, <1>2 DEF Cleared, Changing, GuiShape
<1>6. ChannelsPure'
  BY <1>1, <1>5 DEF ChannelsPure
<1> QED
  BY <1>3, <1>4, <1>6

LEMMA FolderFailsReads ==
  ASSUME IInv, CInv, FolderFails
  PROVE  CInv'
<1> USE DEF CInv, IInv, Shapes
<1>1. gui' = Idle /\ UNCHANGED <<drive, worker, eof, mixed>>
  BY DEF FolderFails
<1>2. gui'.disk = 0 /\ gui'.doing = "idle" /\ Changing(gui) /\ gui.step >= 6 /\ ~Changing(gui')
  BY <1>1 DEF FolderFails, Idle, Changing
<1>3. DiskTypes' /\ StoreType'
  BY <1>1, <1>2 DEF DiskTypes, StoreType, Drives
<1>4. ChannelsSound' /\ EofSound'
  BY <1>1 DEF ChannelsSound, EofSound, AtEnd
<1>5. Cleared' => Cleared
  BY <1>1, <1>2 DEF Cleared, Changing, GuiShape
<1>6. ChannelsPure'
  BY <1>1, <1>5 DEF ChannelsPure
<1> QED
  BY <1>3, <1>4, <1>6

LEMMA MountEndsReads ==
  ASSUME IInv, CInv, MountEnds
  PROVE  CInv'
<1> USE DEF CInv, IInv, Shapes
<1>1. /\ worker' = Waiting /\ eof' = NoEof /\ UNCHANGED <<gui, mixed>>
      /\ worker.doing = "mount" /\ worker.step = 6
  BY DEF MountEnds, Answer
<1>2. SameDisk(drive, drive') /\ drive'.channels = drive.channels
  <2>1. SameDisk(drive, drive)
    BY SameItself
  <2>2. Keeps(StatusPayload(drive), drive) /\ StatusPayload(drive).drive.channels = drive.channels
    BY <2>1, StatusPayloadKeeps, StatusPayloadKept
  <2>3. drive' = StatusPayload(drive).drive \/ drive' = drive
    BY DEF MountEnds, Answer, Raise, Ret
  <2> QED
    BY <2>1, <2>2, <2>3 DEF Keeps
<1>3. worker'.disk = 0 /\ worker'.doing = "idle" /\ ~Changing(worker') /\ Changing(worker)
  BY <1>1 DEF Waiting, Changing
<1>4. DiskTypes' /\ StoreType'
  BY <1>1, <1>2, <1>3 DEF DiskTypes, StoreType, Drives, SameDisk
<1>5. ChannelsSound' /\ EofSound'
  BY <1>1, <1>2, DosAssumption DEF ChannelsSound, EofSound, AtEnd, NoEof, NoChannel
<1>6. Cleared' => Cleared
  BY <1>1, <1>3 DEF Cleared, Changing
<1>7. ChannelsPure'
  BY <1>1, <1>2, <1>3, <1>6 DEF ChannelsPure, SameDisk
<1> QED
  BY <1>4, <1>5, <1>7

LEMMA StepReads == IInv /\ CInv /\ [Next]_vars => CInv'
<1> SUFFICES ASSUME IInv, CInv, [Next]_vars PROVE CInv'
  OBVIOUS
<1>1. CASE UNCHANGED <<drive, gui, worker, eof, mixed>>
  BY <1>1 DEF CInv, DiskTypes, StoreType, ChannelsSound, EofSound, AtEnd, ChannelsPure, Cleared, Changing
<1>2. UNCHANGED vars \/ GuiPolls => UNCHANGED <<drive, gui, worker, eof, mixed>>
  BY DEF vars, GuiPolls
<1>3. CASE Served
  BY <1>3, RequestsServe, RequestsRead, ReadsKeep DEF IInv
<1>4. CASE \E disk \in Disks : \E ascii \in BOOLEAN : Mount(disk, ascii)
  BY <1>4, MountReads
<1> QED
  BY <1>1, <1>2, <1>3, <1>4, GuiBeginsReads, GuiAssignsReads, GuiEndsReads, FolderFailsReads,
     MountAssignsReads, MountEndsReads DEF Next, Served

LEMMA ReadingInvariant == Spec => [](IInv /\ CInv)
<1>1. Init => IInv /\ CInv
  BY InitKeeps, InitReads
<1>2. (IInv /\ CInv) /\ [Next]_vars => (IInv /\ CInv)'
  BY StepKeeps, StepReads
<1> QED
  BY <1>1, <1>2, PTL DEF Spec

\* The READs of a channel, together with what is left, are the bytes it was
\* opened with, and END OF FILE to a READ that asked for a byte means that they were
\* all delivered: whatever is asked of the drive between the READs, whichever disk is put in, and though the
\* GUI thread may clear the channels between any two steps.
THEOREM ReadsDeliver == Spec => []ReadsWhole
<1>1. IInv /\ CInv => ReadsWhole
  <2> SUFFICES ASSUME CInv, NEW c \in Channels \ {15},
                      drive.channels[c].open, drive.channels[c].got # Broken
               PROVE  LET ch == drive.channels[c]
                      IN  /\ ch.got \o SubSeq(ch.data, ch.pos + 1, Len(ch.data)) = ch.data
                          /\ AtEnd(c) => ch.got = ch.data
    BY DEF ReadsWhole
  <2> DEFINE ch == drive.channels[c]
  <2>1. ch \in Channel /\ Delivered(ch) /\ (AtEnd(c) => ch.pos = Len(ch.data))
    BY DEF CInv, ChannelsSound, EofSound, AtEnd
  <2>2. ch.data \in Seq(Byte) /\ ch.pos \in 0 .. Len(ch.data) /\ Len(ch.data) \in Nat
    BY <2>1, LenProperties DEF Channel, Delivered
  <2>3. ch.got = SubSeq(ch.data, 1, ch.pos)
    BY <2>1 DEF Delivered
  <2> HIDE DEF ch
  <2>4. SubSeq(ch.data, 1, ch.pos) \o SubSeq(ch.data, ch.pos + 1, Len(ch.data)) = ch.data
    <3>1. 1 \in 1 .. Len(ch.data) + 1 /\ ch.pos \in 1 - 1 .. Len(ch.data)
          /\ Len(ch.data) \in ch.pos .. Len(ch.data)
      BY <2>2
    <3>2. SubSeq(ch.data, 1, ch.pos) \o SubSeq(ch.data, ch.pos + 1, Len(ch.data))
            = SubSeq(ch.data, 1, Len(ch.data))
      BY <2>2, <3>1, ConcatAdjacentSubSeq
    <3> QED
      BY <2>2, <3>2, SubSeqFull
  <2>5. AtEnd(c) => ch.got = ch.data
    BY <2>1, <2>2, <2>3, SubSeqFull
  <2> QED
    BY <2>3, <2>4, <2>5 DEF ch
<1> QED
  BY <1>1, ReadingInvariant, PTL

LEMMA PureOf ==
  ASSUME NEW disk, NEW bytes, Pure(bytes, disk), NEW k \in DOMAIN bytes
  PROVE  Of(disk, bytes[k])
<1>1. bytes[k] \in BytesOf({disk}, {disk})
  BY ElementOfSeq, LenProperties DEF Pure
<1> QED
  BY <1>1 DEF BytesOf, Of

\* After a change of disk that met none of the other thread, path, bytes and
\* directory are of one disk, and every channel whose OPEN met no change holds
\* bytes of that disk only: an OPEN fetches its bytes in one step and stores them
\* in the next, and mount clears the channels between.
THEOREM OneDisk == Spec => []OneDiskServed
<1>1. IInv => DiskIsOne
  BY DEF IInv, OneChange, DiskIsOne, Quiet, Changing
<1>2. IInv /\ CInv => ChannelsOfMounted
  <2> SUFFICES ASSUME CInv, Quiet, ~mixed, NEW c \in Channels, drive.channels[c].calm,
                      NEW k \in DOMAIN drive.channels[c].data
               PROVE  Of(drive.data, drive.channels[c].data[k])
    BY DEF ChannelsOfMounted
  <2>1. Cleared
    BY DEF Quiet, Cleared, Changing
  <2>2. Pure(drive.channels[c].data, drive.data)
    BY <2>1 DEF CInv, ChannelsPure
  <2> QED
    BY <2>2, PureOf
<1> QED
  BY <1>1, <1>2, ReadingInvariant, PTL DEF OneDiskServed
=============================================================================
