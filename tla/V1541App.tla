------------------------------ MODULE V1541App ------------------------------
(***************************************************************************)
(* The window of the virtual drive, App of                                 *)
(* tools/virtual_1541/c64_1541_uart_gui.py: connecting the serial worker   *)
(* to the port, sending the KERNAL hook with c64_uart_prg_loader.py over   *)
(* the same port, the queue of events from the threads, the display of a   *)
(* transfer, and the settings that survive the program.                    *)
(*                                                                         *)
(* A step of the GUI thread is one callback, or one event of a poll; the   *)
(* threads step between any two.  A port is had by one program at a time,  *)
(* as a COM port is.                                                       *)
(***************************************************************************)
EXTENDS SerialPort, Naturals, Sequences

CONSTANTS
  Folder,      \* the images of the folder
  NoImage,
  MaxEvents    \* bound: events of the serial worker waiting in the queue

ASSUME AppAssumption == NoImage \notin Folder /\ MaxEvents \in Nat

VARIABLES
  window,      \* the GUI thread: "open", "polling", "closing", "closed"
  worker,      \* self.worker is not None
  thread,      \* its thread: "none", "serving", "dead"
  late,        \* a stopped thread that outlived its join
  busy,        \* the buttons are disabled for the hook
  hook,        \* the hook's thread: "none", "running", "posted" its result
  child,       \* its loader: "none", "starting", "sending", "ok", "failed"
  status,      \* status_var
  events,      \* the queue of the threads' events
  stream,      \* sector_stream_active
  timer,       \* sector_idle_after is armed
  disk,        \* mounted_path
  saved        \* the settings file: mounted_image

link     == <<worker, thread, late>>
sending  == <<busy, hook, child>>
transfer == <<stream, timer>>
kept     == <<disk, saved>>
appVars  == <<window, link, sending, status, events, transfer, kept>>

AppInit ==
  /\ window = "open" /\ worker = FALSE /\ thread = "none" /\ late = FALSE
  /\ busy = FALSE /\ hook = "none" /\ child = "none"
  /\ status = "DISCONNECTED" /\ events = <<>>
  /\ stream = FALSE /\ timer = FALSE
  /\ saved \in Folder \cup {NoImage} /\ disk = saved

-----------------------------------------------------------------------------
(* Connecting: _toggle_connection, _connect_worker, SerialWorker.            *)

\* Opening the port fails while another program has it.
Connected(text) ==
  /\ port' = "app" /\ worker' = TRUE /\ thread' = "serving" /\ status' = text
  /\ saved' = disk
  /\ UNCHANGED late

Connect ==
  /\ window = "open" /\ ~worker /\ ~busy /\ port = "none"
  /\ Connected("CONNECTED")
  /\ UNCHANGED <<window, sending, events, transfer, disk>>

\* Mutant of StopWorker: the port stays open when the thread does not end.
StopWorker_Leaks ==
  /\ worker' = FALSE /\ thread' = "none"
  /\ \/ thread = "serving" /\ late' = TRUE /\ UNCHANGED port
     \/ UNCHANGED late /\ port' = "none"

\* SerialWorker.stop: the thread is given a second to end; then the port is
\* closed, whether or not it did.
StopWorker ==
  /\ worker' = FALSE /\ thread' = "none" /\ port' = "none"
  /\ late' \in {late, late \/ thread = "serving"}

\* _disconnect_worker.
Disconnected ==
  /\ StopWorker
  /\ stream' = FALSE /\ timer' = FALSE

Disconnect ==
  /\ window = "open" /\ worker /\ ~busy
  /\ Disconnected
  /\ status' = "DISCONNECTED" /\ saved' = disk
  /\ UNCHANGED <<window, sending, events, disk>>

\* A port that is unplugged, or a write that takes two seconds, raises in the
\* thread and ends it; nobody tells the window.
ThreadDies ==
  /\ thread = "serving" /\ thread' = "dead"
  /\ UNCHANGED <<port, window, worker, late, sending, status, events, transfer, kept>>

\* A stopped thread comes to its test of stop_event, or to the closed port.
LateEnds ==
  /\ late /\ late' = FALSE
  /\ UNCHANGED <<port, window, worker, thread, sending, status, events, transfer, kept>>

Serving == window # "closed" /\ (thread = "serving" \/ late)

\* A request that has its progress shown; "start" and "done" show as
\* "progress" does, with another text.
Progress ==
  /\ Serving /\ Len(events) < MaxEvents
  /\ \E phase \in {"progress", "sector"} : events' = Append(events, phase)
  /\ UNCHANGED <<port, window, link, sending, status, transfer, kept>>

\* A MOUNT of the C64.
RemoteMount ==
  /\ Serving /\ Len(events) < MaxEvents
  /\ disk' \in Folder /\ events' = Append(events, "mounted")
  /\ UNCHANGED <<port, window, link, sending, status, transfer, saved>>

-----------------------------------------------------------------------------
(* The hook: _send_hook, _hook_upload_worker, _hook_upload_done.             *)

SendHook ==
  /\ window = "open" /\ ~busy /\ hook = "none"
  /\ IF worker THEN Disconnected ELSE UNCHANGED <<port, link, transfer>>
  /\ busy' = TRUE /\ hook' = "running" /\ child' = "starting"
  /\ status' = "SENDING HOOK"
  /\ UNCHANGED <<window, events, kept>>

\* The drive is disconnected before the file is looked for.
SendNoHook ==
  /\ window = "open" /\ ~busy /\ hook = "none" /\ worker
  /\ Disconnected /\ status' = "DISCONNECTED"
  /\ UNCHANGED <<window, sending, events, kept>>

\* The loader opens the port, or fails because another program has it.
LoaderOpens ==
  /\ child = "starting"
  /\ IF port = "none" THEN port' = "hook" /\ child' = "sending"
                      ELSE child' = "failed" /\ UNCHANGED port
  /\ UNCHANGED <<window, link, busy, hook, status, events, transfer, kept>>

\* It ends, or after a minute subprocess.run ends it.
LoaderEnds ==
  /\ child = "sending" /\ port' = "none" /\ child' \in {"ok", "failed"}
  /\ UNCHANGED <<window, link, busy, hook, status, events, transfer, kept>>

\* Mutant of HookPosts: a loader that failed posts nothing.
HookPosts_OkOnly ==
  /\ hook = "running" /\ child \in {"ok", "failed"}
  /\ hook' = "posted"
  /\ events' = IF child = "ok" THEN Append(events, "hook_done") ELSE events
  /\ UNCHANGED <<port, window, link, busy, child, status, transfer, kept>>

HookPosts ==
  /\ hook = "running" /\ child \in {"ok", "failed"}
  /\ hook' = "posted" /\ events' = Append(events, "hook_done")
  /\ UNCHANGED <<port, window, link, busy, child, status, transfer, kept>>

\* A loader whose window was closed ends by itself.
OrphanEnds ==
  /\ hook = "none" /\ child \in {"ok", "failed"} /\ child' = "none"
  /\ UNCHANGED <<port, window, link, busy, hook, status, events, transfer, kept>>

\* _hook_upload_done: the drive is connected again after a good upload.
HookDone ==
  /\ busy' = FALSE /\ hook' = "none" /\ child' = "none"
  /\ IF child = "ok" /\ port = "none"
       THEN Connected("CONNECTED")
       ELSE /\ status' = IF child = "ok" THEN "HOOK SENT - TYPE RUN" ELSE "HOOK UPLOAD FAILED"
            /\ UNCHANGED <<port, link, saved>>
  /\ UNCHANGED <<transfer, disk>>

-----------------------------------------------------------------------------
(* _poll_events, and the display of a transfer.                              *)

PollBegins ==
  /\ window = "open" /\ events # <<>> /\ window' = "polling"
  /\ UNCHANGED <<port, link, sending, status, events, transfer, kept>>

PollEnds ==
  /\ window = "polling" /\ events = <<>> /\ window' = "open"
  /\ UNCHANGED <<port, link, sending, status, events, transfer, kept>>

\* Mutant of ShowSector: the next sector cancels the timer, and that is all.
ShowSector_Once == stream' = TRUE /\ timer' = ~stream

\* Sectors are a stream, until SECTOR_IDLE_MS have passed without one.
ShowSector == stream' = TRUE /\ timer' = TRUE

ShowPhase == stream' = FALSE /\ timer' = FALSE

\* _update_transfer_progress and _refresh_directory.
PollEvent ==
  /\ window = "polling" /\ events # <<>> /\ events' = Tail(events)
  /\ CASE Head(events) = "hook_done" -> HookDone
       [] Head(events) = "mounted"   -> UNCHANGED <<port, link, sending, status, transfer, kept>>
       [] Head(events) = "sector"    ->
            ShowSector /\ UNCHANGED <<port, link, sending, status, kept>>
       [] OTHER -> ShowPhase /\ UNCHANGED <<port, link, sending, status, kept>>
  /\ UNCHANGED window

\* _sector_stream_idle.
SectorIdle ==
  /\ window = "open" /\ timer
  /\ timer' = FALSE /\ stream' = FALSE
  /\ UNCHANGED <<port, window, link, sending, status, events, kept>>

-----------------------------------------------------------------------------
(* The settings: _mount_selected and _rescan, destroy, and a new start.      *)

\* _rescan takes the disk out.
ChangeDisk ==
  /\ window = "open"
  /\ disk' \in Folder \cup {NoImage} /\ saved' = disk'
  /\ UNCHANGED <<port, window, link, sending, status, events, transfer>>

\* destroy: the settings are saved before the worker is stopped, which goes on
\* serving until then.
CloseBegins ==
  /\ window = "open" /\ window' = "closing"
  /\ saved' = disk /\ stream' = FALSE /\ timer' = FALSE
  /\ UNCHANGED <<port, link, sending, status, events, disk>>

\* The daemon threads end with the program; a loader goes on.
CloseEnds ==
  /\ window = "closing" /\ window' = "closed"
  /\ worker' = FALSE /\ thread' = "none" /\ late' = FALSE
  /\ port' = IF worker THEN "none" ELSE port
  /\ hook' = "none" /\ busy' = FALSE /\ events' = <<>>
  /\ UNCHANGED <<child, status, transfer, kept>>

\* main and App.__init__; the user waits for a loader left behind.
Start ==
  /\ window = "closed" /\ child = "none"
  /\ window' = "open" /\ status' = "DISCONNECTED"
  /\ disk' = saved
  /\ UNCHANGED <<port, link, sending, events, stream, timer, saved>>

AppNext ==
  \/ Connect \/ Disconnect \/ ThreadDies \/ LateEnds \/ Progress \/ RemoteMount
  \/ SendHook \/ SendNoHook \/ LoaderOpens \/ LoaderEnds \/ HookPosts \/ OrphanEnds
  \/ PollBegins \/ PollEvent \/ PollEnds \/ SectorIdle
  \/ ChangeDisk \/ CloseBegins \/ CloseEnds \/ Start

\* The event loop runs, the loader and the threads end: the loader has a
\* timeout of a minute, a stopped thread a closed port.
AppScheduled == PollBegins \/ PollEvent \/ PollEnds \/ SectorIdle \/ CloseEnds
LoaderMoves  == LoaderOpens \/ LoaderEnds \/ HookPosts \/ OrphanEnds
=============================================================================
