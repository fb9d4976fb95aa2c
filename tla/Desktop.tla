------------------------------ MODULE Desktop -------------------------------
(***************************************************************************)
(* The two windows on the user's desk, and the serial port they share: the *)
(* virtual drive (V1541App) and the tools (ToolsLauncher).                 *)
(***************************************************************************)
EXTENDS V1541App, ToolsLauncher

deskVars == <<port, appVars, runVars>>

DeskInit == port = "none" /\ AppInit /\ RunInit

DeskNext == \/ AppNext /\ UNCHANGED runVars
            \/ RunNext /\ UNCHANGED appVars

DeskSpec == DeskInit /\ [][DeskNext]_deskVars

FairDeskSpec ==
  /\ DeskSpec
  /\ WF_deskVars(AppScheduled /\ UNCHANGED runVars)
  /\ WF_deskVars(LoaderMoves /\ UNCHANGED runVars)
  /\ WF_deskVars(LateEnds /\ UNCHANGED runVars)
  /\ WF_deskVars(RunScheduled /\ UNCHANGED appVars)

-----------------------------------------------------------------------------
LinkTypes ==
  /\ port \in {"none", "app", "hook"} \cup Jobs
  /\ worker \in BOOLEAN /\ thread \in {"none", "serving", "dead"} /\ late \in BOOLEAN

HookTypes ==
  /\ busy \in BOOLEAN /\ hook \in {"none", "running", "posted"}
  /\ child \in {"none", "starting", "sending", "ok", "failed"}

ShowTypes ==
  /\ window \in {"open", "polling", "closing", "closed"}
  /\ status \in {"DISCONNECTED", "CONNECTED", "SENDING HOOK",
                 "HOOK SENT - TYPE RUN", "HOOK UPLOAD FAILED"}
  /\ events \in Seq({"progress", "sector", "mounted", "hook_done"})
  /\ stream \in BOOLEAN /\ timer \in BOOLEAN

KeptTypes == disk \in Folder \cup {NoImage} /\ saved \in Folder \cup {NoImage}

RunTypes ==
  /\ job \in [Jobs -> {"new", "starting", "running", "unread", "adrift",
                   "ended", "failed", "over"}]
  /\ proc \in Jobs \cup {"none"} /\ stop \in BOOLEAN
  /\ shown \in {"Ready", "Running", "Done", "Stopped", "Error"}

DeskTypeOK == LinkTypes /\ HookTypes /\ ShowTypes /\ KeptTypes /\ RunTypes

\* Whoever has the port is there to give it back: the drive while its window
\* says it is connected, the loader and a tool while they run.
\* Code: stop() closes the port although its thread goes on, and destroy.
PortHasOwner ==
  /\ port = "app" <=> worker
  /\ port = "hook" => child = "sending"
  /\ \A j \in Jobs : port = j => Alive(j)

\* The drive never stands in the way of its own loader: it let go of the port,
\* and no button gets it back before the loader has ended.
\* Code: _send_hook disconnects and _set_hook_busy disables both buttons.
LoaderFindsPort ==
  hook = "running" => ~worker /\ (child = "starting" => port # "app")

\* The one serial port changes hands cleanly.
PortHandedOver == PortHasOwner /\ LoaderFindsPort

\* The display does not run on after the sectors stopped: while it shows a
\* stream, the timer that ends it is armed.
\* Code: _start_sector_stream, _arm_sector_idle, _stop_sector_stream.
StreamHasTimer == stream => timer

\* When no tool is left, the launcher neither says that one runs nor offers to
\* stop it, however the tools were started, stopped and failed.
\* Code: _run, _finish, _stop and the callbacks of a failed start.
LauncherSettles ==
  (\A j \in Jobs : job[j] \in {"new", "over"}) => ~stop /\ shown # "Running"

\* The buttons come back after every upload of the hook.
\* Code: _hook_upload_worker posts hook_done whatever happened.
ButtonsComeBack == busy ~> ~busy

\* "A process is already running -- stop it first."
OneTool == Cardinality({j \in Jobs : Alive(j)}) <= 1

\* A closed window left the disk that was in the drive in the settings.
ClosedIsSaved == window = "closed" => saved = disk

\* A drive that says it is connected answers requests.
ConnectedServes == status = "CONNECTED" => thread = "serving"
=============================================================================
