--------------------------- MODULE ToolsLauncher ----------------------------
(***************************************************************************)
(* The process runner of tools/fpga_tools_gui.py: _run starts a thread     *)
(* that starts a tool and shows what it prints, _stop ends the tool, and   *)
(* every button of the window comes to one of the two.  The tool becomes   *)
(* known as _proc only in its thread, and its end reaches the window as a  *)
(* callback of its own.                                                    *)
(***************************************************************************)
EXTENDS SerialPort, Naturals, FiniteSets

CONSTANT Jobs     \* bound: the tools the user starts

VARIABLES
  job,      \* each tool: "new", "starting", "running", "ended", "over"; "unread",
            \* "failed": its thread raised, while the process runs or without
            \* one; "adrift": it runs although its error was shown
  proc,     \* _proc: a job, or "none"
  stop,     \* the Stop button is enabled
  shown     \* the status line

runVars == <<job, proc, stop, shown>>

ASSUME JobsAssumption == Jobs \cap {"none", "app", "hook"} = {}

RunInit ==
  /\ job = [j \in Jobs |-> "new"] /\ proc = "none"
  /\ stop = FALSE /\ shown = "Ready"

\* The process runs: poll() is None.
Alive(j) == job[j] \in {"running", "unread", "adrift"}

\* "A process is already running -- stop it first."
Busy == proc # "none" /\ Alive(proc)

\* _run, for each of the handlers that call it.
Run(j) ==
  /\ job[j] = "new" /\ ~Busy
  /\ job' = [job EXCEPT ![j] = "starting"]
  /\ shown' = "Running" /\ stop' = TRUE
  /\ UNCHANGED <<port, proc>>

\* Popen.
Popen(j) ==
  /\ job[j] = "starting"
  /\ job' = [job EXCEPT ![j] = "running"] /\ proc' = j
  /\ UNCHANGED <<port, stop, shown>>

PopenFails(j) ==
  /\ job[j] = "starting"
  /\ job' = [job EXCEPT ![j] = "failed"]
  /\ UNCHANGED <<port, proc, stop, shown>>

\* What the tool prints cannot be read, as text it is not: the same except,
\* with the process running or over.
ReadFails(j) ==
  /\ \/ job[j] = "running" /\ job' = [job EXCEPT ![j] = "unread"]
     \/ job[j] = "ended"   /\ job' = [job EXCEPT ![j] = "failed"]
  /\ UNCHANGED <<port, proc, stop, shown>>

\* A tool that uploads; it ends at once when another program has the port.
OpensPort(j) ==
  /\ Alive(j) /\ port = "none"
  /\ port' = j
  /\ UNCHANGED runVars

\* The process ends, and gives back its port.
Over(j) ==
  /\ job' = [job EXCEPT ![j] = CASE @ = "running" -> "ended" [] @ = "unread" -> "failed"
                                 [] OTHER -> "over"]
  /\ port' = IF port = j THEN "none" ELSE port

\* The tool ends by itself or by terminate, or cannot go on.
Ends(j) ==
  /\ Alive(j) /\ Over(j)
  /\ UNCHANGED <<proc, stop, shown>>

\* _finish.
Finish(j) ==
  /\ job[j] = "ended"
  /\ job' = [job EXCEPT ![j] = "over"]
  /\ shown' = "Done" /\ stop' = FALSE
  /\ UNCHANGED <<port, proc>>

\* Mutant of ShowError: the three callbacks as one, which the first would end.
ShowError_AsOne(j) ==
  /\ job[j] \in {"failed", "unread"}
  /\ job' = [job EXCEPT ![j] = IF @ = "unread" THEN "adrift" ELSE "over"]
  /\ UNCHANGED <<port, proc, stop, shown>>

\* Three callbacks.  The first, the message, fails itself: exc is unbound by
\* the time it runs.  The other two do what they are for.
ShowError(j) ==
  /\ job[j] \in {"failed", "unread"}
  /\ job' = [job EXCEPT ![j] = IF @ = "unread" THEN "adrift" ELSE "over"]
  /\ shown' = "Error" /\ stop' = FALSE
  /\ UNCHANGED <<port, proc>>

\* _stop.
Stop ==
  /\ stop
  /\ stop' = FALSE
  /\ IF Busy
       THEN shown' = "Stopped" /\ Over(proc)
       ELSE UNCHANGED <<shown, job, port>>
  /\ UNCHANGED proc

RunNext ==
  \/ Stop
  \/ \E j \in Jobs : \/ Run(j) \/ Popen(j) \/ PopenFails(j) \/ ReadFails(j)
                     \/ OpensPort(j) \/ Ends(j) \/ Finish(j) \/ ShowError(j)

\* The threads run and the event loop handles their callbacks.
RunScheduled ==
  \E j \in Jobs : Popen(j) \/ PopenFails(j) \/ Finish(j) \/ ShowError(j)
=============================================================================
