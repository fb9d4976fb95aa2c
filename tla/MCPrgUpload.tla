----------------------------- MODULE MCPrgUpload -----------------------------
(* Instances of PrgUpload for TLC. *)
EXTENDS PrgUpload

\* A PRG of three bytes; one whose sidecar has two segments.
Prg  == <<1, 8, 10, 171, 5>>
Two  == <<16, 0, 1, 2, 0, 4>>
Map  == BuildSegmentMap(Two, 19, 2)

C64Jobs == {C64Job(Prg, NoMap, FALSE, FALSE), C64Job(Two, Map, FALSE, TRUE), D64Job(Two, FALSE, FALSE),
            ProbeJob(<< <<16, 17>> >>, TRUE), TerminalJob(<<EndLoad>>)}

SbcJobs == {
  HexJob([parts |-> <<Part(18, <<1, 2>>), Part(16, <<173>>)>>, run |-> 18], "run", TRUE),
  EnterJob(<<202, 254>>, 17, TRUE, TRUE, FALSE), ReleaseJob, DemoJob(<<76>>, TRUE, TRUE),
  HexJob(BinaryPlan(<<9>>, 16), "release", FALSE)}

BothBoards == [jump \in BOOLEAN |-> IF jump THEN SbcJobs ELSE C64Jobs]

\* They are jobs as the tools build them.
ASSUME JobsAssumption == JobsFit
=============================================================================
