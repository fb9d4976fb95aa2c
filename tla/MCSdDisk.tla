----------------------------- MODULE MCSdDisk -------------------------------
(***************************************************************************)
(* Uses of the disk that fit into a run.                                   *)
(***************************************************************************)
EXTENDS SdDisk

Alone == [images |-> {0}, sectors |-> {0}, drive |-> {0}, fast |-> {}, asks |-> {},
          rejects |-> FALSE, timeouts |-> {}]

\* The drive alone, on two images, writes both halves of a block.
DriveUse == [Alone EXCEPT !.images = {0, 1}, !.sectors = {0, 1}, !.drive = {0, 1}]

\* Drive and window, each in a block of its own, on a card that refuses.
WindowUse == [Alone EXCEPT !.sectors = {0, 2}, !.fast = {2}, !.asks = {<<0, 0>>, <<1, 0>>},
                           !.rejects = TRUE]

\* Drive and window in one block, and transfers that the window gives up.
TimeoutUse == [Alone EXCEPT !.asks = {<<0, 0>>}, !.timeouts = {"window"}]

DriveOrWindow == {DriveUse, WindowUse}
TimeoutOnly   == {TimeoutUse}

\* Drive and window write the two halves of one block.
TwoHalves == {[Alone EXCEPT !.sectors = {0, 1}, !.fast = {1}, !.asks = {<<0, 1>>}]}

\* Mounts at any time: of a drive that reads, and of one that writes.
Remounts == {[Alone EXCEPT !.images = {0, 1}, !.sectors = {0, 1}, !.drive = {}],
             [Alone EXCEPT !.images = {0, 1}]}
=============================================================================
