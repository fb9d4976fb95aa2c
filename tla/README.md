# A formal model of the 6502 SBC

TLA+ modules for the control logic of this repository: the FPGA core that lets
a 6502, a video controller and a serial monitor share their memories, the disk
hardware, and the programs on the PC that feed both. TLC checks the modules on
small instances, TLAPS proves what matters most for every instance.

    tlc -config VramSteal.cfg MCVramSteal             # one run
    tlapm VramStealProofs.tla                         # the proofs of one module

The modules cite source files from the repository's root; `PROJECT.json` maps
every definition to its lines, lists the runs, and gives for every property a
mutation of the code that breaks it.

## 1. The system and its parts

The board builds one machine: a T65 (65C02) on a single clock `clk` with an
enable that divides it by two, memories behind an address decoder, and devices.
Everything in the core is a clocked process; the processes interact through
signals, that is, every process reads what the others held before the edge.
Around the board stand programs on a PC: a virtual disk drive, uploaders, and
tools that make disks, cards and ROMs.

| Part | State | Operations | Talks to | What is hard | What makes it correct |
|---|---|---|---|---|---|
| Text VRAM port, `sbc_t65_boot_monitor_top.vhd` 407-683, `sync_ram.vhd` | RAM, output register, one deferred write | CPU read and write, VIC line fetch, monitor read and write, commit | T65 by RDY, VIC by `vic_stealing`, monitor by hold | the T65 ignores RDY in writes; a steal may begin in any clock; RAM has one clock of latency | stores happen once, in order, but for one that is dropped on its way; readers read the last store |
| Byte ports, same file 409-428, 570-651, 911-999 | write latch, busy, complete, who is served | capture, drain, read, monitor access, acknowledge, release | T65 by stall, backend by request and acknowledge, monitor FSM | unbounded latency; a completion outlives its requester; resets and holds in flight | the port is a memory with atomic accesses; no request is lost |
| Monitor jump, same file 386-405, 705-724, 861-881 | jump vector, reset counter, override flag | G command, pulse, override, end | monitor, T65 reset sequence, data mux | stalls between the reads of the vector; resets and sessions in between | the CPU starts where asked; no program reads the override |
| UART debug monitor, `uart_debug_monitor.vhd` | command line, state of the memory transfer | dump, write, fill, load, go | core by hold and memory requests; host by UART | host streams without waiting for answers | a load writes what the file says or says that it failed |
| C64 DDR board's SD disk, `c1541_sd_d64_sector_source.vhd`, `tang20k_c64_ddr_top.vhd` (fastload window, arbiter) | sector buffer, write buffer, target; window FSM and half block; who owns the card | fetch a sector, flush a burst (read-modify-write of a block), mount; window read and write | GCR engine, C64 registers, one SD card by an arbiter | two clients and one block of two sectors; a mount or a timeout during a transfer | sectors read are the card's, writes land, halves do not disturb each other |
| Virtual 1541, sectors: `c1541_v1541_uart_sector_source.vhd`, `c64_1541_uart_gui.py` | FPGA request and frame parser, sector buffer; PC input buffer, mounted image | fetch, answer, watchdog; mount | FPGA and PC over a serial line; GUI thread and serial thread on the PC | lost and late bytes, frames without a sector number | what is shown as valid is one sector of one image |
| Virtual 1541, LOAD: `c64_v1541_kernal_hook.s`, `D64Drive` in the same program | hook's parser, pointer and offset; channels, directory | LOAD: open, read, close; mount | C64, its receive FIFO and the PC | stale answers, resynchronisation, two threads without a lock | a LOAD without error delivered one whole file |
| Virtual 1541, DOS: `D64Drive`, `Protocol` | image, path, bytes, directory; sixteen channels; status line | open, read, close, command channel, block commands, mount, folder; in binary frames and ASCII lines | serial thread and GUI thread | both threads assign the same fields, one by one | channels deliver each byte once; what is served is one disk |
| The drive's window and the tools' launcher, `c64_1541_uart_gui.py` `App`, `fpga_tools_gui.py` | threads, timers, event queue, settings; the running tool | connect, send the hook, close; run and stop a tool | one serial port, threads, child processes | callbacks between any two steps of a thread; late events; a start that overtakes an end | the port has one owner; the windows say what is so |
| Uploaders, `c64_prg_upload_monitor.vhd`, `c64_uart_prg_loader.py`, `upload_monitor_hex.py` and relatives | FSM, load address; host's position in the file | wake, send, acknowledge, verify, run | serial line | wake-up retries, lost bytes, errors in mid-stream, killed tools | a success report means the bytes are in memory |
| D64 and card builders, `tools/d64/`, and the readers in `fat32_reader.vhd`, `c64_sd_*.s`, `c64_sd_hook_boot_loader.vhd` | images, FATs, directories, sector maps | build, pack, list, extract; format a card, put files, put the hook in front | files from tool to tool, the C64's menu and the FPGA's readers | every reader has a layout of its own in mind | what was put in is what each reader finds, or the tool refuses |
| SID and ROM tools, `build_native_sid_rom.py`, `build_sid_prg.py`, `build_sid_disks.py`, `make_sd_boot_image.py`, `bin_to_basic_loader_checksums.py`, `patch_c64_kernal_load_vector.py` | layout plans, emitted 6502 and BASIC code | wrap a tune, fill disks, boot card, loader listing, patch | C64 and SBC memory, SD ROM loader | overlapping regions, copy order, page and window boundaries, files reread by other tools | the emitted code, run, puts the program where it belongs |
| Byte bridges, `bram_byte_bridge.vhd`, `ddr3_byte_bridge.vhd` | request toggles, operation and mode FSM | byte read, byte write, clear, self-test | byte ports; DDR3 controller in another clock domain | clock domain crossing, loss of calibration | one answer per request |
| DDR3 framebuffer, `vic_fb_ddr3.vhd`, `vic_blit.vhd` | line buffers, dirty burst, blitter queue | CPU pixel, line fetch, flush, blit | byte port, DDR3 controller | write combining against reads; watchdog | a pixel written is the pixel read and shown |
| SDRAM interface, `sdram_if.vhd`, `sdram_ctrl.vhd` | write FIFO, refresh timers | read, write, refresh | older core | FIFO limits, read after write | implements a byte memory |
| D64 drive of the SBC, `d64_*.vhd`, `sd_disk_ctrl.vhd`; `sd_rom_loader.v` | command FSM, sector buffer, directory walk | open, read sector, DMA; fill a ROM | SD card, CPU registers | error paths, chain ends, retries | the sector asked for, or an error |
| Devices: `via6522.vhd`, `uart6551.vhd`, `cia6526.vhd`, keyboards | counters, flags, FIFOs | register accesses, ticks | CPU, IRQ | read side effects against ticks | no interrupt lost or doubled |
| Arithmetic: `rtl/reist/`, `math_copro.vhd` | shift registers | start, step | CPU registers | widths, signs, zero divisor | the result is the quotient |
| C64 core, `rtl/c64/` | a second machine | | | raster timing | |
| System16, `boards/tang_mega_138k/system16/` | a RISC-V experiment, asynchronous FIFO | | | Gray pointers | FIFO order |
| Firmware, `sw/6502/`, `asm/` | programs | | | | |
| Video and sound output, board tops, vendored IP | data paths, wiring | | | | |

`PROJECT.json` has the same list with what each module covers, and the
`hazards`: the places where this code is hard to test, each with the properties
that watch over it.

## 2. How the modules are built

**Hardware.** One step is one rising edge of `clk`. `Next` is the conjunction of
one action per clocked process, and each action is a disjunction of what its
process may do; a process reads the values before the edge and writes the primed
ones, so the concurrency of the VHDL is the conjunction and needs no
interleaving. The order of assignments in a process (a later one wins) is kept:
the monitor's branch, the default at the top, the clear at the end.
Combinational signals (`cpu_rdy`, `sram_stall`, `valid`) are operators with the
code's names. Nondeterminism stands for what the environment does: the VIC's
schedule, the reset key, what the program accesses next, when a memory or a card
answers.

**Serial lines, threads and processes** interleave: a hook that reads one part of
a frame, one pass of `_consume`, one assignment of the GUI thread, one callback
of a window, one character that a process sends.

**Tools that turn files into files** are operators, and an action is the run of a
tool. What they promise is checked by the reader at the other end: another tool,
a ROM loader, a BASIC interpreter or a 6502 that executes what was emitted, each
modelled from its own source and not from the tool.

A definition named `X_Reason` next to `X` is the same definition with a
plausible bug in it. It is used to show that a property depends on `X`: with
`X_Reason` in its place the property fails.

## 3. Modules, code and state

### The core

**ByteMemory** is the abstract specification of every byte-wide memory: an
atomic memory and the last access that each of two clients (`cpu`, `mon`)
finished.

**VramSteal** is the text VRAM. `cpu`, `vic`, `mon` are the requests of the
three masters; `latch` is `vram_wr_pending/_addr/_data` in one variable;
`vram`, `vram_dout` are the sync RAM and its output register. Processes:
`CpuClock` (the T65's bus cycle ends, waits, or is reset), `VicClock` (a steal
starts, lasts, ends), `LatchClock` (a write is captured, committed or dropped),
`VramClock` (the RAM), `MonClock` and `HoldLine` (the monitor). `intent` is
history: the VRAM as program and monitor stored it, in order. `lost` is history too: the
cells whose last store was still parked when hold or reset met a line fetch and
cleared the latch; the next store to the cell takes it out again.

**MonitorJump** is `G aaaa`: the jump register, the pulse of 16 clocks, the
vector override, and the seven cycles of the T65's reset sequence.

**BytePort** is `sram_acc_ctrl` (`Framebuffer = FALSE`) and its twin
`fbw_acc_ctrl` (`TRUE`): the write latch with its drain priority, the read path,
the monitor's accesses, and a backend which answers a request at any time.
`LatchClock` captures and drains writes, `PortClock` issues drains, reads and
monitor accesses and waits for the answer, `BackendClock` is the memory behind.
The refinement maps the backend's memory with the CPU's and monitor's last accesses to
`ByteMemory`.

### Disks in hardware

**SdDisk** is the SD disk of the C64 DDR board: the drive's sector source (read,
read-modify-write of the half block, mount, disk ID from T18/S0), the fastload
window of the C64, the arbiter, and the controller's request and data
handshake. A block of the card is two sectors; a datum says which place it was
meant for and which write it belongs to. `Uses` says what the programs of a
behaviour do: which images and sectors there are, who writes what, who may time out.

**SectorSource** is the other sector source, whose disk is a PC on a serial
line: its transmitter and its frame parser, the two directions of the line,
the PC's input buffer with its resynchronisation, `CMD_SECTOR`, and the image
the GUI thread mounts and ejects.

### The virtual drive

**Drive1541** is `LOAD` through the KERNAL hook: OPEN, READ of 128 bytes after
READ of 128 bytes, CLOSE; the parser with its 16 bytes of resynchronisation, the
256-byte FIFO, `open_channel`, `read_channel`, `close_channel`, and the GUI
thread's `mount` and `set_folder`, one assignment per step. Sizes are counted in
bytes, as in the code.

**DosChannels** is `D64Drive` and `Protocol` whole: a method is an operator from a
drive to a drive, an exception and a body; the serial thread's requests
(`Open`, `Read`, `Write`, `Close`, `BlockRead`, `Pointer`, `Mount`, the
directory and the status line, in both protocols) and the GUI thread's change of
image or folder. What both threads assign goes assignment by assignment
(`worker`, `gui` hold the step each has reached); OPEN and B-R fetch in one step
and store in the next. A change of folder may end in the exception that `_rescan` catches.

**SerialPort**, **V1541App**, **ToolsLauncher** and **Desktop** are the two
windows. `V1541App` has the connection, its serial thread, the hook's loader, the
queue of events between thread and GUI, the timer that ends the display of a stream,
the settings. `ToolsLauncher` has, per tool, a thread, a process and the callbacks: the
thread may raise with a process, without one, or after it has ended.
`Desktop` composes them over `port`, which one program has at a time.

### Uploads

**PrgParts** cuts a program into the parts that are sent: whole, in segments
around the code that runs, as a split ROM, as hex lines; it has the plans of six
tools and of the segment map's builder. **PrgUpload** sends them: the tools'
processes with their wake-ups, retries, echoes and ends, and the board's monitor,
with the wake-sequence matcher of the board top, the line parser and the load mode,
for the C64 board and for the SBC. The line loses characters; a process may be
killed at any character, and the next one meets the monitor where it was left.
The monitor is eight variables (`st` to `ret`) and an action per kind of character
(`Match`, `Letter`, `Digit`, `Skip`, `OpenLoad`, `DumpRange`, `LetGo`, `Nibble`,
`CloseLoad`, `Reject`, `Deaf`), of which `Take` takes the one that fits; the process is `at`
a step, with the part, the line, the attempt and what it has heard (`rx`).

### Images, cards, tunes and ROMs

**D64Image** has the geometry, the image builder, the lister and the extractor.
**FatCard** has the FAT16, FAT32 and raw cards and the four readers of them.
**DiskPipeline** joins them: programs onto an image, images onto a card, the hook in
front of the partition. **SidWrap** has the layout of a tune as a program in RAM
and as a ROM, with the emitted code executed up to the tune's first note: what the CPU then
sees at the tune's addresses (`RomBanks` are those where it reads a ROM), the song given to `init`, the play
routine called.
**RomTools** has the boot card with the loader that reads it, the checksummed BASIC
loader with the BASIC program executed, and the KERNAL patch with the patched LOAD
executed. **PcTools** lets one job of these tools run.

The `MC` modules give the constants their values. `*Proofs` hold the theorems.

## 4. Runs

| Run | Instance | States | Shows |
|---|---|---|---|
| `vram` | 2 cells, 2 bytes, steals of 1-3 clocks, gaps of 3 | 86,469 | the deferred write keeps the VRAM in program order, but for the cells whose parked write hold or reset dropped (section 7), and its one-deep latch is never overrun; CPU and monitor read what was stored last; parked writes and reads are served |
| `jump` | 2 halves of an address, pulse of 16 clocks | 5,892 | no program reads the override, plain resets are plain, the low byte arrives, a jump restarts the T65 |
| `jump_lands` | the same | violation | the high byte does not arrive (section 7) |
| `port` | 2 cells, 2 bytes | 263,864 | the port implements `ByteMemory`; no write of CPU or monitor is lost; accesses end |
| `sd` | a drive with 2 images that writes both halves of a block, or a drive and a window that each write a block on a card that may refuse; 1 beat per half, 1 write per sector, mounts at rest | 552,743 | what the head gets is the mounted disk's, writes land whole, the other half of the block is untouched, the drive has one request at a time |
| `sd_live` | 1 image, 1 sector, the window may give up | 14,802 | nothing is starved by the arbiter, and the window takes no transfer for its own that is not, nor the tail of one it gave up |
| `source` | 2 sectors of 2 tokens, 1 fault, 2 mounts, zone crossings | 565,196 | what `valid` shows is one whole sector, and fresh if the PC is punctual; legal fetches end |
| `load` | files of 130 and 128 bytes, 5 LOADs, 1 change of disk, 2 faults | 1,053,485 | a LOAD that succeeds is whole, one that fails has a cause, each LOAD ends, also when the FIFO overflows; it does so neither in the first four LOADs nor before one has failed |
| `upload` | both boards, 2 runs in a row, 1 lost character, 1 kill, 2 wake-ups, 2 bytes per line | 841,291 | an upload reported complete is in memory and writes nothing else, a failure has a cause, every process ends |
| `dos` | 3 disks in 2 folders, 3 channels, 4 requests, 1 change in the window, which may fail at the new folder | 2,783,668 | a channel delivers its bytes once and in order, and END OF FILE to a READ of at least one byte means all of them; path, bytes, directory and channels are of one disk; the window shows it, or an empty drive's last one after a folder that cannot be listed |
| `desktop` | 1 image, 1 queued event, 2 tools | 476,256 | the port has one owner; display and launcher come to rest as they should, also if a tool's output cannot be read; the buttons come back |
| `tools` | disks of 13 sectors, cards of 60 blocks, 256 cells of memory, ROMs of real size | 57,599 | what a tool wrote, its reader finds: 8 properties, one for each promise; a program plays the tune it was made of exactly if the tune is `Playable` |

Why these bounds are enough. Two cells and two bytes tell a wrong address from
a wrong datum, and the port hazards need two accesses in flight and a third
to notice. A steal of three clocks meets both phases of the clock enable, at its
beginning and at its end; a real one lasts a whole line fetch, which only repeats
the middle. The jump's pulse has the code's length. In `SdDisk` a beat is a run
of bytes: the code treats all beats of a half alike, except those of the disk
ID. A second write of a sector would need `MaxVersion = 2`; the write buffer
holds one burst and the engine stands still while it is flushed. In
`SectorSource` the second data token is what a shifted frame needs, the second
mount what a stale answer needs; two faults and two mounts were checked once
(1.55 million states). In `Drive1541` 128 is the length that ends with an empty block,
130 the length that ends with a short one, a later LOAD meets what failed
ones left. With one change of the disk and two faults the fifth LOAD is the first in which
the receive FIFO loses a byte, so that the run's other properties are checked through an
overflow. Checked once for four LOADs, without one: one change and three faults, two
and two, and three changes of one disk and one fault. With one change and one fault it
takes twelve LOADs; ten without any change of the disk do not fill it. In `PrgUpload` the
second run is what a monitor left in load mode or in the middle of a line needs, the second
wake-up what a lost one needs. In
`DosChannels` four requests open a channel, read it, meet a change and read
again; sectors of two bytes have a full last sector and one half full, and the
disks have chains that end, that loop and that leave the disk. On the desk two
tools are what a start needs that overtakes an end. The disks and cards are small
enough to be full, to have more than one directory sector, and to have a cluster
chain that goes past a FAT block; the geometry of the real disk (683 blocks) is an
`ASSUME` that TLC evaluates. The tunes lie at each side of each boundary of the
memory map.

The instances of `load`, `upload`, `dos` and `tools` stop when their bound is reached,
so deadlock is checked in the others only; `LoadEnds` and `RunEnds` say that what was begun
ends.

Assumptions named in the modules. `MountsAtRest` (SdDisk): programs mount only
while the drive neither moves a sector nor is in a write burst, and poll the busy bit.
`ChecksumDetects`, `NoLookAlikes` (SectorSource): a damaged frame fails its
checksum, no byte inside a frame looks like its first. `Punctual`: in
`AnswerIsFresh`, no watchdog has expired before an answer and no reset has cut a
fetch short. `Drive1541` assumes no look-alikes either, that a part of a frame in
the wrong place fails its test, and that the line damages requests or checksums only;
a timeout of the hook, about fifteen seconds, needs a line that has fallen silent. `GoOutlastsPulse`
(MonitorJump), `BannerOutlastsPort` (BytePort): the monitor, which sends text at
115200 baud before it lets go, is slower than the clocks it waits for.
`PrgUpload`: a wait of the PC (20 ms and longer) ends when the line is quiet, not inside a
message of at most 1.4 ms. `ExecFromVram = FALSE` (VramSteal): a program in the VRAM
could fetch an opcode there right after a store, which the port does not order.

## 5. Fairness

The hardware modules assume that the clock ticks (`WF`), which an oscillator
justifies; in `MonitorJump` and `BytePort` the ticks in which nobody holds the reset
key down or enters the monitor anew, since a user who never lets go is owed nothing. Beyond it:
`MonitorJump` has `SF` on a tick in which the T65 advances, since RDY goes up
in every gap between two line fetches; `BytePort` has `WF` on the backend's
answer, `SdDisk` `WF` on the card's, and their liveness is conditional on them.
TLC checks `port` under `MCFairSpec` of `MCBytePort`, which replaces the
`ENABLED` of the two conditions by states in which the step is enabled
(`MCEnabled`, checked once): it is the weaker assumption, so the result is the stronger.
`VramSteal` needs nothing else: `MaxSteal` bounds the steal. `SectorSource` has
`WF` on the FPGA and on the PC's serial thread, `Drive1541` on hook, FIFO, serial thread and the GUI thread's begun changes
together: as long as one of them can move, one does, whichever it is. `PrgUpload` has it on the
PC's process and on the board. `Desktop` has `WF` on what Tk's event loop and the
operating system's scheduler run by themselves: polls, timers, threads, a loader and a tool that end.
No fairness on anything a user or a fault does.

## 6. Proofs

`tlapm` proves, for every value of the constants that satisfies the modules' `ASSUME`s:

- **VramStealProofs**: `TypeCorrect`, `Coherence`, `LatchSafety`, `ReadSafety`.
  `Coherent` (VRAM with the parked write applied = what was stored) is not
  inductive: a write strobe must find the latch empty, which depends on which
  clock of its bus cycle the CPU is in, which RDY decides. `IInv` adds: while the
  monitor works the CPU is quiet and nothing is parked (`MonitorAlone`), the T65
  in reset drives no VRAM cycle (`ResetQuiet`), a parked write belongs to the write
  cycle that is ending or to the one before the read RDY holds up (`LatchOwner`),
  and the output register holds the byte read once no steal is in the way
  (`ReadArrived`, `MonReadArrived`). What was stored is never rewritten; both theorems
  except the cells in `lost`, and a lemma per step says how a cell gets into and out of it
  (`MissingStep`). `ReadSafety` (`EveryReadCurrent`) has the hypothesis `~ExecFromVram`.
- **MonitorProofs**, the jump: `JumpTypeCorrect`, `OverrideNeverLingers`,
  `PlainRestartIsPlain`, `LowByteArrives`, together `EveryRestartRight`. The
  invariant `JumpInv` follows the jump along its phases: the pulse comes with its override
  and a CPU in reset stands at the start of its sequence (`PulseResets`), the
  override is up only until the first clock of the cycle that reads the high byte
  (`OverrideEnds`), the address in force is that of the jump under way
  (`JumpUnderWay`), and the low byte read is the jump's or, without a jump, the
  ROM's (`LowRead`).
- **MonitorProofs**, the uploads: `UploadTypeCorrect`, `UploadFailureHasCause`,
  `UploadImageArrives`, for any jobs, board, line length and number of attempts, runs,
  kills and lost characters. `ImageArrives` speaks of the end of a run, so the invariant
  says what each step leaves for the next. The line holds the rest of what the process has
  sent (`Sending`), so the number of characters gone says where the text is, and each part
  of the invariant compares that number with the monitor: it has read them all
  if nothing was lost (`Clean`, `Finish`), it has read those of the data if none of them was
  lost (`Faith`: address and nibble follow from the number, and every byte before
  is in memory unless a later part is over it), and it is never ahead of them whatever
  was lost, nor in load mode at an address that is not of the image (`Stray`; that covers
  what a killed run has left on the line). For `FailureHasCause`, `Waking`
  books each attempt against a lost character or against a matcher found half way (`Credit`),
  and `Shape` says that no message is cut. `UploadImageArrives` has the hypothesis `JobsFit`: no part
  runs past $FFFF, which the C64 loader checks and the SBC's tools leave to their user, and the
  last lines are those the tools send; `MCPrgUpload` states it of the runs' jobs as
  an `ASSUME`. The attempt corrected two properties, which only larger bounds refute:
  a tool that does not wait for the load prompt puts a byte outside the image when three characters of
  its `L` are lost (the CR and two digits: data end the address), and
  a wake sequence lost whole but for its CR carries out what a killed run had
  typed, after which the C64 loader hears no banner.
- **BytePortProofs**: `TypeCorrect`, `LatchSafety`, `NoRequestLost`,
  `MonitorWrites`, `WritesKept`, `Refinement` (`Spec => Memory!Spec`, for both
  ports). The invariant says who is served and where his request is: `InFlight`,
  `Performed`, `ServesWhileBusy`, `ServesWhileDone`, and that the clients keep still
  (`MonitorAlone`, `MonitorShown`, `LatchOwner`, `ResetQuiet`, `LatchFree`,
  `MonWriteDone`). The refinement has one lemma per way a client can finish an access.
- **SdDiskProofs**: `OneAtATime`. If the drive does not time out and programs mount
  at rest, the drive has one request at the arbiter at most, whatever the window
  does and whenever the card answers. The invariant `IInv` says that a
  request is in one place (`OnePlace`: a pulse to the arbiter, latched there, or a transfer), that a
  source at rest has none (`RestIsRest`) and that a mount meets that rest
  (`MountMeetsRest`). On it rests `DInv` and four theorems about the data:
  `MountedDisk` (`MountedDiskServed`), `FlushesLand` (`WritesLand`), `OtherHalfNew`
  (`OtherHalfPreserved`) and `WindowTellsTruth` (`FastWindowAgrees`). Each party
  counts the bytes of a transfer by itself, so `DInv` says that the counts agree
  (`DriveCounts`, `WindowCounts`, `CardCounts`), what each buffer has gathered by then
  (`DriveBuffers`, `WindowBuffers`, `Given`), and that the card holds the last version
  of each sector of the drive, or the burst with it is still to be flushed (`Landed`).
  Hypotheses: no transfer is given up while it runs (`Patient`), mounts at rest, images
  that share no block (`ImagesApart`), drive and window that write no block in
  common (`SidesApart`): a block is read and written back in two grants, and neither
  side learns of the other's. The run `sd` satisfies all four.
- **V1541Proofs**, the sectors: `TypeCorrect`, `NeverTorn`, `NeverStale`. The drive only ever
  reads whole sectors of one image (`WholeSector`), with any loss and damage on the line
  and with any answer late. The buffer alone cannot show it: the invariant says what
  the parser's running sum has covered (`Parsed`), that each checksum on the line is of
  its frame (`Sums` in `LineTypes`), and what is in the buffer when a frame is accepted
  (`Served`). That the checksum catches damage is the assumption, not the result.
  `NeverStale` (`AnswerIsFresh`) is about frames that do not name their sector: while
  the PC is punctual, the sector is the one asked for, of an image no older than the
  request. Its invariant `FInv` says that of all the tokens in the line, in the PC and in
  the parser one begin of a frame at most may still become an answer (`OneCall`), that
  the PC reads no further than a frame's end (`ReadExactly`), that the checksum of a
  request is of this fetch and ends the request (`Asks`, `AsksEnd`), and that a good
  answer is to this fetch and the last thing under way (`Answers`).
- **DosProofs**: `WindowFollows`, `DiskStaysOne`, `ReadsDeliver`, `OneDisk`. Two threads
  change path, bytes and directory without a lock; when both rest, the window shows the
  disk in the drive even if they met, and without a meeting the three are of one disk.
  A folder that cannot be listed leaves the window as it was, and an empty drive.
  The invariant `IInv` says how far a change has come (`OneChange`), who owes the window
  an event (`WindowSettled`), and that a change of the window which no mount met goes its
  way (`GuiUndisturbed`), so that a folder that fails does leave the drive empty; lemmas say that no method but a change assigns those
  fields (`SameDisk`). `ReadsDeliver` (`ReadsWhole`) and `OneDisk` (`OneDiskServed`) need `CInv`
  besides: what a channel delivered is what lies before its position
  (`ChannelsSound`), an END OF FILE was earned unless the READ asked for nothing (`EofSound`), and outside the
  steps between a change's first assignment and its clearing of the channels they
  hold bytes of one disk, as do the bytes an OPEN has fetched and not yet stored
  (`ChannelsPure`). That a file's chain yields bytes of its disk is an induction over
  the sectors not yet visited. The library's induction theorems cannot be used (they
  take an operator), so `RankInduction` and `RecursionExists` are proved for sets
  and functions, and `Chain` is shown to have the value its definition claims.
- **V1541Proofs**, the windows: `DeskTypeCorrect`, `PortSafety`, `DisplayStops`,
  `LauncherIdles`, for any number of tools, images and queued events. The
  port's invariant says who owns it (`PortHasOwner`), when the loader does
  (`LoaderHasPort`), how the hook's upload goes on (`HookLife`), and that its end is
  reported once (`DoneOnce`); the launcher's (`Settled`) says that the buttons are
  back already when the tools left are those whose thread raised and whose error was shown.

- **Drive1541Proofs**: `LoadStoresWhole`, `FailureIsExcused`, `UndamagedFits`,
  `UndamagedLoadsWhole`. The
  hook may be in the middle of an answer with the answers of many LOADs behind it, so
  the invariant `LInv` is about the stream of parts from the first one the hook has
  taken of its answer to the last one sent. A part follows only what it may follow
  (`Framed`), from each block and each good OPEN the stream goes on, up to the channel,
  where that ends (`Chained`, `Goes`), and while the hook reads, its memory is a file's
  begin and the stream goes on there (`Reading`). One lemma per thing that can happen to
  a stream: a part taken, dropped or cut down, a checksum lost or spoilt, an answer
  added. `LoadStoresWhole` (`LoadWhole`) has the hypothesis `[]FifoHasRoom`: a FIFO that
  overflows, which takes five LOADs at least, cuts answers to pieces. What is loaded then is
  left to the run `load`, which meets an overflow and refutes nothing, as far as the
  model's parts go: that bytes out of place fail a test, at the latest that of the
  checksum, is an assumption (section 4), and how many of them the hook takes
  before it does is simplified.
  `FailureIsExcused` (`FailureHasCause`) has none. Its invariant says that as long as
  nothing was damaged and no LOAD failed, nothing is on its way while the hook rests
  (`Resting`), and one request (`Awaited`) or one answer (`Coming`) while it waits, one it
  will not complain about if the disk has stayed. From that it follows that no wait of
  the hook times out, and that the FIFO has room, which needs the value of a fold over
  up to five parts (`SumOfFive`); once something was damaged, the excuse stays
  (`BlameStays`). `UndamagedFits` is `FifoHasRoom` and `UndamagedLoadsWhole` is
  `LoadWhole` until then, without a hypothesis.
- **PcToolsProofs**: `KernalIsSafe`, `BootIsUploaded`. `KernalIsSafe` (`KernalKept`) rests
  on one lemma per instruction and on `PatchedCall`: in any ROM with patch and stub, for
  any byte at $C000 and any A, eight instructions lead to the hook or to the stock
  routine. The invariant `KernalInv` says that a ROM which is not the first one is patched,
  so that what is backed up is the first one; its assumption is that the tool is given
  a ROM nobody patched with it (`KernalsAssumption`), which may hold another tool's patch.
  `BootIsUploaded` (`BootIsUpload`) follows a byte through payload, sectors and shadow ROM
  (`PayloadIs`, `LineByte`, `BootLoads`) and through the two parts of `--split-rom`
  (`SplitIs`), for files at any offsets; the run compares four sets of them.

Only model-checked: all liveness, so that a LOAD, an upload or a fetch ends, and what
depends on it; `SdDisk` where the window gives up (`sd_live`); LOADs through a FIFO that overflows
(`LoadWhole` without its hypothesis, `OverflowHasCause`); and the file tools but for KERNAL and boot card.
Out of the prover's reach are fairness and
`ENABLED`, hence liveness, and induction over data, hence what the cuts, lists and
cards of the file tools come to.

## 7. Where code and documents disagree

`jump_lands`: the override is gone one clock before the T65 latches the high
byte, so `G` restarts at the ROM vector's page. Masked as long as both are the same page.

Configurations outside the list of runs; each finds a counterexample to the
property named, with the module of the row:

| Config | Module | Property | What happens |
|---|---|---|---|
| `SdDisk_remount` | MCSdDisk | `OneOutstanding` | a mount during a fetch leaves two requests outstanding, against the arbiter's comment |
| `SectorSource_late` | MCSectorSource | `ValidIsWanted` | an answer later than the watchdog is taken for the next sector: frames carry no address |
| `SectorSource_illegal` | MCSectorSource | `NeverHangs` | an error answer is met by the same request, for ever |
| `Drive1541_wedged` | MCDrive1541 | `LoadSucceeds` | a READ error leaves 16 bytes, CLOSE skips exactly those and gives up, its own answer stays in the FIFO, and every later LOAD fails until a reset (`docs/C64_V1541_UART_TECHNOTE.md` 31-34) |
| `Drive1541_wedged` | MCDrive1541 | `OneDisk` | a mount between `find_load_entry` and `load_entry`: the old disk's entry followed in the new image, status OK |
| `DosChannels_padded` | MCDosChannels | `BlockReadAsAsked` | `int("08", 0)` is an error in Python, which drops a zero-padded track or sector from the arguments of B-R, and another block is read |
| `Desktop_dead` | Desktop | `ConnectedServes` | a write that times out ends the serial thread and the window goes on saying CONNECTED |
| `PrgUpload_rejected` | MCPrgUpload | `RejectedIsReported` | a command the monitor rejected is reported as success by `upload_monitor_hex.py` |
| `PrgUpload_wedged` | MCPrgUpload | `UploadSucceeds` | a killed run leaves the monitor in load mode, where the next run does not wake it |

More need one change of a configuration, given in the first column; where a property is named, it
is to be its only one:

| Config | Property | What happens |
|---|---|---|
| `VramSteal` | `EveryStoreLands` | hold or reset during a steal clears the latch (`sbc_t65_boot_monitor_top.vhd` 669-672) although the T65 has left the write cycle: the store of a program that is halted and resumed is lost, against `tb_vram_steal_race.vhd` 15-18 |
| `Drive1541` | `FifoHasRoom` | what failed LOADs leave fills the receive FIFO, and the fifth LOAD loses a byte |
| `DosChannels` | `EofMeansEnd` | a READ of no bytes is answered with END OF FILE in mid-file (`c64_1541_uart_gui.py` 708-709) |
| `DosChannels` | `WindowAlwaysRight` | `_rescan` catches what `set_folder` raises at the new folder and does not refresh: the old disk is shown, the drive is empty |
| `Desktop_dead` | `OneTool` | two starts before the first thread has set `_proc` run two tools |
| `Desktop_dead` | `ClosedIsSaved` | a mount by the C64 between `_save_settings` and `worker.stop` of `destroy` is not in the settings |
| `PcTools` | `SkippedAsDocumented` | `roms/test_d64/README.md` 52-54 and `build_sid_disks.py` 6-8 list tunes that are left out; some are put on a disk: without a play address they call $0000 (`build_sid_prg.py` 96, 103) |
| `PcTools` | `StartSongPlays` | a copied-up tune starts with song 0 whatever the file says (`build_sid_prg.py` 123) |
| `SdDisk` with `Uses <- TwoHalves` | `OtherHalfPreserved` | drive and window write the two halves of one block, and the read-modify-write of one undoes the other's |
| `SdDisk_remount` with `MaxVersion = 1` | `BurstStaysInItsImage` | a burst begun before a mount is flushed to the new image |

## 8. Not modelled

Of the modelled parts: the pixel output and the VIC's address generation; the
instructions of the T65; the monitor's line editor, dumps and fill; in `SdDisk` the
GCR encoding (a burst is decoded or not), the one-clock pipeline of `wr_out`,
the power-up boot loader, a C64 reset in mid-transfer, and the BAM, which is
sector 0; with `"drive"` in `Timeouts` a flush given up by `wr_guard` leaves the
drive one transfer off, which is listed as a hazard; in `SectorSource` bytes
are grouped into tokens; in `Drive1541` SAVE, the directory as a program, the
channel hooks (CHRIN, CHKIN) and the hook's own commands; in the windows sounds,
list boxes and texts, and the window of the card tool; in the uploaders the
wording; in the SID tools the sound itself; of `build_fpga_ehbasic.py` the
patches of the interpreter's text; of the ROM loader the retries of the card's
initialisation.

Not modelled at all, and why:

- the DDR3 framebuffer and blitter, and the clock domain crossing of the DDR3 bridge:
  their hazards are against the vendor's controller, whose behaviour is not in this
  repository; as a byte memory the bridge is `BytePort`'s backend, which answers at any time;
- the SDRAM controller: belongs to the older core; its port has the shape of
  `BytePort`, its timing that of the chip;
- VIA, UART, CIA: register files with timers, each one process without a
  partner, and reached by the test benches in `sim/tb`;
- coprocessor and REIST divider: arithmetic over wide words, of which a narrow
  instance would not be this code;
- keyboards (analogue timing and tables), video and sound output (data paths), System16
  (an experiment around vendor IP), the firmware (programs, not the machine), the
  board tops and vendor IP (wiring; not this project's code).

`PROJECT.json` lists every part with the same reasons.
