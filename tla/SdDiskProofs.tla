---------------------------- MODULE SdDiskProofs ----------------------------
(***************************************************************************)
(* Proofs about SdDisk, for every image, every size of a block and every   *)
(* latency of the card, as long as programs mount only at rest: the drive  *)
(* never has two requests outstanding, whatever the window does with the   *)
(* card; what the head is given to read is the mounted disk; and what is   *)
(* written by either side is on the card, in its place, and no older than  *)
(* what it replaces.                                                       *)
(***************************************************************************)
EXTENDS SdDisk, TLAPS

\* No use of the disk has a drive that gives a flush up.
DrivePatient == \A u \in Uses : "drive" \notin u.timeouts

\* Where the drive's one request may be: a pulse to the arbiter, latched there,
\* or a transfer of its own.
Pulsed == sd_read_r \/ sd_write_r
Latched == drive_req # None \/ drive_wrreq # None
Transfers == xfer_busy /\ ~owner_fast

\* The states in which the source waits for a request it made.
Waits == state \in {"DRV_WAIT", "WR_RMW_WAIT", "WR_STREAM"}

\* The request is in one place at most, of one kind at most.
OnePlace ==
  /\ ~(sd_read_r /\ sd_write_r) /\ (drive_req = None \/ drive_wrreq = None)
  /\ ~(Pulsed /\ Latched) /\ ~(Pulsed /\ Transfers) /\ ~(Latched /\ Transfers)

\* Outside the waiting states there is none.
RestIsRest == ~Waits => ~Pulsed /\ ~Latched /\ ~Transfers

\* A mount meets a source that waits for nothing.
MountMeetsRest == mount_strobe => ~Waits

Flags ==
  /\ sd_read_r \in BOOLEAN /\ sd_write_r \in BOOLEAN
  /\ xfer_busy \in BOOLEAN /\ owner_fast \in BOOLEAN

IInv == uses \in Uses /\ Flags /\ OnePlace /\ RestIsRest /\ MountMeetsRest

LEMMA Initially == Init => IInv
BY DEF Init, IInv, Flags, OnePlace, RestIsRest, MountMeetsRest, Waits, Pulsed, Latched, Transfers

\* A source at rest finds the arbiter without a request of its own, and leaves
\* it so: at the end of the clock there is at most the pulse it gives now.
LEMMA ArbiterAtRest ==
  ASSUME IInv, ~Waits, ArbiterClock
  PROVE  ~Latched' /\ ~Transfers' /\ xfer_busy' \in BOOLEAN /\ owner_fast' \in BOOLEAN
<1> USE SdDiskAssumption
<1>1. ~sd_read_r /\ ~sd_write_r /\ drive_req = None /\ drive_wrreq = None /\ ~Transfers
  BY DEF IInv, RestIsRest, Pulsed, Latched
<1>2. Grant \in {None, "fast_read", "fast_write"}
  BY <1>1 DEF Grant
<1>3. ~Latched'
  BY <1>1, <1>2 DEF ArbiterClock, LatchDrive, Latched
<1>4. CASE ArbiterGrants
  BY <1>2, <1>3, <1>4 DEF ArbiterGrants, Transfers
<1>5. CASE ArbiterWaits
  BY <1>1, <1>3, <1>5 DEF ArbiterWaits, Transfers, IInv, Flags
<1> QED
  BY <1>4, <1>5 DEF ArbiterClock

\* While the source waits its request moves on: from the pulse to the latch,
\* from the latch to a transfer, and when that ends it is gone.
LEMMA ArbiterInWork ==
  ASSUME IInv, ArbiterClock
  PROVE  /\ xfer_busy' \in BOOLEAN /\ owner_fast' \in BOOLEAN
         /\ drive_req' = None \/ drive_wrreq' = None
         /\ ~(Latched' /\ Transfers')
         /\ Transfers /\ TransferEnds => ~Latched' /\ ~Transfers'
<1> USE SdDiskAssumption
<1>1. Flags /\ OnePlace
  BY DEF IInv
<1>2. CASE Grant = "drive_read"
  <2>1. ~xfer_busy /\ drive_req # None /\ ~Pulsed /\ drive_wrreq = None
    BY <1>1, <1>2 DEF Grant, OnePlace, Latched
  <2>2. drive_req' = None /\ drive_wrreq' = None
    BY <1>2, <2>1 DEF ArbiterClock, LatchDrive, Pulsed
  <2>3. ArbiterGrants
    BY <1>2 DEF ArbiterClock, ArbiterWaits
  <2>4. xfer_busy' = TRUE /\ owner_fast' \in BOOLEAN
    BY <2>3 DEF ArbiterGrants
  <2> QED
    BY <2>1, <2>2, <2>4 DEF Latched, Transfers
<1>3. CASE Grant = "drive_write"
  <2>1. ~xfer_busy /\ drive_wrreq # None /\ ~Pulsed /\ drive_req = None
    BY <1>1, <1>3 DEF Grant, OnePlace, Latched
  <2>2. drive_req' = None /\ drive_wrreq' = None
    BY <1>3, <2>1 DEF ArbiterClock, LatchDrive, Pulsed
  <2>3. ArbiterGrants
    BY <1>3 DEF ArbiterClock, ArbiterWaits
  <2>4. xfer_busy' = TRUE /\ owner_fast' \in BOOLEAN
    BY <2>3 DEF ArbiterGrants
  <2> QED
    BY <2>1, <2>2, <2>4 DEF Latched, Transfers
<1>4. CASE Grant \in {"fast_read", "fast_write"}
  <2>1. ~xfer_busy /\ drive_req = None /\ drive_wrreq = None
    BY <1>4 DEF Grant
  <2>2. owner_fast' = TRUE /\ xfer_busy' = TRUE
    BY <1>4 DEF ArbiterClock, ArbiterGrants, ArbiterWaits
  <2>3. drive_req' = None \/ drive_wrreq' = None
    BY <1>1, <1>4, <2>1 DEF ArbiterClock, LatchDrive, OnePlace
  <2> QED
    BY <2>1, <2>2, <2>3 DEF Transfers
<1>5. CASE Grant = None
  <2>1. /\ drive_req' = IF sd_read_r THEN target_lba ELSE drive_req
        /\ drive_wrreq' = IF sd_write_r THEN target_lba ELSE drive_wrreq
    BY <1>5 DEF ArbiterClock, LatchDrive
  <2>2. xfer_busy' = (xfer_busy /\ ~TransferEnds) /\ owner_fast' = owner_fast
    BY <1>5 DEF ArbiterClock, ArbiterGrants, ArbiterWaits
  <2>3. Transfers => drive_req' = None /\ drive_wrreq' = None
    BY <1>1, <2>1 DEF OnePlace, Pulsed, Latched
  <2>4. drive_req' = None \/ drive_wrreq' = None
    BY <1>1, <2>1 DEF OnePlace, Pulsed, Latched
  <2> QED
    BY <1>1, <2>2, <2>3, <2>4 DEF Transfers, Latched, Flags
<1> QED
  BY <1>2, <1>3, <1>4, <1>5 DEF Grant

\* What the source does at rest: a request is a pulse and a state that waits.
LEMMA SourceAtRest ==
  ASSUME NEW commit, SourceClock(commit), ~Waits
  PROVE  /\ sd_read_r' \in BOOLEAN /\ sd_write_r' \in BOOLEAN
         /\ ~(sd_read_r' /\ sd_write_r') /\ (Pulsed' => Waits')
         /\ Waits' => Pulsed'
<1> USE DEF Pulses, Pulsed, Waits
<1>1. CASE SourceRemounts \/ SourceWaitsForCard(commit) \/ SourceMounts(commit)
  BY <1>1 DEF SourceRemounts, SourceWaitsForCard, SourceMounts, FetchBam
<1>2. CASE SourceFlushes \/ SourceFetches(commit) \/ SourceMaps(commit) \/ SourceServesBlank(commit)
  BY <1>2 DEF SourceFlushes, SourceFetches, SourceMaps, SourceServesBlank
<1>3. CASE SourceRequests(commit) \/ SourcePrereads(commit) \/ SourceIssues(commit)
  BY <1>3 DEF SourceRequests, SourcePrereads, SourceIssues
<1>4. CASE SourceAimsFlush(commit)
  BY <1>4 DEF SourceAimsFlush
<1> QED
  BY <1>1, <1>2, <1>3, <1>4 DEF SourceClock, SourceReads, SourceParks, SourceStreams

\* A waiting source gives no pulse, and leaves only with the end of a transfer
\* of its own.
LEMMA SourceInWork ==
  ASSUME NEW commit, IInv, DrivePatient, SourceClock(commit), Waits
  PROVE  /\ ~sd_read_r' /\ ~sd_write_r' /\ sd_read_r' \in BOOLEAN /\ sd_write_r' \in BOOLEAN
         /\ ~Waits' => Transfers /\ TransferEnds
<1>1. MayTimeout("drive") = {FALSE}
  BY DEF IInv, DrivePatient, MayTimeout, Timeouts
<1>2. ~mount_strobe
  BY DEF IInv, MountMeetsRest
<1>3. \/ SourceReads(commit) \/ SourceParks(commit, FALSE) \/ SourceStreams(commit, FALSE)
  BY <1>1, <1>2 DEF SourceClock, Waits, SourceRemounts, SourceWaitsForCard, SourceMounts,
     SourceFlushes, SourceFetches, SourceMaps, SourceServesBlank, SourceRequests,
     SourceAimsFlush, SourcePrereads, SourceIssues
<1>4. CASE SourceReads(commit)
  BY <1>4 DEF SourceReads, Pulses, Waits, drive_read_end, drive_reads, Transfers, TransferEnds
<1>5. CASE SourceParks(commit, FALSE)
  BY <1>5 DEF SourceParks, Pulses, Waits, drive_read_end, drive_reads, Transfers, TransferEnds
<1>6. CASE SourceStreams(commit, FALSE)
  BY <1>6 DEF SourceStreams, Pulses, Waits, drive_write_end, drive_writes, Transfers, TransferEnds
<1> QED
  BY <1>3, <1>4, <1>5, <1>6

LEMMA Step ==
  ASSUME IInv, [Next]_vars, DrivePatient, ~RemountAnytime
  PROVE  IInv'
<1>1. CASE UNCHANGED vars
  BY <1>1 DEF IInv, Flags, OnePlace, RestIsRest, MountMeetsRest, Waits, Pulsed, Latched,
     Transfers, vars, sourceVars, windowVars, arbiterVars
<1>2. CASE Next
  <2>1. PICK commit \in BOOLEAN : /\ WindowClock /\ SourceClock(commit) /\ ArbiterClock
                                  /\ UNCHANGED uses /\ MountsAtRest
    BY <1>2 DEF Next, Clock
  <2>2. MountMeetsRest'
    BY <2>1 DEF MountMeetsRest, MountsAtRest, Waits
  <2>3. CASE ~Waits
    BY <2>1, <2>2, <2>3, ArbiterAtRest, SourceAtRest
    DEF IInv, Flags, OnePlace, RestIsRest, Latched, Pulsed
  <2>4. CASE Waits
    BY <2>1, <2>2, <2>4, ArbiterInWork, SourceInWork
    DEF IInv, Flags, OnePlace, RestIsRest, Latched, Pulsed
  <2> QED
    BY <2>3, <2>4
<1> QED
  BY <1>1, <1>2

\* With its programs mounting at rest and its flushes waiting for their end, the
\* drive has one request at the arbiter at most: the comment there, that it
\* never has more than one outstanding, holds.
THEOREM OneAtATime ==
  ASSUME DrivePatient, ~RemountAnytime
  PROVE  Spec => []OneOutstanding
<1>1. IInv => OneOutstanding
  BY DEF IInv, OnePlace, OneOutstanding, Pulsed, Latched, Transfers
<1> QED
  BY <1>1, Initially, Step, PTL DEF Spec

-----------------------------------------------------------------------------
(* A second invariant, for what is on the card: where a transfer is, what   *)
(* each side has counted of it, and what its buffers hold of the block.     *)

\* The halves of blocks that the drive's and the window's programs write.
DriveHalf(lba, half) == \E img \in Images, s \in DriveTargets :
                          lba = img + s \div 2 /\ half = s % 2

Beats == 0 .. HalfBeats - 1
At(half, b) == half * HalfBeats + b
Other(half) == 1 - half

\* Versions without the bound of the runs.
Data    == Lba \X Position \X Nat
Buffers == [Beats -> Data]

SourceTypes ==
  /\ wanted \in WantedSectors /\ fetch \in WantedSectors /\ wr_sector \in Sectors
  /\ active \in Images /\ burst_image \in Images /\ fast_mount_lba \in Images
  /\ target_lba \in Lba /\ upper_half \in Half /\ wr_upper_half \in Half
  /\ raw_pos \in Nat /\ wr_widx \in Nat
  /\ sec_buf \in Buffers /\ wr_buf \in Buffers
  /\ state \in States /\ loaded \in WantedSectors \union {None}

WindowTypes ==
  /\ fast_state \in {"IDLE", "WAIT", "WRITE"} /\ fast_lba \in Lba /\ fast_half \in Half
  /\ fast_raw_pos \in Nat /\ fast_wr_idx \in Nat
  /\ fast_buf \in Buffers /\ rmw_buf \in Buffers
  /\ fast_rmw \in BOOLEAN /\ fast_req_pend \in BOOLEAN /\ fast_wrreq_pend \in BOOLEAN

CardTypes ==
  /\ xfer_write \in BOOLEAN /\ beat \in 0 .. 2 * HalfBeats /\ sec_addr \in Lba
  /\ incoming \in Seq(Data) /\ cmd_error \in BOOLEAN
  /\ disk \in [Lba -> [Position -> Data]] /\ latest \in [Lba -> [Half -> Nat]]

(* Whose transfer it is, and how far the card is with it. *)

Target == IF owner_fast THEN fast_lba ELSE target_lba

CardAtRest == issue = None /\ card \in {"init", "wait"}
CardCalled == card = "wait" /\ issue = <<IF xfer_write THEN "write" ELSE "read", Target>>
CardWorks  ==
  /\ issue = None /\ sec_addr = Target
  /\ card \in IF xfer_write THEN {"cmd24", "write", "req", "write_end"}
                            ELSE {"cmd17", "read", "beat", "read_end"}

CardPhase ==
  /\ ~xfer_busy => CardAtRest
  /\ xfer_busy => CardCalled \/ CardWorks
  /\ card = "init" => state = "WAIT_SD" /\ fast_state = "IDLE"

CardCounts ==
  /\ card \notin {"read", "beat", "write", "req"} => beat = 0
  /\ card \in {"beat", "req"} => beat < 2 * HalfBeats
  /\ Len(incoming) = IF card \in {"write", "req"} THEN beat ELSE 0

\* What the card counted, seen from the other side of the line.
Passed(end) == IF card = end THEN 2 * HalfBeats ELSE beat

(* The drive: its request, its counters, its aim and its buffers. *)

Reads == state \in {"DRV_WAIT", "WR_RMW_WAIT"}

DriveRequest ==
  /\ sd_read_r => Reads
  /\ sd_write_r => state = "WR_STREAM"
  /\ drive_req # None => drive_req = target_lba /\ Reads
  /\ drive_wrreq # None => drive_wrreq = target_lba /\ state = "WR_STREAM"
  /\ Transfers => IF xfer_write THEN state = "WR_STREAM" ELSE Reads

DriveCounts ==
  /\ state \in {"DRV_STARTED", "WR_RMW_START"} => raw_pos = 0
  /\ state = "WR_ISSUE" => wr_widx = 0
  /\ Reads => raw_pos = IF Transfers THEN Passed("read_end") ELSE 0
  /\ state = "WR_STREAM" => wr_widx = IF Transfers THEN Passed("write_end") ELSE 0

\* A mount finds the source at rest and no burst on its way.
MountsQuietly ==
  mount_strobe => ~writing /\ ~wr_commit_pend /\ state \in {"WAIT_SD", "READY"}

Bursts ==
  /\ writing => wanted \in DriveTargets /\ burst_image = active
  /\ wr_busy => /\ wr_sector \in DriveTargets
                /\ wr_buf = HalfData(active + wr_sector \div 2, wr_sector % 2,
                                     latest[active + wr_sector \div 2][wr_sector % 2])

Aims ==
  /\ state \in {"DRV_STARTED", "DRV_WAIT"} =>
       /\ fetch \in Sectors /\ target_lba = active + fetch \div 2
       /\ upper_half = fetch % 2 /\ blank_sector = FALSE
  /\ flushing => fetch = wr_sector
  /\ flushing /\ state # "WR_MAP" =>
       target_lba = active + wr_sector \div 2 /\ wr_upper_half = wr_sector % 2

\* The first n beats of a block, as far as they are in its half, are in a buffer;
\* or all of that half.
Gathered(buffer, block, half, n) ==
  \A b \in Beats : At(half, b) < n => buffer[b] = block[At(half, b)]

Holds(buffer, block, half) == \A b \in Beats : buffer[b] = block[At(half, b)]

DriveBuffers ==
  /\ state = "DRV_WAIT" => Gathered(sec_buf, disk[target_lba], upper_half, raw_pos)
  /\ state = "WR_RMW_WAIT" => Gathered(sec_buf, disk[target_lba], Other(wr_upper_half), raw_pos)
  /\ state \in {"WR_ISSUE", "WR_STREAM"} => Holds(sec_buf, disk[target_lba], Other(wr_upper_half))

(* The window: its request, its counters and its buffers. *)

WindowRequest ==
  /\ fast_state # "WAIT" => ~fast_req_pend
  /\ fast_state # "WRITE" => ~fast_wrreq_pend
  /\ fast_owns => fast_state = (IF xfer_write THEN "WRITE" ELSE "WAIT")
                  /\ ~fast_req_pend /\ ~fast_wrreq_pend
  /\ fast_state = "IDLE" => ~fast_rmw
  /\ fast_state = "WRITE" => fast_rmw

WindowCounts ==
  /\ fast_state = "WAIT" => fast_raw_pos = IF fast_owns THEN Passed("read_end") ELSE 0
  /\ fast_state = "WRITE" => fast_wr_idx = IF fast_owns THEN Passed("write_end") ELSE 0

WindowBuffers ==
  /\ fast_state # "IDLE" /\ fast_rmw =>
       /\ FastTarget(fast_lba, fast_half)
       /\ fast_buf = HalfData(fast_lba, fast_half, latest[fast_lba][fast_half])
  /\ fast_state = "WAIT" /\ ~fast_rmw => Gathered(fast_buf, disk[fast_lba], fast_half, fast_raw_pos)
  /\ fast_state = "WAIT" /\ fast_rmw => Gathered(rmw_buf, disk[fast_lba], Other(fast_half), fast_raw_pos)
  /\ fast_state = "WRITE" => Holds(rmw_buf, disk[fast_lba], Other(fast_half))

(* The card: what it was given, and what is on it. *)

WrittenHalf == IF owner_fast THEN fast_half ELSE wr_upper_half
WrittenBuf  == IF owner_fast THEN fast_buf ELSE wr_buf
KeptBuf     == IF owner_fast THEN rmw_buf ELSE sec_buf

Given ==
  card \in {"write", "req"} =>
    \A half \in Half, b \in Beats : At(half, b) < beat =>
      incoming[At(half, b) + 1] = IF half = WrittenHalf THEN WrittenBuf[b] ELSE KeptBuf[b]

CardTook ==
  /\ cmd_error => CardRejects
  /\ card = "write_end" /\ ~cmd_error => Holds(WrittenBuf, disk[Target], WrittenHalf)

InPlace ==
  \A lba \in Lba, half \in Half, b \in Beats :
    /\ disk[lba][At(half, b)][1] = lba /\ disk[lba][At(half, b)][2] = At(half, b)
    /\ disk[lba][At(half, b)][3] <= latest[lba][half]

Landed ==
  ~CardRejects => \A lba \in Lba, half \in Half : DriveHalf(lba, half) =>
    \/ \A b \in Beats : disk[lba][At(half, b)] = <<lba, At(half, b), latest[lba][half]>>
    \/ wr_busy /\ lba = active + wr_sector \div 2 /\ half = wr_sector % 2

(* The head: what it is given to read. *)

Loads ==
  state = "READY" /\ loaded # None =>
    /\ blank_sector = (loaded = Illegal)
    /\ loaded \in Sectors \ FastTargets =>
         Holds(sec_buf, disk[active + loaded \div 2], loaded % 2)

IdRight == disk_id # None /\ disk_id[1] = active /\ disk_id[2] = IdBeat

Identifies ==
  /\ mounted \/ state \in {"WAIT_SD", "MOUNT"}
  /\ id_fetch \/ IdRight \/ state \in {"WAIT_SD", "MOUNT"}
  /\ id_fetch => state \in {"DRV_REQ", "DRV_STARTED", "DRV_WAIT"} /\ fetch = 0
  /\ state = "DRV_WAIT" /\ id_fetch /\ raw_pos > IdBeat => IdRight

DInv ==
  /\ SourceTypes /\ WindowTypes /\ CardTypes /\ CardPhase /\ CardCounts
  /\ DriveRequest /\ DriveCounts /\ MountsQuietly /\ Bursts /\ Aims /\ DriveBuffers
  /\ WindowRequest /\ WindowCounts /\ WindowBuffers
  /\ Given /\ CardTook /\ InPlace /\ Landed /\ Loads /\ Identifies
(* Hypotheses of the theorems below, about the uses of the disk. *)

\* No transfer is given up while it runs.
Patient == \A u \in Uses : u.timeouts = {}

\* The images on a card have no block in common.
ImagesApart ==
  \A u \in Uses : \A i, j \in u.images, s, t \in u.sectors :
    i + s \div 2 = j + t \div 2 => i = j

\* Drive and window write no block in common: a block has one cached half and
\* two writers of it, neither of which learns of the other.
SidesApart ==
  \A u \in Uses : \A i, j \in u.images, s \in u.drive, t \in u.fast :
    i + s \div 2 # j + t \div 2

-----------------------------------------------------------------------------
(* Positions in a block, and the blocks of a use. *)

LEMMA AtSplits ==
  ASSUME NEW half \in Half, NEW b \in Beats
  PROVE  /\ At(half, b) \in Position /\ At(half, b) \in Nat
         /\ half_of(At(half, b)) = half /\ At(half, b) % HalfBeats = b
<1> USE SdDiskAssumption DEF Position, Beats, Half, At, half_of
<1>1. CASE half = 0
  <2>1. At(half, b) = b
    BY <1>1
  <2>2. b \div HalfBeats = 0 /\ b % HalfBeats = b
    OBVIOUS
  <2> QED
    BY <1>1, <2>1, <2>2
<1>2. CASE half = 1
  <2>1. At(half, b) = HalfBeats + b
    BY <1>2
  <2>2. (HalfBeats + b) \div HalfBeats = 1 /\ (HalfBeats + b) % HalfBeats = b
    OBVIOUS
  <2> QED
    BY <1>2, <2>1, <2>2
<1> QED
  BY <1>1, <1>2

LEMMA PositionSplits ==
  ASSUME NEW p \in Position
  PROVE  half_of(p) \in Half /\ p % HalfBeats \in Beats /\ p = At(half_of(p), p % HalfBeats)
<1> USE SdDiskAssumption DEF Position, Beats, Half, At, half_of
<1>1. CASE p < HalfBeats
  <2>1. p \div HalfBeats = 0 /\ p % HalfBeats = p
    BY <1>1
  <2> QED
    BY <1>1, <2>1
<1>2. CASE p >= HalfBeats
  <2> DEFINE b == p - HalfBeats
  <2>1. b \in 0 .. HalfBeats - 1 /\ p = HalfBeats + b
    BY <1>2
  <2>2. (HalfBeats + b) \div HalfBeats = 1 /\ (HalfBeats + b) % HalfBeats = b
    BY <2>1
  <2> HIDE DEF b
  <2>3. p \div HalfBeats = 1 /\ p % HalfBeats = b
    BY <2>1, <2>2
  <2> QED
    BY <2>1, <2>3
<1> QED
  BY <1>1, <1>2

LEMMA HalfSplits ==
  ASSUME NEW half \in Half
  PROVE  Other(half) \in Half /\ \A h \in Half : h # half <=> h = Other(half)
BY DEF Half, Other

\* The positions of a half are different ones.
LEMMA AtDiffers ==
  ASSUME NEW half \in Half, NEW b \in Beats, NEW h \in Half, NEW c \in Beats,
         At(half, b) = At(h, c)
  PROVE  half = h /\ b = c
BY AtSplits

\* A beat more of a block: what a buffer has gathered of its half.
LEMMA GatherBeat ==
  ASSUME NEW S, NEW buffer \in [Beats -> S], NEW block, NEW half \in Half,
         NEW n \in Position, NEW next,
         Gathered(buffer, block, half, n),
         next = IF half_of(n) = half THEN [buffer EXCEPT ![n % HalfBeats] = block[n]] ELSE buffer
  PROVE  Gathered(next, block, half, n + 1)
<1> SUFFICES ASSUME NEW b \in Beats, At(half, b) < n + 1
             PROVE  next[b] = block[At(half, b)]
  BY DEF Gathered
<1>1. At(half, b) \in Nat /\ half_of(At(half, b)) = half /\ At(half, b) % HalfBeats = b
  BY AtSplits
<1>2. n \in Nat /\ n % HalfBeats \in Beats /\ half_of(n) \in Half /\ n = At(half_of(n), n % HalfBeats)
  BY PositionSplits, SdDiskAssumption DEF Position
<1>3. CASE At(half, b) = n
  BY <1>1, <1>2, <1>3
<1>4. CASE At(half, b) # n
  <2>1. At(half, b) < n
    BY <1>1, <1>2, <1>4
  <2>2. buffer[b] = block[At(half, b)]
    BY <2>1 DEF Gathered
  <2>3. half_of(n) = half => n % HalfBeats # b
    BY <1>2, <1>4
  <2> QED
    BY <1>2, <2>2, <2>3
<1> QED
  BY <1>3, <1>4

LEMMA GatherAll ==
  ASSUME NEW buffer, NEW block, NEW half \in Half,
         Gathered(buffer, block, half, 2 * HalfBeats)
  PROVE  Holds(buffer, block, half)
<1> SUFFICES ASSUME NEW b \in Beats PROVE buffer[b] = block[At(half, b)]
  BY DEF Holds
<1>1. At(half, b) < 2 * HalfBeats
  BY AtSplits, SdDiskAssumption DEF Position
<1> QED
  BY <1>1 DEF Gathered

LEMMA GatherNone ==
  ASSUME NEW buffer, NEW block, NEW half \in Half
  PROVE  Gathered(buffer, block, half, 0)
<1> SUFFICES ASSUME NEW b \in Beats PROVE ~(At(half, b) < 0)
  BY DEF Gathered
<1> QED
  BY AtSplits

\* A counter of beats does not wrap in a block.
LEMMA NextBeat ==
  ASSUME NEW n \in Nat, n < 2 * HalfBeats
  PROVE  (n + 1) % (4 * HalfBeats) = n + 1
BY SdDiskAssumption

LEMMA SomeBeat ==
  ASSUME NEW n \in Nat
  PROVE  n % (4 * HalfBeats) \in Nat
BY SdDiskAssumption

LEMMA UseFacts ==
  ASSUME IInv
  PROVE  /\ Images \subseteq Nat /\ Sectors \subseteq Nat /\ 0 \in Sectors
         /\ DriveTargets \subseteq Sectors /\ FastTargets \subseteq Sectors
         /\ Lba \subseteq Nat
         /\ \A img \in Images, s \in Sectors : img + s \div 2 \in Lba /\ s % 2 \in Half
<1>1. Use(uses)
  BY SdDiskAssumption DEF IInv
<1>2. Images \subseteq Nat /\ Sectors \subseteq Nat /\ 0 \in Sectors
      /\ DriveTargets \subseteq Sectors /\ FastTargets \subseteq Sectors
  BY <1>1 DEF Use, Images, Sectors, DriveTargets, FastTargets
<1>3. \A s \in Nat : s \div 2 \in Nat /\ s % 2 \in {0, 1}
  OBVIOUS
<1> QED
  BY <1>2, <1>3 DEF Lba, Half

LEMMA UsesStay ==
  ASSUME UNCHANGED uses
  PROVE  /\ UNCHANGED <<Images, Sectors, DriveTargets, FastTargets, WindowAsks, CardRejects>>
         /\ UNCHANGED <<Lba, WantedSectors, Data, Buffers>>
         /\ \A lba, half : (DriveHalf(lba, half)' <=> DriveHalf(lba, half))
                        /\ (FastTarget(lba, half)' <=> FastTarget(lba, half))
BY DEF Images, Sectors, DriveTargets, FastTargets, WindowAsks, CardRejects, Lba, WantedSectors,
       Data, Buffers, DriveHalf, FastTarget

LEMMA NothingIllegal ==
  ASSUME IInv
  PROVE  /\ Illegal \notin Sectors /\ None \notin Sectors /\ None # Illegal
         /\ None \notin Lba /\ None \notin WantedSectors
BY UseFacts, SdDiskAssumption DEF WantedSectors

\* Who writes a half of a block writes the whole block alone.
LEMMA HalvesApart ==
  ASSUME IInv, SidesApart, NEW lba, NEW half, NEW h, DriveHalf(lba, half)
  PROVE  ~FastTarget(lba, h)
BY DEF IInv, SidesApart, DriveHalf, FastTarget, Images, DriveTargets, FastTargets

\* A half is of one sector of one image.
LEMMA SectorApart ==
  ASSUME IInv, ImagesApart, NEW img \in Images, NEW s \in Sectors \ FastTargets
  PROVE  ~FastTarget(img + s \div 2, s % 2)
<1> SUFFICES ASSUME NEW j \in Images, NEW t \in FastTargets,
                    img + s \div 2 = j + t \div 2, s % 2 = t % 2
             PROVE  FALSE
  BY DEF FastTarget
<1>1. t \in Sectors /\ s \in Nat /\ t \in Nat /\ img \in Nat /\ j \in Nat
  BY UseFacts
<1>2. img = j
  BY <1>1 DEF ImagesApart, IInv, Images, Sectors
<1>3. s \div 2 = t \div 2
  BY <1>1, <1>2
<1>4. s = t
  BY <1>1, <1>3
<1> QED
  BY <1>4

-----------------------------------------------------------------------------
(* A clock under these hypotheses, part by part. *)

Tick(commit) ==
  /\ GcrClock(commit) /\ WindowClock /\ SourceClock(commit) /\ ArbiterClock /\ CardClock
  /\ Counts(commit) /\ UNCHANGED uses /\ MountsAtRest

Moves(commit) ==
  /\ commit \in BOOLEAN /\ Tick(commit) /\ IInv /\ IInv' /\ DInv
  /\ Patient /\ ~RemountAnytime /\ ImagesApart /\ SidesApart

LEMMA NoTimeout ==
  ASSUME IInv, Patient, NEW side
  PROVE  MayTimeout(side) = {FALSE}
BY DEF IInv, Patient, MayTimeout, Timeouts

LEMMA SourceInWaits ==
  ASSUME NEW commit, Moves(commit), Waits
  PROVE  /\ ~mount_strobe
         /\ StoreBeat /\ TakeBurst(commit)
         /\ SourceReads(commit) \/ SourceParks(commit, FALSE) \/ SourceStreams(commit, FALSE)
<1>1. IInv /\ SourceClock(commit) /\ MayTimeout("drive") = {FALSE}
  BY NoTimeout DEF Moves, Tick
<1>2. ~mount_strobe
  BY <1>1 DEF IInv, MountMeetsRest
<1> QED
  BY <1>1, <1>2 DEF SourceClock, Waits, SourceRemounts, SourceWaitsForCard, SourceMounts,
     SourceFlushes, SourceFetches, SourceMaps, SourceServesBlank, SourceRequests,
     SourceAimsFlush, SourcePrereads, SourceIssues

LEMMA SourceKeepsAim ==
  ASSUME NEW commit, Moves(commit), Waits
  PROVE  /\ UNCHANGED <<target_lba, upper_half, wr_upper_half, fetch, active, mounted>>
         /\ ~sd_read_r' /\ ~sd_write_r'
<1>1. CASE SourceReads(commit)
  BY <1>1 DEF SourceReads, KeepWrite, Pulses
<1>2. CASE SourceParks(commit, FALSE)
  BY <1>2 DEF SourceParks, KeepFetch, KeepImage, Pulses
<1>3. CASE SourceStreams(commit, FALSE)
  BY <1>3 DEF SourceStreams, KeepFetch, KeepImage, Pulses
<1> QED
  BY <1>1, <1>2, <1>3, SourceInWaits

LEMMA WindowCases ==
  ASSUME NEW commit, Moves(commit)
  PROVE  /\ MountRegister
         /\ FastCommand \/ FastIllegal \/ FastIdle \/ FastWaits(FALSE) \/ FastWrites(FALSE)
<1>1. WindowClock /\ MayTimeout("window") = {FALSE}
  BY NoTimeout DEF Moves, Tick
<1> QED
  BY <1>1 DEF WindowClock

LEMMA WindowInWork ==
  ASSUME NEW commit, Moves(commit), fast_state # "IDLE"
  PROVE  /\ UNCHANGED <<fast_lba, fast_half>>
         /\ fast_state = "WAIT" => FastWaits(FALSE)
         /\ fast_state = "WRITE" => FastWrites(FALSE)
         /\ fast_state = "WAIT" \/ fast_state = "WRITE"
<1>1. fast_state \in {"IDLE", "WAIT", "WRITE"}
  BY DEF Moves, DInv, WindowTypes
<1>2. FastWaits(FALSE) \/ FastWrites(FALSE)
  BY WindowCases DEF FastCommand, FastIllegal, FastIdle
<1> QED
  BY <1>1, <1>2 DEF FastWaits, FastWrites

\* A burst is committed when nothing else of it is on its way, and becomes the
\* pending write; a pending write is not disturbed.
LEMMA BurstCommits ==
  ASSUME NEW commit, Moves(commit)
  PROVE  /\ wr_busy => ~commit
         /\ ~commit => UNCHANGED <<wr_buf, wr_sector>>
         /\ commit => /\ ~wr_busy /\ ~wr_commit_pend /\ ~flushing /\ ~mount_strobe
                      /\ writing /\ ~writing' /\ wanted \in DriveTargets /\ wanted' = wanted
                      /\ Burst = <<active + wanted \div 2, wanted % 2>>
                      /\ wr_sector' = wanted
                      /\ wr_buf' = HalfData(active + wanted \div 2, wanted % 2,
                                      latest[active + wanted \div 2][wanted % 2] + 1)
<1>1. GcrClock(commit) /\ SourceClock(commit) /\ Bursts /\ MountsQuietly /\ commit \in BOOLEAN
  BY DEF Moves, Tick, DInv
<1>2. TakeBurst(commit)
  BY <1>1 DEF SourceClock
<1>3. commit => BurstEnds
  BY <1>1 DEF GcrClock
<1>4. commit => ~mount_strobe /\ wanted \in DriveTargets /\ burst_image = active
  BY <1>1, <1>3 DEF BurstEnds, Bursts, MountsQuietly
<1>5. ASSUME commit PROVE Burst = <<active + wanted \div 2, wanted % 2>>
  BY <1>4, <1>5 DEF Burst, HalfOf
<1>6. ASSUME commit
      PROVE  wr_buf' = HalfData(active + wanted \div 2, wanted % 2,
                                latest[active + wanted \div 2][wanted % 2] + 1)
  BY <1>2, <1>5, <1>6 DEF TakeBurst, NextVersion
<1> QED
  BY <1>1, <1>2, <1>3, <1>4, <1>5, <1>6 DEF TakeBurst, BurstEnds, wr_busy

\* A write command begins.
Begins(lba, half) ==
  fast_state = "IDLE" /\ fast_state' = "WAIT" /\ fast_rmw' /\ fast_lba' = lba /\ fast_half' = half

LEMMA WindowBegins ==
  ASSUME NEW commit, Moves(commit), NEW lba, NEW half, Begins(lba, half)
  PROVE  /\ FastTarget(lba, half) /\ lba \in Lba /\ half \in Half
         /\ fast_buf' = HalfData(lba, half, latest[lba][half] + 1)
<1>1. ~fast_rmw
  BY DEF Moves, DInv, WindowRequest, Begins
<1>2. FastCommand
  BY WindowCases DEF Begins, FastIllegal, FastRefuses, FastIdle, FastWaits, FastWrites
<1>3. PICK l \in Lba, h \in Half, write \in BOOLEAN, mapped \in BOOLEAN :
        /\ IF write
           THEN /\ FastTarget(l, h) /\ latest[l][h] < MaxVersion
                /\ fast_buf' = HalfData(l, h, latest[l][h] + 1)
           ELSE UNCHANGED fast_buf
        /\ IF FastMayStart(mapped) THEN FastStarts(l, h, write) ELSE FastRefuses
  BY <1>2 DEF FastCommand
<1>4. FastStarts(l, h, write)
  BY <1>3 DEF Begins, FastRefuses
<1>5. write /\ l = lba /\ h = half
  BY <1>1, <1>4 DEF FastStarts, Begins
<1> QED
  BY <1>3, <1>5

\* The versions that are given out: one to a burst, one to a write command.
LEMMA LatestMoves ==
  ASSUME NEW commit, Moves(commit)
  PROVE  /\ latest' \in [Lba -> [Half -> Nat]]
         /\ \A lba \in Lba, half \in Half :
              LET counted == (commit /\ Burst = <<lba, half>>) \/ Begins(lba, half)
              IN latest'[lba][half] = IF counted THEN latest[lba][half] + 1 ELSE latest[lba][half]
<1>1. latest \in [Lba -> [Half -> Nat]] /\ Counts(commit)
  BY DEF Moves, Tick, DInv, CardTypes
<1> DEFINE one(lba, h) == (commit /\ Burst = <<lba, h>>) \/ Begins(lba, h)
<1>2. latest' = [lba \in Lba |-> [h \in Half |-> latest[lba][h] + IF one(lba, h) THEN 1 ELSE 0]]
  BY <1>1 DEF Counts, Begins
<1> HIDE DEF one
<1>3. \A lba \in Lba, h \in Half : latest[lba][h] \in Nat
  BY <1>1
<1>4. \A lba \in Lba, h \in Half : latest[lba][h] + (IF one(lba, h) THEN 1 ELSE 0) \in Nat
  BY <1>3
<1>5. \A lba \in Lba, h \in Half :
        latest'[lba][h] = IF one(lba, h) THEN latest[lba][h] + 1 ELSE latest[lba][h]
  BY <1>2, <1>3
<1>6. latest' \in [Lba -> [Half -> Nat]]
  BY <1>2, <1>4
<1> QED
  BY <1>5, <1>6 DEF one
-----------------------------------------------------------------------------
(* The arbiter and the card: a transfer from its grant to its end. *)

SameCard == UNCHANGED <<sec_addr, beat, incoming, cmd_error, disk>>

\* Between transfers the card waits; nothing it holds changes.
LEMMA CardBetween ==
  ASSUME NEW commit, Moves(commit), ~xfer_busy
  PROVE  /\ issue = None /\ card \in {"init", "wait"} /\ card' \in {"init", "wait"}
         /\ card = "wait" => card' = "wait"
         /\ SameCard
<1> USE DEF SameCard
<1>1. issue = None /\ card \in {"init", "wait"} /\ CardClock
  BY DEF Moves, Tick, DInv, CardPhase, CardAtRest
<1>2. CardReady \/ CardRests
  BY <1>1 DEF CardClock, CardMoves, CardBegins, CardSends, CardTakes, CardWrites, CardAccepts,
     CardEnds
<1> QED
  BY <1>1, <1>2 DEF CardReady, CardRests, cardVars

LEMMA GrantMeans ==
  ASSUME NEW commit, Moves(commit), Grant # None
  PROVE  /\ ~xfer_busy /\ xfer_busy' /\ card = "wait" /\ card' = "wait"
         /\ issue' = <<IF xfer_write' THEN "write" ELSE "read", Target'>>
         /\ xfer_write' \in BOOLEAN
         /\ IF owner_fast'
            THEN IF xfer_write' THEN fast_wrreq_pend /\ Grant = "fast_write" /\ fast_state = "WRITE"
                                ELSE fast_req_pend /\ Grant = "fast_read" /\ fast_state = "WAIT"
            ELSE IF xfer_write' THEN drive_wrreq # None /\ state = "WR_STREAM"
                                ELSE drive_req # None /\ Reads
<1> USE SdDiskAssumption
<1>1. ArbiterGrants /\ ~xfer_busy
  BY DEF Moves, Tick, ArbiterClock, ArbiterWaits, Grant
<1>2. /\ DriveRequest /\ WindowRequest /\ CardPhase
  BY DEF Moves, DInv
<1>3. xfer_busy' /\ xfer_write' \in BOOLEAN
  BY <1>1 DEF ArbiterGrants
<1>4. CASE Grant = "drive_read"
  <2>1. drive_req = target_lba /\ Reads /\ drive_req # None
    BY <1>2, <1>4 DEF DriveRequest, Grant
  <2>2. target_lba' = target_lba
    BY <2>1, SourceKeepsAim DEF Reads, Waits
  <2>3. ~xfer_write' /\ ~owner_fast' /\ issue' = <<"read", target_lba>>
    BY <1>1, <1>4, <2>1 DEF ArbiterGrants, GrantedAddress
  <2>4. card # "init"
    BY <1>2, <2>1 DEF CardPhase, Reads
  <2> QED
    BY <1>1, <1>3, <2>1, <2>2, <2>3, <2>4, CardBetween DEF Target
<1>5. CASE Grant = "drive_write"
  <2>1. drive_wrreq = target_lba /\ state = "WR_STREAM" /\ drive_wrreq # None
    BY <1>2, <1>5 DEF DriveRequest, Grant
  <2>2. target_lba' = target_lba
    BY <2>1, SourceKeepsAim DEF Waits
  <2>3. xfer_write' /\ ~owner_fast' /\ issue' = <<"write", target_lba>>
    BY <1>1, <1>5, <2>1 DEF ArbiterGrants, GrantedAddress
  <2>4. card # "init"
    BY <1>2, <2>1 DEF CardPhase
  <2> QED
    BY <1>1, <1>3, <2>1, <2>2, <2>3, <2>4, CardBetween DEF Target
<1>6. CASE Grant = "fast_read"
  <2>1. fast_req_pend /\ fast_state = "WAIT"
    BY <1>2, <1>6 DEF WindowRequest, Grant
  <2>2. fast_lba' = fast_lba
    BY <2>1, WindowInWork
  <2>3. ~xfer_write' /\ owner_fast' /\ issue' = <<"read", fast_lba>>
    BY <1>1, <1>6, <2>1 DEF ArbiterGrants, GrantedAddress
  <2>4. card # "init"
    BY <1>2, <2>1 DEF CardPhase
  <2> QED
    BY <1>1, <1>3, <1>6, <2>1, <2>2, <2>3, <2>4, CardBetween DEF Target
<1>7. CASE Grant = "fast_write"
  <2>1. fast_wrreq_pend /\ fast_state = "WRITE"
    BY <1>2, <1>7 DEF WindowRequest, Grant
  <2>2. fast_lba' = fast_lba
    BY <2>1, WindowInWork
  <2>3. xfer_write' /\ owner_fast' /\ issue' = <<"write", fast_lba>>
    BY <1>1, <1>7, <2>1 DEF ArbiterGrants, GrantedAddress
  <2>4. card # "init"
    BY <1>2, <2>1 DEF CardPhase
  <2> QED
    BY <1>1, <1>3, <1>7, <2>1, <2>2, <2>3, <2>4, CardBetween DEF Target
<1> QED
  BY <1>4, <1>5, <1>6, <1>7 DEF Grant

LEMMA NoGrant ==
  ASSUME NEW commit, Moves(commit), Grant = None
  PROVE  /\ xfer_busy' = (xfer_busy /\ ~TransferEnds) /\ issue' = None
         /\ owner_fast' = owner_fast /\ xfer_write' = xfer_write
BY DEF Moves, Tick, ArbiterClock, ArbiterGrants, ArbiterWaits

\* The address of a running transfer does not move.
LEMMA TargetStays ==
  ASSUME NEW commit, Moves(commit), xfer_busy
  PROVE  /\ Grant = None /\ owner_fast' = owner_fast /\ xfer_write' = xfer_write /\ issue' = None
         /\ Target' = Target /\ WrittenHalf' = WrittenHalf
         /\ owner_fast => fast_state = (IF xfer_write THEN "WRITE" ELSE "WAIT")
         /\ ~owner_fast => Waits /\ (IF xfer_write THEN state = "WR_STREAM" ELSE Reads)
         /\ CardCalled \/ CardWorks
<1>1. Grant = None
  BY DEF Grant
<1>2. WindowRequest /\ DriveRequest /\ CardPhase
  BY DEF Moves, DInv
<1>3. owner_fast => fast_state = IF xfer_write THEN "WRITE" ELSE "WAIT"
  BY <1>2 DEF WindowRequest, fast_owns
<1>4. ~owner_fast => IF xfer_write THEN state = "WR_STREAM" ELSE Reads
  BY <1>2 DEF DriveRequest, Transfers
<1>5. owner_fast => UNCHANGED <<fast_lba, fast_half>>
  BY <1>3, WindowInWork
<1>6. ~owner_fast => Waits
  BY <1>4 DEF Reads, Waits
<1>7. ~owner_fast => UNCHANGED <<target_lba, wr_upper_half>>
  BY <1>6, SourceKeepsAim
<1>8. owner_fast' = owner_fast /\ xfer_write' = xfer_write /\ issue' = None
  BY <1>1, NoGrant
<1>9. Target' = Target /\ WrittenHalf' = WrittenHalf
  BY <1>5, <1>7, <1>8 DEF Target, WrittenHalf
<1>10. CardCalled \/ CardWorks
  BY <1>2 DEF CardPhase
<1> QED
  BY <1>1, <1>3, <1>4, <1>6, <1>8, <1>9, <1>10

\* A card that is called takes the address, the first beat is still to come.
LEMMA CardStarts ==
  ASSUME NEW commit, Moves(commit), xfer_busy, CardCalled
  PROVE  /\ card = "wait" /\ xfer_busy' /\ sec_addr' = Target'
         /\ card' = IF xfer_write THEN "cmd24" ELSE "cmd17"
         /\ UNCHANGED <<beat, incoming, cmd_error, disk>>
<1>1. /\ card = "wait" /\ issue = <<IF xfer_write THEN "write" ELSE "read", Target>>
      /\ Target \in Lba /\ CardClock
  BY DEF CardCalled, Target, Moves, Tick, DInv, WindowTypes, SourceTypes
<1>2. Target \in Nat
  BY <1>1, UseFacts DEF Moves
<1>3. issue # None
  BY <1>1, <1>2, SdDiskAssumption
<1>4. CardAccepts
  BY <1>1, <1>3 DEF CardClock, CardMoves, CardReady, CardBegins, CardSends, CardTakes, CardWrites,
     CardEnds, CardHurries
<1>5. xfer_busy' = xfer_busy
  BY <1>1, TargetStays, NoGrant DEF TransferEnds
<1>6. (issue[1] = "write") = xfer_write /\ issue[2] = Target
  BY <1>1 DEF Moves, DInv, CardTypes
<1> QED
  BY <1>1, <1>4, <1>5, <1>6, TargetStays DEF CardAccepts

\* A card at work goes on with its transfer, or ends it.
LEMMA CardContinues ==
  ASSUME NEW commit, Moves(commit), xfer_busy, CardWorks
  PROVE  /\ CardBegins \/ CardSends \/ CardTakes \/ CardWrites \/ CardEnds \/ CardRests
         /\ IF card \in {"read_end", "write_end"}
            THEN CardEnds /\ TransferEnds /\ ~xfer_busy' /\ CardAtRest'
            ELSE ~CardEnds /\ ~TransferEnds /\ xfer_busy' /\ CardWorks'
<1>1. CardClock /\ issue' = None /\ sec_addr = Target /\ Target' = Target
      /\ xfer_write' = xfer_write /\ xfer_write \in BOOLEAN
      /\ xfer_busy' = ~TransferEnds
  BY TargetStays, NoGrant DEF Moves, Tick, DInv, CardTypes, CardWorks
<1>2. card \in IF xfer_write THEN {"cmd24", "write", "req", "write_end"}
                            ELSE {"cmd17", "read", "beat", "read_end"}
  BY DEF CardWorks
<1>3. CardBegins \/ CardSends \/ CardTakes \/ CardWrites \/ CardEnds \/ CardRests
  BY <1>1, <1>2 DEF CardClock, CardMoves, CardReady, CardAccepts
<1>4. CASE card \in {"read_end", "write_end"}
  <2>1. CardEnds
    BY <1>1, <1>4 DEF CardClock, CardMoves, CardReady, CardBegins, CardSends, CardTakes,
       CardWrites, CardAccepts, CardHurries
  <2>2. TransferEnds
    BY <1>1, <1>2, <1>4 DEF TransferEnds
  <2> QED
    BY <1>1, <1>3, <1>4, <2>1, <2>2 DEF CardAtRest, CardEnds
<1>5. CASE card \notin {"read_end", "write_end"}
  <2>1. ~CardEnds /\ ~TransferEnds
    BY <1>1, <1>5 DEF TransferEnds, CardEnds
  <2>2. sec_addr' = sec_addr
    BY <1>3, <2>1 DEF CardBegins, CardSends, CardTakes, CardWrites, CardRests, cardVars
  <2>3. card' \in IF xfer_write THEN {"cmd24", "write", "req", "write_end"}
                               ELSE {"cmd17", "read", "beat", "read_end"}
    BY <1>2, <1>3, <2>1 DEF CardBegins, CardSends, CardTakes, CardWrites, CardRests, cardVars
  <2> QED
    BY <1>1, <1>3, <1>5, <2>1, <2>2, <2>3 DEF CardWorks
<1> QED
  BY <1>4, <1>5
-----------------------------------------------------------------------------
(* What the card is given, and what it does with it. *)

\* While a write runs the buffers it comes from stand still.
LEMMA WriteBuffersStay ==
  ASSUME NEW commit, Moves(commit), xfer_busy, xfer_write
  PROVE  WrittenBuf' = WrittenBuf /\ KeptBuf' = KeptBuf
<1>1. owner_fast' = owner_fast /\ owner_fast \in BOOLEAN
  BY TargetStays DEF Moves, IInv, Flags
<1>2. CASE owner_fast
  <2>1. FastWrites(FALSE)
    BY <1>2, TargetStays, WindowInWork
  <2> QED
    BY <1>1, <1>2, <2>1 DEF FastWrites, WrittenBuf, KeptBuf
<1>3. CASE ~owner_fast
  <2>1. state = "WR_STREAM"
    BY <1>3, TargetStays
  <2>2. wr_buf' = wr_buf
    BY <2>1, BurstCommits DEF wr_busy, flushing, Moves
  <2>3. sec_buf' = sec_buf
    BY <2>1, SourceInWaits DEF StoreBeat, sec_wr_en, Waits
  <2> QED
    BY <1>1, <1>3, <2>2, <2>3 DEF WrittenBuf, KeptBuf
<1> QED
  BY <1>2, <1>3

\* What is written is the last version of its half; its writer may write it; the
\* other half is as the card has it.
LEMMA WriteIsLatest ==
  ASSUME DInv, IInv, xfer_busy, xfer_write
  PROVE  /\ Target \in Lba /\ WrittenHalf \in Half
         /\ WrittenBuf = HalfData(Target, WrittenHalf, latest[Target][WrittenHalf])
         /\ Holds(KeptBuf, disk[Target], Other(WrittenHalf))
         /\ IF owner_fast THEN FastTarget(Target, WrittenHalf)
            ELSE /\ DriveHalf(Target, WrittenHalf) /\ state = "WR_STREAM" /\ wr_busy
                 /\ Target = active + wr_sector \div 2 /\ WrittenHalf = wr_sector % 2
<1>1. CASE owner_fast
  <2>1. fast_state = "WRITE" /\ fast_rmw
    BY <1>1 DEF DInv, WindowRequest, fast_owns
  <2> QED
    BY <1>1, <2>1 DEF DInv, WindowTypes, WindowBuffers, Target, WrittenHalf, WrittenBuf, KeptBuf
<1>2. CASE ~owner_fast
  <2>1. state = "WR_STREAM"
    BY <1>2 DEF DInv, DriveRequest, Transfers
  <2>2. flushing /\ wr_busy
    BY <2>1 DEF flushing, wr_busy
  <2>3. /\ target_lba = active + wr_sector \div 2 /\ wr_upper_half = wr_sector % 2
        /\ wr_sector \in DriveTargets /\ active \in Images
        /\ target_lba \in Lba /\ wr_upper_half \in Half
        /\ wr_buf = HalfData(active + wr_sector \div 2, wr_sector % 2,
                             latest[active + wr_sector \div 2][wr_sector % 2])
        /\ Holds(sec_buf, disk[target_lba], Other(wr_upper_half))
    BY <2>1, <2>2 DEF DInv, Aims, Bursts, SourceTypes, DriveBuffers
  <2>4. DriveHalf(target_lba, wr_upper_half)
    BY <2>3 DEF DriveHalf
  <2> QED
    BY <1>2, <2>1, <2>2, <2>3, <2>4 DEF Target, WrittenHalf, WrittenBuf, KeptBuf
<1> QED
  BY <1>1, <1>2

\* The side that writes has counted the beats the card has taken.
LEMMA OfferedBeat ==
  ASSUME DInv, IInv, xfer_busy, xfer_write, card = "req", NEW elsewhere
  PROVE  /\ sd_wr_data(elsewhere) = IF half_of(beat) = WrittenHalf THEN WrittenBuf[beat % HalfBeats]
                                    ELSE KeptBuf[beat % HalfBeats]
         /\ beat \in Position
         /\ sd_wr_data(elsewhere) \in Data
<1>1. beat \in Position
  BY SdDiskAssumption DEF DInv, CardCounts, CardTypes, Position
<1>2. WrittenBuf \in Buffers /\ KeptBuf \in Buffers
  BY DEF DInv, SourceTypes, WindowTypes, WrittenBuf, KeptBuf
<1>3. CASE owner_fast
  <2>1. fast_state = "WRITE" /\ fast_wr_idx = beat
    BY <1>3 DEF DInv, WindowRequest, WindowCounts, fast_owns, Passed
  <2> QED
    BY <1>1, <1>2, <1>3, <2>1, PositionSplits
    DEF sd_wr_data, fast_wr_data, WrittenHalf, WrittenBuf, KeptBuf, Buffers
<1>4. CASE ~owner_fast
  <2>1. state = "WR_STREAM" /\ wr_widx = beat
    BY <1>4 DEF DInv, DriveRequest, DriveCounts, Transfers, Passed
  <2> QED
    BY <1>1, <1>2, <1>4, <2>1, PositionSplits
    DEF sd_wr_data, drive_wr_data, WrittenHalf, WrittenBuf, KeptBuf, Buffers
<1> QED
  BY <1>3, <1>4

\* The card is ready to write when it has been given a whole block.
LEMMA WholeBlock ==
  ASSUME DInv, IInv, xfer_busy, xfer_write, card = "write", beat = 2 * HalfBeats
  PROVE  /\ incoming \in Seq(Data) /\ Len(incoming) = 2 * HalfBeats
         /\ \A half \in Half, b \in Beats :
              incoming[At(half, b) + 1] = IF half = WrittenHalf THEN WrittenBuf[b]
                                          ELSE disk[Target][At(half, b)]
<1>1. incoming \in Seq(Data) /\ Len(incoming) = 2 * HalfBeats
  BY DEF DInv, CardTypes, CardCounts
<1>2. SUFFICES ASSUME NEW half \in Half, NEW b \in Beats
               PROVE  incoming[At(half, b) + 1] = IF half = WrittenHalf THEN WrittenBuf[b]
                                                  ELSE disk[Target][At(half, b)]
  BY <1>1
<1>3. At(half, b) < beat
  BY AtSplits, SdDiskAssumption DEF Position
<1>4. incoming[At(half, b) + 1] = IF half = WrittenHalf THEN WrittenBuf[b] ELSE KeptBuf[b]
  BY <1>3 DEF DInv, Given
<1>5. half # WrittenHalf => half = Other(WrittenHalf)
  BY WriteIsLatest, HalfSplits
<1>6. half # WrittenHalf => KeptBuf[b] = disk[Target][At(half, b)]
  BY <1>5, WriteIsLatest DEF Holds
<1> QED
  BY <1>4, <1>6

\* A half of a block is on the card now, and all else is as it was.
PutHalf(lba, half, buf) ==
  \A l \in Lba, h \in Half, b \in Beats :
    disk'[l][At(h, b)] = IF l = lba /\ h = half THEN buf[b] ELSE disk[l][At(h, b)]

LEMMA CardMoveMeans ==
  ASSUME NEW commit, Moves(commit)
  PROVE  (card = "write" /\ card' = "write_end") \/ disk' = disk
<1>1. CardClock
  BY DEF Moves, Tick
<1> QED
  BY <1>1 DEF CardClock, CardMoves, CardReady, CardBegins, CardSends, CardTakes, CardWrites,
     CardAccepts, CardEnds, CardRests, cardVars

LEMMA DiskSteps ==
  ASSUME NEW commit, Moves(commit), disk' # disk
  PROVE  /\ xfer_busy /\ xfer_write /\ card = "write" /\ card' = "write_end"
         /\ Target \in Lba /\ WrittenHalf \in Half
         /\ disk' \in [Lba -> [Position -> Data]]
         /\ PutHalf(Target, WrittenHalf, WrittenBuf)
<1>1. card = "write" /\ card' = "write_end"
  BY CardMoveMeans
<1>2. xfer_busy /\ CardWorks /\ xfer_write
  <2>1. xfer_busy
    BY <1>1, CardBetween DEF Moves, IInv, Flags
  <2> QED
    BY <1>1, <2>1, TargetStays DEF CardCalled, CardWorks, Moves, DInv, CardTypes
<1>3. DInv /\ IInv /\ disk \in [Lba -> [Position -> Data]] /\ sec_addr = Target
  BY <1>2 DEF Moves, DInv, CardTypes, CardWorks
<1>4. CardWrites
  BY <1>1, <1>2, CardContinues DEF CardBegins, CardSends, CardTakes, CardEnds, CardRests, cardVars
<1>5. beat = 2 * HalfBeats /\ disk' = [disk EXCEPT ![Target] = [p \in Position |-> incoming[p + 1]]]
  BY <1>3, <1>4 DEF CardWrites, Written
<1>6. /\ incoming \in Seq(Data) /\ Len(incoming) = 2 * HalfBeats
      /\ \A half \in Half, b \in Beats :
              incoming[At(half, b) + 1] = IF half = WrittenHalf THEN WrittenBuf[b]
                                          ELSE disk[Target][At(half, b)]
  BY <1>1, <1>2, <1>3, <1>5, WholeBlock
<1>7. Target \in Lba /\ WrittenHalf \in Half
  BY <1>2, <1>3, WriteIsLatest
<1>8. [p \in Position |-> incoming[p + 1]] \in [Position -> Data]
  BY <1>6, SdDiskAssumption DEF Position
<1>9. disk' \in [Lba -> [Position -> Data]]
  BY <1>3, <1>5, <1>8
<1>10. ASSUME NEW l \in Lba, NEW h \in Half, NEW b \in Beats
       PROVE  disk'[l][At(h, b)] = IF l = Target /\ h = WrittenHalf THEN WrittenBuf[b]
                                   ELSE disk[l][At(h, b)]
  <2>1. At(h, b) \in Position
    BY AtSplits
  <2>2. CASE l = Target
    BY <1>3, <1>5, <1>6, <2>1, <2>2
  <2>3. CASE l # Target
    BY <1>3, <1>5, <2>3
  <2> QED
    BY <2>2, <2>3
<1> QED
  BY <1>1, <1>2, <1>7, <1>9, <1>10 DEF PutHalf
-----------------------------------------------------------------------------
(* The card's conjuncts. *)

LEMMA KeepsCardPhase ==
  ASSUME NEW commit, Moves(commit)
  PROVE  CardPhase'
<1>1. /\ SourceClock(commit) /\ CardClock /\ WindowClock /\ CardPhase /\ Flags /\ Flags'
      /\ xfer_write \in BOOLEAN
  BY DEF Moves, Tick, DInv, IInv, CardTypes
<1>6. card' = "init" => card = "init"
  BY <1>1 DEF CardClock, CardMoves, CardReady, CardBegins, CardSends, CardTakes, CardWrites,
     CardAccepts, CardEnds, CardRests, cardVars
<1>7. ASSUME card = "init" PROVE state' = "WAIT_SD" /\ fast_state' = "IDLE"
  <2>1. state = "WAIT_SD" /\ fast_state = "IDLE" /\ ~sd_init_done
    BY <1>1, <1>7 DEF CardPhase, sd_init_done
  <2>2. state' = "WAIT_SD"
    BY <1>1, <2>1 DEF SourceClock, SourceRemounts, SourceWaitsForCard, SourceMounts,
       SourceFlushes, SourceFetches, SourceMaps, SourceServesBlank, SourceRequests, SourceReads,
       SourceParks, SourceStreams, SourceAimsFlush, SourcePrereads, SourceIssues
  <2>3. fast_state' = "IDLE"
    BY <2>1, WindowCases DEF FastCommand, FastMayStart, FastIllegal, FastRefuses, FastIdle,
       FastWaits, FastWrites
  <2> QED
    BY <2>2, <2>3
<1>2. CASE ~xfer_busy /\ Grant = None
  <2>1. ~xfer_busy' /\ issue' = None /\ card' \in {"init", "wait"}
    BY <1>2, NoGrant, CardBetween
  <2> QED
    BY <1>6, <1>7, <2>1 DEF CardPhase, CardAtRest
<1>3. CASE Grant # None
  BY <1>1, <1>3, GrantMeans DEF CardPhase, CardCalled
<1>4. CASE xfer_busy /\ CardCalled
  <2>1. card' # "init" /\ xfer_busy' /\ CardWorks'
    BY <1>1, <1>4, CardStarts, TargetStays DEF CardWorks
  <2> QED
    BY <2>1 DEF CardPhase
<1>5. CASE xfer_busy /\ CardWorks
  BY <1>1, <1>5, CardContinues DEF CardPhase, CardWorks, CardEnds, CardAtRest
<1>8. ~xfer_busy \/ CardCalled \/ CardWorks
  BY <1>1 DEF CardPhase
<1> QED
  BY <1>2, <1>3, <1>4, <1>5, <1>6, <1>7, <1>8 DEF CardPhase

LEMMA KeepsCardCounts ==
  ASSUME NEW commit, Moves(commit)
  PROVE  CardCounts'
<1>1. CardCounts /\ CardClock /\ beat \in 0 .. 2 * HalfBeats /\ incoming \in Seq(Data)
  BY DEF Moves, Tick, DInv, CardTypes
<1>2. CASE CardReady \/ CardAccepts \/ CardBegins \/ CardEnds
  BY <1>1, <1>2 DEF CardCounts, CardReady, CardAccepts, CardBegins, CardEnds
<1>3. CASE CardSends
  BY <1>1, <1>3, SdDiskAssumption DEF CardCounts, CardSends
<1>4. CASE CardTakes
  <2>1. CASE card = "write" /\ beat < 2 * HalfBeats /\ card' = "req" /\ UNCHANGED <<beat, incoming>>
    BY <1>1, <2>1 DEF CardCounts
  <2>2. CASE card = "req" /\ card' = "write" /\ beat' = beat + 1
    <3>1. PICK x : incoming' = Append(incoming, x)
      BY <1>4, <2>2 DEF CardTakes
    <3>2. Len(incoming') = Len(incoming) + 1
      BY <1>1, <3>1
    <3> QED
      BY <1>1, <2>2, <3>2 DEF CardCounts
  <2> QED
    BY <1>4, <2>1, <2>2 DEF CardTakes
<1>5. CASE CardWrites
  BY <1>1, <1>5 DEF CardCounts, CardWrites
<1>6. CASE CardRests
  BY <1>1, <1>6 DEF CardCounts, CardRests, cardVars
<1> QED
  BY <1>1, <1>2, <1>3, <1>4, <1>5, <1>6 DEF CardClock, CardMoves

LEMMA TakesFrom ==
  ASSUME NEW commit, Moves(commit), card = "req" \/ card' = "req" \/ card' = "write"
  PROVE  xfer_busy /\ CardWorks /\ xfer_write /\ xfer_busy' /\ owner_fast' = owner_fast
         /\ card \in {"cmd24", "write", "req"} /\ xfer_write'
<1>1. xfer_busy
  <2>1. card' \in {"init", "wait"} \/ xfer_busy
    BY CardBetween DEF Moves, IInv, Flags
  <2>2. card \in {"init", "wait"} \/ xfer_busy
    BY CardBetween DEF Moves, IInv, Flags
  <2> QED
    BY <2>1, <2>2
<1>2. CASE CardCalled
  BY <1>1, <1>2, CardStarts
<1>3. CASE CardWorks
  <2>1. card \notin {"read_end", "write_end"}
    BY <1>1, <1>3, CardContinues DEF CardEnds
  <2>2. CardWorks' /\ xfer_busy' /\ xfer_write' = xfer_write /\ owner_fast' = owner_fast
        /\ xfer_write \in BOOLEAN
    BY <1>1, <1>3, <2>1, CardContinues, TargetStays DEF Moves, DInv, CardTypes
  <2> QED
    BY <1>1, <1>3, <2>1, <2>2 DEF CardWorks
<1> QED
  BY <1>1, <1>2, <1>3, TargetStays

LEMMA KeepsGiven ==
  ASSUME NEW commit, Moves(commit)
  PROVE  Given'
<1>1. SUFFICES ASSUME card' \in {"write", "req"}, NEW half \in Half, NEW b \in Beats, At(half, b) < beat'
               PROVE  incoming'[At(half, b) + 1] = IF half = WrittenHalf' THEN WrittenBuf'[b]
                                                   ELSE KeptBuf'[b]
  BY DEF Given
<1>2. /\ xfer_busy /\ CardWorks /\ xfer_write /\ card \in {"cmd24", "write", "req"}
      /\ WrittenHalf' = WrittenHalf /\ WrittenBuf' = WrittenBuf /\ KeptBuf' = KeptBuf
      /\ DInv /\ IInv
  BY <1>1, TakesFrom, WriteBuffersStay, TargetStays DEF Moves
<1>3. /\ Given /\ CardCounts /\ beat \in 0 .. 2 * HalfBeats /\ incoming \in Seq(Data)
      /\ At(half, b) \in Nat
  BY <1>2, AtSplits DEF DInv, CardTypes
<1>4. CASE UNCHANGED <<beat, incoming>>
  <2>1. card # "cmd24"
    BY <1>1, <1>3, <1>4 DEF CardCounts
  <2> QED
    BY <1>1, <1>2, <1>3, <1>4, <2>1 DEF Given
<1>5. CASE ~UNCHANGED <<beat, incoming>>
  <2>1. CardTakes
    BY <1>1, <1>2, <1>5, CardContinues DEF CardBegins, CardSends, CardWrites, CardEnds, CardRests,
       cardVars
  <2>2. card = "req" /\ beat' = beat + 1
    BY <1>5, <2>1 DEF CardTakes
  <2>3. PICK elsewhere : incoming' = Append(incoming, sd_wr_data(elsewhere))
    BY <2>1, <2>2 DEF CardTakes
  <2>4. Len(incoming) = beat
    BY <1>3, <2>2 DEF CardCounts
  <2>5. /\ sd_wr_data(elsewhere) = IF half_of(beat) = WrittenHalf THEN WrittenBuf[beat % HalfBeats]
                                    ELSE KeptBuf[beat % HalfBeats]
        /\ sd_wr_data(elsewhere) \in Data
    BY <1>2, <2>2, OfferedBeat
  <2> HIDE DEF sd_wr_data
  <2>6. CASE At(half, b) < beat
    <3>1. incoming'[At(half, b) + 1] = incoming[At(half, b) + 1]
      BY <1>3, <2>3, <2>4, <2>5, <2>6
    <3> QED
      BY <1>2, <1>3, <2>2, <2>6, <3>1 DEF Given
  <2>7. CASE At(half, b) = beat
    <3>1. incoming'[At(half, b) + 1] = sd_wr_data(elsewhere)
      BY <1>3, <2>3, <2>4, <2>5, <2>7
    <3>2. half_of(beat) = half /\ beat % HalfBeats = b
      BY <2>7, AtSplits
    <3> QED
      BY <1>2, <2>5, <3>1, <3>2
  <2> QED
    BY <1>1, <1>3, <2>2, <2>6, <2>7
<1> QED
  BY <1>4, <1>5

LEMMA KeepsCardTypes ==
  ASSUME NEW commit, Moves(commit)
  PROVE  CardTypes'
<1>1. /\ CardTypes /\ CardClock /\ Data' = Data /\ Lba' = Lba /\ DInv /\ IInv
  BY UsesStay DEF Moves, Tick, DInv
<1>2. xfer_write' \in BOOLEAN
  BY <1>1, GrantMeans, NoGrant DEF CardTypes
<1>3. beat' \in 0 .. 2 * HalfBeats
  BY <1>1, SdDiskAssumption DEF CardTypes, CardCounts, DInv, CardClock, CardMoves, CardReady, CardBegins, CardSends,
     CardTakes, CardWrites, CardAccepts, CardEnds, CardRests, cardVars
<1>4. sec_addr' \in Lba
  <2>1. CASE xfer_busy /\ CardCalled
    BY <1>1, <2>1, CardStarts, TargetStays DEF DInv, SourceTypes, WindowTypes, Target
  <2>2. CASE ~xfer_busy
    BY <1>1, <2>2, CardBetween DEF SameCard, CardTypes
  <2>3. CASE xfer_busy /\ CardWorks
    <3>1. sec_addr' = sec_addr
      BY <2>3, CardContinues DEF CardBegins, CardSends, CardTakes, CardWrites, CardEnds,
         CardRests, cardVars
    <3> QED
      BY <1>1, <3>1 DEF CardTypes
  <2> QED
    BY <2>1, <2>2, <2>3, TargetStays DEF Moves, IInv, Flags
<1>5. incoming' \in Seq(Data)
  <2>1. CASE CardTakes /\ card = "req"
    <3>1. xfer_busy /\ xfer_write
      BY <2>1, TakesFrom
    <3>2. PICK elsewhere : incoming' = Append(incoming, sd_wr_data(elsewhere))
      BY <2>1 DEF CardTakes
    <3>3. sd_wr_data(elsewhere) \in Data
      BY <1>1, <2>1, <3>1, OfferedBeat
    <3> QED
      BY <1>1, <3>2, <3>3 DEF CardTypes
  <2>2. CASE ~(CardTakes /\ card = "req")
    <3>1. incoming' = incoming \/ incoming' = <<>>
      BY <1>1, <2>2 DEF CardClock, CardMoves, CardReady, CardBegins, CardSends, CardTakes,
         CardWrites, CardAccepts, CardEnds, CardRests, cardVars
    <3>2. incoming \in Seq(Data) /\ <<>> \in Seq(Data)
      BY <1>1 DEF CardTypes
    <3> QED
      BY <3>1, <3>2
  <2> QED
    BY <2>1, <2>2
<1>6. cmd_error' \in BOOLEAN
  BY <1>1 DEF CardTypes, CardClock, CardMoves, CardReady, CardBegins, CardSends,
     CardTakes, CardWrites, CardAccepts, CardEnds, CardRests, cardVars
<1>7. disk' \in [Lba -> [Position -> Data]]
  BY <1>1, DiskSteps DEF CardTypes
<1> QED
  BY <1>1, <1>2, <1>3, <1>4, <1>5, <1>6, <1>7, LatestMoves DEF CardTypes

LEMMA KeepsCardTook ==
  ASSUME NEW commit, Moves(commit)
  PROVE  CardTook'
<1>1. /\ CardTook /\ CardClock /\ CardRejects' = CardRejects /\ DInv /\ IInv
      /\ disk \in [Lba -> [Position -> Data]]
  BY UsesStay DEF Moves, Tick, DInv, CardTypes
<1>2. cmd_error' => CardRejects
  BY <1>1 DEF CardTook, CardClock, CardMoves, CardReady, CardBegins, CardSends, CardTakes,
     CardWrites, CardAccepts, CardEnds, CardRests, cardVars
<1>3. ASSUME card' = "write_end", ~cmd_error'
      PROVE  Holds(WrittenBuf', disk'[Target'], WrittenHalf')
  <2>1. xfer_busy /\ CardWorks
    <3>1. xfer_busy
      BY <1>3, CardBetween DEF Moves, IInv, Flags
    <3> QED
      BY <1>3, <3>1, CardStarts, TargetStays
  <2>2. card # "write_end"
    BY <1>3, <2>1, CardContinues DEF CardEnds
  <2>3. xfer_busy /\ xfer_write /\ card = "write" /\ CardWrites
    BY <1>3, <2>1, <2>2, CardContinues
    DEF CardWorks, CardBegins, CardSends, CardTakes, CardWrites, CardEnds, CardRests, cardVars,
        Moves, DInv, CardTypes
  <2>4. /\ WrittenHalf' = WrittenHalf /\ WrittenBuf' = WrittenBuf /\ Target' = Target
        /\ Target \in Lba
    BY <1>1, <2>3, WriteBuffersStay, TargetStays, WriteIsLatest
  <2>5. disk' = [disk EXCEPT ![Target] = [p \in Position |-> incoming[p + 1]]] /\ beat = 2 * HalfBeats
    BY <1>3, <2>1, <2>3 DEF CardWrites, Written, CardWorks
  <2>6. ASSUME NEW b \in Beats
        PROVE  WrittenBuf[b] = disk'[Target][At(WrittenHalf, b)]
    <3>1. WrittenHalf \in Half /\ At(WrittenHalf, b) \in Position
      BY <1>1, <2>3, WriteIsLatest, AtSplits
    <3>2. incoming[At(WrittenHalf, b) + 1] = WrittenBuf[b]
      BY <1>1, <2>3, <2>5, <3>1, WholeBlock
    <3> QED
      BY <1>1, <2>4, <2>5, <3>1, <3>2
  <2> QED
    BY <2>4, <2>6 DEF Holds
<1> QED
  BY <1>1, <1>2, <1>3 DEF CardTook
-----------------------------------------------------------------------------
(* The drive's conjuncts. *)

LEMMA HalfDataIs ==
  ASSUME NEW lba \in Lba, NEW half \in Half, NEW ver \in Nat
  PROVE  /\ HalfData(lba, half, ver) \in Buffers
         /\ \A b \in Beats : HalfData(lba, half, ver)[b] = <<lba, At(half, b), ver>>
BY AtSplits DEF HalfData, Buffers, Beats, Data, At

\* The beat on the line is the transfer's next.
LEMMA ReadBeat ==
  ASSUME NEW commit, Moves(commit), xfer_busy, card = "beat"
  PROVE  /\ ~xfer_write /\ Target \in Lba /\ beat \in Position
         /\ read_data = disk[Target][beat] /\ read_data \in Data
<1>1. CardWorks /\ ~xfer_write
  BY TargetStays DEF CardCalled, CardWorks, Moves, DInv, CardTypes
<1>2. Target \in Lba /\ disk \in [Lba -> [Position -> Data]] /\ beat \in 0 .. 2 * HalfBeats
      /\ beat < 2 * HalfBeats
  BY DEF Moves, DInv, SourceTypes, WindowTypes, CardTypes, CardCounts, Target
<1>3. beat \in Position
  BY <1>2, SdDiskAssumption DEF Position
<1> QED
  BY <1>1, <1>2, <1>3 DEF CardWorks, read_data

\* A waiting source stays where it is until its transfer ends.
LEMMA WaitsOn ==
  ASSUME NEW commit, Moves(commit), Waits
  PROVE  /\ ~(Transfers /\ TransferEnds) => state' = state
         /\ Transfers /\ TransferEnds => ~Waits'
<1>1. ~Transfers => ~drive_read_end /\ ~drive_write_end
  BY DEF Transfers, drive_read_end, drive_write_end, drive_reads, drive_writes
<1>2. xfer_write \in BOOLEAN /\ Flags /\ DriveRequest
  BY DEF Moves, DInv, CardTypes, IInv
<1>3. Transfers => (TransferEnds <=> IF xfer_write THEN drive_write_end ELSE drive_read_end)
  BY <1>2 DEF Transfers, TransferEnds, drive_read_end, drive_write_end, drive_reads, drive_writes, Flags
<1>4. Transfers => IF xfer_write THEN state = "WR_STREAM" ELSE Reads
  BY <1>2 DEF DriveRequest
<1>5. CASE SourceReads(commit)
  BY <1>1, <1>2, <1>3, <1>4, <1>5 DEF SourceReads, Waits, Reads
<1>6. CASE SourceParks(commit, FALSE)
  BY <1>1, <1>2, <1>3, <1>4, <1>6 DEF SourceParks, Waits, Reads
<1>7. CASE SourceStreams(commit, FALSE)
  BY <1>1, <1>2, <1>3, <1>4, <1>7 DEF SourceStreams, Waits, Reads
<1> QED
  BY <1>5, <1>6, <1>7, SourceInWaits

\* Where a source comes from that has just begun to wait.
LEMMA BeginsToWait ==
  ASSUME NEW commit, Moves(commit), ~Waits, Waits'
  PROVE  /\ \/ SourceRequests(commit) \/ SourcePrereads(commit) \/ SourceIssues(commit)
         /\ ~Transfers' /\ ~Latched' /\ sec_buf' = sec_buf
         /\ UNCHANGED <<target_lba, upper_half, wr_upper_half, fetch, active, mounted, raw_pos,
                        wr_widx, loaded, blank_sector, id_fetch, disk_id>>
<1>1. SourceClock(commit) /\ ArbiterClock /\ IInv
  BY DEF Moves, Tick
<1>2. SourceRequests(commit) \/ SourcePrereads(commit) \/ SourceIssues(commit)
  BY <1>1 DEF SourceClock, Waits, SourceRemounts, FetchBam, SourceWaitsForCard, SourceMounts,
     SourceFlushes, SourceFetches, SourceMaps, SourceServesBlank, SourceReads, SourceParks,
     SourceStreams, SourceAimsFlush
<1>3. sec_buf' = sec_buf
  BY <1>1 DEF SourceClock, StoreBeat, sec_wr_en, Waits
<1>4. UNCHANGED <<target_lba, upper_half, wr_upper_half, fetch, active, mounted, raw_pos, wr_widx,
                  loaded, blank_sector, id_fetch, disk_id>>
  BY <1>2 DEF SourceRequests, SourcePrereads, SourceIssues, KeepWrite, KeepImage, KeepFetch,
     KeepLoaded
<1> QED
  BY <1>1, <1>2, <1>3, <1>4, ArbiterAtRest

LEMMA KeepsDriveRequest ==
  ASSUME NEW commit, Moves(commit)
  PROVE  DriveRequest'
<1>1. /\ DriveRequest /\ IInv /\ IInv' /\ ArbiterClock /\ Flags /\ Flags' /\ OnePlace
      /\ xfer_write \in BOOLEAN
  BY DEF Moves, DInv, Tick, IInv, CardTypes
<1>2. CASE ~Waits /\ Waits'
  BY <1>2, BeginsToWait DEF DriveRequest, SourceRequests, SourcePrereads, SourceIssues, Pulses,
     Latched, Reads
<1>3. CASE ~Waits'
  BY <1>1, <1>3 DEF IInv, RestIsRest, DriveRequest, Pulsed, Latched
<1>4. CASE Waits /\ Waits'
  <2>1. ~sd_read_r' /\ ~sd_write_r' /\ target_lba' = target_lba /\ state' = state
        /\ ~(Transfers /\ TransferEnds)
    BY <1>4, SourceKeepsAim, WaitsOn
  <2>2. Reads' = Reads
    BY <2>1 DEF Reads
  <2>3. drive_req' # None => drive_req' = target_lba /\ Reads
    BY <1>1 DEF ArbiterClock, LatchDrive, DriveRequest
  <2>4. drive_wrreq' # None => drive_wrreq' = target_lba /\ state = "WR_STREAM"
    BY <1>1 DEF ArbiterClock, LatchDrive, DriveRequest
  <2>5. Transfers' => IF xfer_write' THEN state = "WR_STREAM" ELSE Reads
    <3>1. CASE Grant # None
      BY <3>1, GrantMeans DEF Transfers
    <3>2. CASE Grant = None
      <4>1. Transfers' => Transfers
        BY <3>2, NoGrant DEF Transfers
      <4>2. xfer_write' = xfer_write
        BY <3>2, NoGrant
      <4>3. Transfers => IF xfer_write THEN state = "WR_STREAM" ELSE Reads
        BY <1>1 DEF DriveRequest
      <4> QED
        BY <4>1, <4>2, <4>3
    <3> QED
      BY <3>1, <3>2
  <2> QED
    BY <2>1, <2>2, <2>3, <2>4, <2>5 DEF DriveRequest
<1> QED
  BY <1>2, <1>3, <1>4

\* The other side's count of a transfer, in its clocks.
LEMMA ReadProgress ==
  ASSUME NEW commit, Moves(commit), xfer_busy, ~xfer_write, ~TransferEnds
  PROVE  /\ Passed("read_end") \in Nat /\ Passed("read_end") <= 2 * HalfBeats
         /\ card = "beat" => /\ Passed("read_end") = beat /\ beat < 2 * HalfBeats
                             /\ Passed("read_end")' = Passed("read_end") + 1
         /\ card # "beat" => Passed("read_end")' = Passed("read_end")
<1>1. CardCalled \/ CardWorks
  BY TargetStays
<1>2. CardCounts /\ beat \in 0 .. 2 * HalfBeats
  BY DEF Moves, DInv, CardTypes
<1>3. CASE CardCalled
  <2>1. card = "wait" /\ card' = "cmd17" /\ beat' = beat
    BY <1>3, CardStarts
  <2> QED
    BY <1>2, <2>1, SdDiskAssumption DEF Passed
<1>4. CASE CardWorks
  <2>1. card \in {"cmd17", "read", "beat"}
    BY <1>4 DEF CardWorks, TransferEnds
  <2>2. /\ CardBegins \/ CardSends \/ CardRests
        /\ CardClock
    BY <1>4, <2>1, CardContinues DEF CardTakes, CardWrites, CardEnds, Moves, Tick
  <2>3. CASE card = "beat"
    <3>1. CardSends
      BY <2>2, <2>3 DEF CardClock, CardMoves, CardReady, CardBegins, CardTakes, CardWrites,
         CardAccepts, CardEnds, CardHurries
    <3>2. card' = "read" /\ beat' = beat + 1 /\ beat < 2 * HalfBeats
      BY <1>2, <2>3, <3>1 DEF CardSends, CardCounts
    <3> QED
      BY <1>2, <2>3, <3>2, SdDiskAssumption DEF Passed
  <2>4. CASE card # "beat"
    <3>1. \/ card' # "read_end" /\ beat' = beat
          \/ card' = "read_end" /\ beat = 2 * HalfBeats
      BY <2>1, <2>2, <2>4 DEF CardBegins, CardSends, CardRests, cardVars
    <3>2. Passed("read_end") = beat
      BY <2>1 DEF Passed
    <3>3. Passed("read_end")' = beat
      BY <3>1 DEF Passed
    <3> QED
      BY <1>2, <2>4, <3>2, <3>3, SdDiskAssumption
  <2> QED
    BY <2>3, <2>4
<1> QED
  BY <1>1, <1>3, <1>4

LEMMA WriteProgress ==
  ASSUME NEW commit, Moves(commit), xfer_busy, xfer_write, ~TransferEnds
  PROVE  /\ Passed("write_end") \in Nat /\ Passed("write_end") <= 2 * HalfBeats
         /\ card = "req" => /\ Passed("write_end") = beat /\ beat < 2 * HalfBeats
                            /\ Passed("write_end")' = Passed("write_end") + 1
         /\ card # "req" => Passed("write_end")' = Passed("write_end")
<1>1. CardCalled \/ CardWorks
  BY TargetStays
<1>2. CardCounts /\ beat \in 0 .. 2 * HalfBeats
  BY DEF Moves, DInv, CardTypes
<1>3. CASE CardCalled
  <2>1. card = "wait" /\ card' = "cmd24" /\ beat' = beat
    BY <1>3, CardStarts
  <2> QED
    BY <1>2, <2>1, SdDiskAssumption DEF Passed
<1>4. CASE CardWorks
  <2>1. card \in {"cmd24", "write", "req"}
    BY <1>4 DEF CardWorks, TransferEnds
  <2>2. /\ CardBegins \/ CardTakes \/ CardWrites \/ CardRests
        /\ CardClock
    BY <1>4, <2>1, CardContinues DEF CardSends, CardEnds, Moves, Tick
  <2>3. CASE card = "req"
    <3>1. CardTakes
      BY <2>2, <2>3 DEF CardClock, CardMoves, CardReady, CardBegins, CardSends, CardWrites,
         CardAccepts, CardEnds, CardHurries
    <3>2. card' = "write" /\ beat' = beat + 1 /\ beat < 2 * HalfBeats
      BY <1>2, <2>3, <3>1 DEF CardTakes, CardCounts
    <3> QED
      BY <1>2, <2>3, <3>2, SdDiskAssumption DEF Passed
  <2>4. CASE card # "req"
    <3>1. \/ card' # "write_end" /\ beat' = beat
          \/ card' = "write_end" /\ beat = 2 * HalfBeats
      BY <2>1, <2>2, <2>4 DEF CardBegins, CardTakes, CardWrites, CardRests, cardVars
    <3>2. Passed("write_end") = beat
      BY <2>1 DEF Passed
    <3>3. Passed("write_end")' = beat
      BY <3>1 DEF Passed
    <3> QED
      BY <1>2, <2>4, <3>2, <3>3, SdDiskAssumption
  <2> QED
    BY <2>3, <2>4
<1> QED
  BY <1>1, <1>3, <1>4

LEMMA NothingPassed ==
  ASSUME NEW commit, Moves(commit), ~xfer_busy, xfer_busy', NEW end, end # "wait"
  PROVE  Passed(end)' = 0
<1>1. Grant # None /\ card' = "wait"
  BY NoGrant, GrantMeans
<1>2. CardCounts'
  BY KeepsCardCounts
<1> QED
  BY <1>1, <1>2 DEF Passed, CardCounts

LEMMA KeepsDriveCounts ==
  ASSUME NEW commit, Moves(commit)
  PROVE  DriveCounts'
<1>1. /\ DriveCounts /\ DriveRequest /\ SourceClock(commit) /\ Flags /\ Flags'
      /\ xfer_write \in BOOLEAN /\ raw_pos \in Nat /\ wr_widx \in Nat
  BY DEF Moves, DInv, Tick, IInv, CardTypes, SourceTypes
<1>2. state' \in {"DRV_STARTED", "WR_RMW_START"} => raw_pos' = 0
  BY <1>1, SourceInWaits DEF Waits, SourceClock, SourceRemounts, FetchBam, SourceWaitsForCard,
     SourceMounts, SourceFlushes, SourceFetches, SourceMaps, SourceServesBlank, SourceRequests,
     SourceReads, SourceParks, SourceStreams, SourceAimsFlush, SourcePrereads, SourceIssues
<1>3. state' = "WR_ISSUE" => wr_widx' = 0
  BY <1>1, SourceInWaits DEF Waits, SourceClock, SourceRemounts, FetchBam, SourceWaitsForCard,
     SourceMounts, SourceFlushes, SourceFetches, SourceMaps, SourceServesBlank, SourceRequests,
     SourceReads, SourceParks, SourceStreams, SourceAimsFlush, SourcePrereads, SourceIssues
<1>4. ASSUME Reads' PROVE raw_pos' = IF Transfers' THEN Passed("read_end")' ELSE 0
  <2>1. CASE ~Waits
    <3>1. Waits'
      BY <1>4 DEF Waits, Reads
    <3>2. state \in {"DRV_STARTED", "WR_RMW_START"}
      BY <1>4, <2>1, <3>1, BeginsToWait DEF SourceRequests, SourcePrereads, SourceIssues, Reads
    <3> QED
      BY <1>1, <2>1, <3>1, <3>2, BeginsToWait DEF DriveCounts
  <2>2. CASE Waits
    <3>1. Reads /\ state' = state /\ ~(Transfers /\ TransferEnds)
      BY <1>4, <2>2, WaitsOn DEF Reads, Waits
    <3>2. raw_pos' = IF drive_valid THEN (raw_pos + 1) % (4 * HalfBeats) ELSE raw_pos
      BY <2>2, <3>1, SourceInWaits DEF SourceReads, SourceParks, SourceStreams, CountBeat, Reads
    <3>3. CASE ~Transfers
      <4>1. raw_pos' = 0
        BY <1>1, <3>1, <3>2, <3>3 DEF DriveCounts, drive_valid, drive_reads, Transfers
      <4>2. Transfers' => ~xfer_busy /\ xfer_busy'
        BY <1>1, <3>3, NoGrant, GrantMeans DEF Transfers, Flags
      <4> QED
        BY <1>1, <4>1, <4>2, NothingPassed DEF Flags
    <3>4. CASE Transfers
      <4>1. xfer_busy /\ ~xfer_write /\ ~TransferEnds /\ raw_pos = Passed("read_end")
        BY <1>1, <3>1, <3>4 DEF DriveRequest, DriveCounts, Transfers, Reads
      <4>2. Transfers'
        BY <3>4, <4>1, TargetStays, NoGrant DEF Transfers
      <4>3. drive_valid <=> card = "beat"
        BY <3>4, <4>1 DEF drive_valid, drive_reads, Transfers
      <4>4. card = "beat" => raw_pos < 2 * HalfBeats
        BY <4>1, ReadProgress
      <4>5. raw_pos' = IF card = "beat" THEN raw_pos + 1 ELSE raw_pos
        BY <1>1, <3>2, <4>3, <4>4, NextBeat
      <4> QED
        BY <4>1, <4>2, <4>5, ReadProgress
    <3> QED
      BY <3>3, <3>4
  <2> QED
    BY <2>1, <2>2
<1>5. ASSUME state' = "WR_STREAM" PROVE wr_widx' = IF Transfers' THEN Passed("write_end")' ELSE 0
  <2>1. CASE ~Waits
    <3>1. Waits'
      BY <1>5 DEF Waits
    <3>2. state = "WR_ISSUE"
      BY <1>5, <2>1, <3>1, BeginsToWait DEF SourceRequests, SourcePrereads, SourceIssues
    <3> QED
      BY <1>1, <2>1, <3>1, <3>2, BeginsToWait DEF DriveCounts
  <2>2. CASE Waits
    <3>1. state = "WR_STREAM" /\ state' = state /\ ~(Transfers /\ TransferEnds)
      BY <1>5, <2>2, WaitsOn DEF Waits
    <3>2. wr_widx' = IF drive_data_req THEN (wr_widx + 1) % (4 * HalfBeats) ELSE wr_widx
      BY <2>2, <3>1, SourceInWaits DEF SourceReads, SourceParks, SourceStreams
    <3>3. CASE ~Transfers
      <4>1. wr_widx' = 0
        BY <1>1, <3>1, <3>2, <3>3 DEF DriveCounts, drive_data_req, drive_writes, Transfers
      <4>2. Transfers' => ~xfer_busy /\ xfer_busy'
        BY <1>1, <3>3, NoGrant, GrantMeans DEF Transfers, Flags
      <4> QED
        BY <1>1, <4>1, <4>2, NothingPassed DEF Flags
    <3>4. CASE Transfers
      <4>1. xfer_busy /\ xfer_write /\ ~TransferEnds /\ wr_widx = Passed("write_end")
        BY <1>1, <3>1, <3>4 DEF DriveRequest, DriveCounts, Transfers, Reads
      <4>2. Transfers'
        BY <3>4, <4>1, TargetStays, NoGrant DEF Transfers
      <4>3. drive_data_req <=> card = "req"
        BY <3>4, <4>1 DEF drive_data_req, drive_writes, Transfers
      <4>4. card = "req" => wr_widx < 2 * HalfBeats
        BY <4>1, WriteProgress
      <4>5. wr_widx' = IF card = "req" THEN wr_widx + 1 ELSE wr_widx
        BY <1>1, <3>2, <4>3, <4>4, NextBeat
      <4> QED
        BY <4>1, <4>2, <4>5, WriteProgress
    <3> QED
      BY <3>3, <3>4
  <2> QED
    BY <2>1, <2>2
<1> QED
  BY <1>2, <1>3, <1>4, <1>5 DEF DriveCounts

LEMMA KeepsMountsQuietly ==
  ASSUME NEW commit, Moves(commit)
  PROVE  MountsQuietly'
BY DEF Moves, Tick, MountsAtRest, MountsQuietly

\* What a source does that no mount disturbs.
LEMMA SourceCases ==
  ASSUME NEW commit, Moves(commit), ~mount_strobe
  PROVE  \/ SourceWaitsForCard(commit) \/ SourceMounts(commit) \/ SourceFlushes
         \/ SourceFetches(commit) \/ SourceMaps(commit) \/ SourceServesBlank(commit)
         \/ SourceRequests(commit) \/ SourceReads(commit) \/ SourceAimsFlush(commit)
         \/ SourcePrereads(commit) \/ SourceIssues(commit)
         \/ SourceParks(commit, FALSE) \/ SourceStreams(commit, FALSE)
<1>1. SourceClock(commit) /\ MayTimeout("drive") = {FALSE}
  BY NoTimeout DEF Moves, Tick
<1> QED
  BY <1>1 DEF SourceClock, SourceRemounts

\* The image under a pending write or a burst does not change.
LEMMA ImageStays ==
  ASSUME NEW commit, Moves(commit), ~mount_strobe
  PROVE  active' = active
BY SourceCases DEF SourceWaitsForCard, SourceMounts, SourceFlushes, SourceFetches, SourceMaps,
     SourceServesBlank, SourceRequests, SourceReads, SourceParks, SourceStreams,
     SourceAimsFlush, SourcePrereads, SourceIssues, KeepImage

LEMMA WriteGoesOn ==
  ASSUME NEW commit, Moves(commit), wr_busy', ~commit
  PROVE  wr_busy
BY DEF Moves, Tick, wr_busy, flushing, SourceClock, SourceRemounts, FetchBam, SourceWaitsForCard,
     SourceMounts, SourceFlushes, SourceFetches, SourceMaps, SourceServesBlank, SourceRequests,
     SourceReads, SourceParks, SourceStreams, SourceAimsFlush, SourcePrereads, SourceIssues, Pend

LEMMA KeepsBursts ==
  ASSUME NEW commit, Moves(commit)
  PROVE  Bursts'
<1>1. /\ Bursts /\ MountsQuietly /\ GcrClock(commit) /\ SourceClock(commit) /\ MountsAtRest
      /\ IInv /\ SidesApart /\ commit \in BOOLEAN /\ active \in Images
      /\ DriveTargets' = DriveTargets
  BY UsesStay DEF Moves, Tick, DInv, SourceTypes
<1>2. /\ DriveTargets \subseteq Sectors
      /\ \A img \in Images, s \in Sectors : img + s \div 2 \in Lba /\ s % 2 \in Half
  BY <1>1, UseFacts
<1>3. ASSUME writing' PROVE wanted' \in DriveTargets /\ burst_image' = active'
  <2>1. ~mount_strobe /\ ~commit
    BY <1>1, <1>3, BurstCommits DEF MountsAtRest
  <2>2. active' = active
    BY <2>1, ImageStays
  <2>3. BurstBegins \/ BurstRuns
    BY <1>1, <1>3, <2>1 DEF GcrClock, HeadMoves, BurstEnds
  <2> QED
    BY <1>1, <2>2, <2>3 DEF BurstBegins, BurstRuns, gcrVars, Bursts
<1>4. ASSUME wr_busy'
      PROVE  /\ wr_sector' \in DriveTargets
             /\ wr_buf' = HalfData(active' + wr_sector' \div 2, wr_sector' % 2,
                                   latest'[active' + wr_sector' \div 2][wr_sector' % 2])
  <2>1. CASE commit
    <3> DEFINE lba == active + wanted \div 2
               half == wanted % 2
    <3>1. /\ ~mount_strobe /\ wanted \in DriveTargets /\ Burst = <<lba, half>>
          /\ wr_sector' = wanted /\ wr_buf' = HalfData(lba, half, latest[lba][half] + 1)
      BY <2>1, BurstCommits
    <3>2. active' = active
      BY <3>1, ImageStays
    <3>3. lba \in Lba /\ half \in Half
      BY <1>1, <1>2, <3>1
    <3>4. wr_sector' \in DriveTargets /\ active' + wr_sector' \div 2 = lba /\ wr_sector' % 2 = half
      BY <3>1, <3>2
    <3> HIDE DEF lba, half
    <3>5. latest'[lba][half] = latest[lba][half] + 1
      BY <2>1, <3>1, <3>3, LatestMoves
    <3> QED
      BY <3>1, <3>4, <3>5
  <2>2. CASE ~commit
    <3> DEFINE lba == active + wr_sector \div 2
               half == wr_sector % 2
    <3>1. wr_busy
      BY <1>4, <2>2, WriteGoesOn
    <3>2. ~mount_strobe
      BY <1>1, <3>1 DEF MountsQuietly, wr_busy, flushing
    <3>3. active' = active /\ wr_sector' = wr_sector /\ wr_buf' = wr_buf
      BY <2>2, <3>2, ImageStays, BurstCommits
    <3>4. wr_sector \in DriveTargets /\ wr_buf = HalfData(lba, half, latest[lba][half])
      BY <1>1, <3>1 DEF Bursts
    <3>5. lba \in Lba /\ half \in Half /\ DriveHalf(lba, half)
      BY <1>1, <1>2, <3>4 DEF DriveHalf
    <3>6. wr_sector' \in DriveTargets /\ active' + wr_sector' \div 2 = lba /\ wr_sector' % 2 = half
      BY <3>3, <3>4
    <3> HIDE DEF lba, half
    <3>7. ~Begins(lba, half)
      BY <1>1, <3>5, WindowBegins, HalvesApart
    <3>8. latest'[lba][half] = latest[lba][half]
      BY <2>2, <3>5, <3>7, LatestMoves
    <3> QED
      BY <3>3, <3>4, <3>6, <3>8
  <2> QED
    BY <1>1, <2>1, <2>2
<1> QED
  BY <1>1, <1>3, <1>4 DEF Bursts

LEMMA KeepsAims ==
  ASSUME NEW commit, Moves(commit)
  PROVE  Aims'
<1>1. /\ Aims /\ Bursts /\ SourceClock(commit) /\ MountsQuietly /\ fetch \in WantedSectors
      /\ Sectors' = Sectors
  BY UsesStay DEF Moves, Tick, DInv, SourceTypes
<1>2. ASSUME mount_strobe PROVE Aims'
  <2>1. SourceRemounts
    BY <1>1, <1>2 DEF SourceClock
  <2> QED
    BY <2>1 DEF SourceRemounts, FetchBam, Aims, flushing
<1>3. ASSUME ~mount_strobe PROVE Aims'
  <2>1. active' = active
    BY <1>3, ImageStays
  <2>2. flushing => wr_sector' = wr_sector
    BY BurstCommits DEF wr_busy
  <2>3. CASE Waits
    BY <1>1, <2>1, <2>2, <2>3, SourceKeepsAim, SourceInWaits
    DEF SourceReads, SourceParks, SourceStreams, Aims, Waits, flushing
  <2>4. CASE SourceRequests(commit) \/ SourcePrereads(commit) \/ SourceIssues(commit)
    BY <1>1, <2>1, <2>2, <2>4
    DEF SourceRequests, SourcePrereads, SourceIssues, KeepFetch, KeepWrite, KeepLoaded, Aims, flushing
  <2>5. CASE SourceMaps(commit)
    <3>1. fetch \in Sectors
      BY <1>1, <2>5 DEF SourceMaps, map_valid, WantedSectors
    <3> QED
      BY <1>1, <2>1, <2>5, <3>1 DEF SourceMaps, Aim, Aims, flushing
  <2>6. CASE SourceAimsFlush(commit)
    <3>1. flushing /\ fetch = wr_sector
      BY <1>1, <2>6 DEF SourceAimsFlush, flushing, Aims
    <3> QED
      BY <1>1, <2>1, <2>2, <2>6, <3>1 DEF SourceAimsFlush, Aim, Aims, flushing
  <2>7. CASE SourceFlushes
    <3>1. wr_sector' = wr_sector
      BY <2>7, BurstCommits DEF SourceFlushes, wr_busy
    <3> QED
      BY <2>7, <3>1 DEF SourceFlushes, Aims, flushing
  <2>8. CASE SourceWaitsForCard(commit) \/ SourceMounts(commit) \/ SourceFetches(commit)
             \/ SourceServesBlank(commit)
    BY <2>8 DEF SourceWaitsForCard, SourceMounts, SourceFetches, SourceServesBlank, FetchBam,
       Aims, flushing
  <2> QED
    BY <1>3, <2>3, <2>4, <2>5, <2>6, <2>7, <2>8, SourceCases
    DEF SourceReads, SourceParks, SourceStreams, Waits
<1> QED
  BY <1>2, <1>3 DEF MountsQuietly

LEMMA KeepsSourceTypes ==
  ASSUME NEW commit, Moves(commit)
  PROVE  SourceTypes'
<1>1. /\ SourceTypes /\ SourceClock(commit) /\ GcrClock(commit) /\ WindowClock /\ IInv
      /\ TakeBurst(commit) /\ StoreBeat /\ commit \in BOOLEAN /\ Flags
      /\ latest \in [Lba -> [Half -> Nat]]
  BY DEF Moves, Tick, DInv, SourceClock, CardTypes, IInv
<1>2. UNCHANGED <<Images, Sectors, WantedSectors, Lba, Data, Buffers, DriveTargets>>
  BY UsesStay DEF Moves, Tick
<1>3. /\ DriveTargets \subseteq Sectors /\ 0 \in Sectors /\ Sectors \subseteq Nat
      /\ \A img \in Images, s \in Sectors : img + s \div 2 \in Lba /\ s % 2 \in Half
  BY <1>1, UseFacts
<1>4. wanted' \in WantedSectors /\ burst_image' \in Images
  BY <1>1, <1>2 DEF SourceTypes, GcrClock, HeadMoves, BurstBegins, BurstRuns, BurstEnds, gcrVars
<1>5. wr_sector' \in Sectors
  BY <1>1, <1>3, BurstCommits DEF SourceTypes
<1>6. wr_buf' \in Buffers
  <2>1. CASE commit
    <3>1. active \in Images /\ wanted \in Sectors
      BY <1>1, <1>3, <2>1, BurstCommits DEF SourceTypes
    <3>2. active + wanted \div 2 \in Lba /\ wanted % 2 \in Half
      BY <1>3, <3>1
    <3>3. latest[active + wanted \div 2][wanted % 2] + 1 \in Nat
      BY <1>1, <3>2
    <3> QED
      BY <2>1, <3>2, <3>3, BurstCommits, HalfDataIs
  <2>2. CASE ~commit
    BY <1>1, <2>2, BurstCommits DEF SourceTypes
  <2> QED
    BY <1>1, <2>1, <2>2
<1>7. sec_buf' \in Buffers
  <2>1. CASE sec_wr_en
    <3>1. drive_valid /\ xfer_busy /\ card = "beat"
      BY <2>1 DEF sec_wr_en, drive_valid, drive_reads
    <3>2. read_data \in Data
      BY <3>1, ReadBeat
    <3>3. raw_pos % HalfBeats \in Beats
      BY <1>1, SdDiskAssumption DEF SourceTypes, Beats
    <3> QED
      BY <1>1, <2>1, <3>2, <3>3 DEF StoreBeat, SourceTypes, Buffers
  <2>2. CASE ~sec_wr_en
    BY <1>1, <2>2 DEF StoreBeat, SourceTypes
  <2> QED
    BY <2>1, <2>2
<1>8. fast_mount_lba' \in Images
  BY <1>1, <1>2 DEF WindowClock, MountRegister, SourceTypes
<1>9. active' \in Images
  BY <1>1, ImageStays DEF SourceClock, SourceRemounts, SourceTypes
<1>10. (raw_pos + 1) % (4 * HalfBeats) \in Nat /\ (wr_widx + 1) % (4 * HalfBeats) \in Nat
  BY <1>1, SomeBeat DEF SourceTypes
<1>11. raw_pos' \in Nat /\ wr_widx' \in Nat
  <2>1. raw_pos \in Nat /\ wr_widx \in Nat
    BY <1>1 DEF SourceTypes
  <2>2. ASSUME Waits
        PROVE  /\ raw_pos' \in {(raw_pos + 1) % (4 * HalfBeats), raw_pos}
               /\ wr_widx' \in {(wr_widx + 1) % (4 * HalfBeats), 0, wr_widx}
    BY <2>2, SourceInWaits DEF SourceReads, SourceParks, SourceStreams, KeepWrite, CountBeat
  <2>3. ASSUME ~Waits
        PROVE  raw_pos' \in {0, raw_pos} /\ wr_widx' = wr_widx
    <3>1. CASE SourceRemounts
      BY <3>1 DEF SourceRemounts, KeepWrite
    <3>2. CASE SourceMaps(commit) \/ SourceAimsFlush(commit)
      BY <3>2 DEF SourceMaps, SourceAimsFlush, KeepWrite
    <3> QED
      BY <1>1, <2>3, <3>1, <3>2, SourceCases DEF SourceClock, SourceWaitsForCard,
         SourceMounts, SourceFlushes, SourceFetches, SourceServesBlank,
         SourceRequests, SourcePrereads, SourceIssues, SourceReads, SourceParks, SourceStreams,
         Waits, KeepWrite
  <2> QED
    BY <1>10, <2>1, <2>2, <2>3, SdDiskAssumption
<1>12. fetch' \in WantedSectors /\ loaded' \in WantedSectors \union {None} /\ state' \in States
  BY <1>1, <1>3, SourceInWaits DEF WantedSectors, States,
     SourceTypes, SourceClock, SourceRemounts, FetchBam, SourceWaitsForCard,
     SourceMounts, SourceFlushes, SourceFetches, SourceMaps, SourceServesBlank, SourceRequests,
     SourceReads, SourceParks, SourceStreams, SourceAimsFlush, SourcePrereads, SourceIssues,
     KeepFetch, KeepLoaded, Invalidate
<1>13. target_lba' \in Lba /\ upper_half' \in Half /\ wr_upper_half' \in Half
  <2>1. map_valid => fetch \in Sectors
    BY <1>1 DEF SourceTypes, WantedSectors, map_valid
  <2>2. map_valid => active + fetch \div 2 \in Lba /\ fetch % 2 \in Half
    BY <1>1, <1>3, <2>1 DEF SourceTypes
  <2>3. /\ target_lba' = target_lba \/ (map_valid /\ target_lba' = active + fetch \div 2)
        /\ upper_half' = upper_half \/ (map_valid /\ upper_half' = fetch % 2)
        /\ wr_upper_half' = wr_upper_half \/ (map_valid /\ wr_upper_half' = fetch % 2)
    <3>1. CASE SourceRemounts
      BY <3>1 DEF SourceRemounts, KeepWrite
    <3>2. CASE SourceMaps(commit) \/ SourceAimsFlush(commit)
      BY <3>2 DEF SourceMaps, SourceAimsFlush, KeepWrite, Aim
    <3> QED
      BY <1>1, <3>1, <3>2, SourceCases DEF SourceClock, SourceWaitsForCard,
         SourceMounts, SourceFlushes, SourceFetches, SourceServesBlank, SourceRequests,
         SourceReads, SourceParks, SourceStreams, SourcePrereads, SourceIssues,
         KeepWrite, KeepFetch
  <2> QED
    BY <1>1, <2>2, <2>3 DEF SourceTypes
<1> QED
  BY <1>2, <1>4, <1>5, <1>6, <1>7, <1>8, <1>9, <1>11, <1>12, <1>13 DEF SourceTypes

\* A beat of the drive's read, and its end.
LEMMA DriveGathers ==
  ASSUME NEW commit, Moves(commit), Reads, Transfers, NEW half \in Half,
         sec_wr_en <=> drive_valid /\ half_of(raw_pos) = half,
         Gathered(sec_buf, disk[target_lba], half, raw_pos)
  PROVE  /\ Gathered(sec_buf', disk'[target_lba'], half, raw_pos')
         /\ drive_read_end => Holds(sec_buf', disk'[target_lba'], half)
<1>1. /\ xfer_busy /\ ~owner_fast /\ ~xfer_write /\ DriveCounts /\ Waits
      /\ sec_buf \in Buffers /\ raw_pos \in Nat /\ target_lba \in Lba
      /\ disk \in [Lba -> [Position -> Data]]
  BY DEF Moves, DInv, DriveRequest, Transfers, Reads, Waits, SourceTypes, CardTypes
<1>2. disk' = disk /\ target_lba' = target_lba
  BY <1>1, DiskSteps, SourceKeepsAim
<1>3. /\ sec_buf' = IF sec_wr_en THEN [sec_buf EXCEPT ![raw_pos % HalfBeats] = read_data] ELSE sec_buf
      /\ raw_pos' = IF drive_valid THEN (raw_pos + 1) % (4 * HalfBeats) ELSE raw_pos
  BY <1>1, SourceInWaits DEF StoreBeat, SourceReads, SourceParks, SourceStreams, CountBeat, Reads
<1>4. raw_pos = Passed("read_end")
  BY <1>1 DEF DriveCounts, Transfers
<1>5. drive_valid <=> card = "beat"
  BY <1>1 DEF drive_valid, drive_reads
<1>6. CASE card = "beat"
  <2>1. raw_pos = beat /\ beat \in Position /\ read_data = disk[target_lba][raw_pos]
    BY <1>1, <1>4, <1>6, ReadBeat DEF Passed, Target
  <2>2. raw_pos' = raw_pos + 1
    <3>1. raw_pos < 2 * HalfBeats
      BY <2>1, SdDiskAssumption DEF Position
    <3> QED
      BY <1>1, <1>3, <1>5, <1>6, <3>1, NextBeat
  <2>3. sec_buf' = IF half_of(raw_pos) = half
                   THEN [sec_buf EXCEPT ![raw_pos % HalfBeats] = disk[target_lba][raw_pos]] ELSE sec_buf
    BY <1>3, <1>5, <1>6, <2>1
  <2>4. sec_buf \in [Beats -> Data] /\ raw_pos \in Position
    BY <1>1, <2>1 DEF Buffers
  <2>5. Gathered(sec_buf', disk[target_lba], half, raw_pos + 1)
    BY <2>3, <2>4, GatherBeat
  <2>6. ~drive_read_end
    BY <1>6 DEF drive_read_end
  <2> QED
    BY <1>2, <2>2, <2>5, <2>6
<1>7. CASE card # "beat"
  <2>1. sec_buf' = sec_buf /\ raw_pos' = raw_pos
    BY <1>3, <1>5, <1>7
  <2>2. ASSUME drive_read_end PROVE Holds(sec_buf, disk[target_lba], half)
    <3>1. raw_pos = 2 * HalfBeats
      BY <1>4, <2>2 DEF drive_read_end, Passed
    <3> QED
      BY <3>1, GatherAll
  <2> QED
    BY <1>2, <2>1, <2>2
<1> QED
  BY <1>6, <1>7

LEMMA BuffersGather ==
  ASSUME NEW commit, Moves(commit), Reads, Transfers
  PROVE  /\ state = "DRV_WAIT" =>
              /\ Gathered(sec_buf', disk'[target_lba'], upper_half, raw_pos')
              /\ drive_read_end => Holds(sec_buf', disk'[target_lba'], upper_half)
         /\ state = "WR_RMW_WAIT" =>
              /\ Gathered(sec_buf', disk'[target_lba'], Other(wr_upper_half), raw_pos')
              /\ drive_read_end => Holds(sec_buf', disk'[target_lba'], Other(wr_upper_half))
<1>1. DriveBuffers /\ upper_half \in Half /\ wr_upper_half \in Half /\ raw_pos \in Nat
  BY DEF Moves, DInv, SourceTypes
<1>2. drive_valid => raw_pos \in Position
  <2>1. ASSUME drive_valid PROVE raw_pos = beat /\ beat \in Position
    <3>1. xfer_busy /\ card = "beat"
      BY <2>1 DEF drive_valid, drive_reads
    <3>2. beat \in Position
      BY <3>1, ReadBeat
    <3> QED
      BY <3>1, <3>2 DEF Moves, DInv, DriveCounts, Passed
  <2> QED
    BY <2>1
<1>3. drive_valid => half_of(raw_pos) \in Half
  BY <1>2, PositionSplits
<1>4. CASE state = "DRV_WAIT"
  <2>1. sec_wr_en <=> drive_valid /\ half_of(raw_pos) = upper_half
    BY <1>4 DEF sec_wr_en
  <2> QED
    BY <1>1, <1>4, <2>1, DriveGathers DEF DriveBuffers
<1>5. CASE state = "WR_RMW_WAIT"
  <2>1. Other(wr_upper_half) \in Half /\ \A h \in Half : h # wr_upper_half <=> h = Other(wr_upper_half)
    BY <1>1, HalfSplits
  <2>2. sec_wr_en <=> drive_valid /\ half_of(raw_pos) # wr_upper_half
    BY <1>5 DEF sec_wr_en
  <2>3. sec_wr_en <=> drive_valid /\ half_of(raw_pos) = Other(wr_upper_half)
    BY <1>3, <2>1, <2>2
  <2> QED
    BY <1>1, <1>5, <2>1, <2>3, DriveGathers DEF DriveBuffers
<1> QED
  BY <1>4, <1>5 DEF Reads

\* While a flush is on its way, the other half of its block is nobody else's to write.
LEMMA OtherHalfStays ==
  ASSUME NEW commit, Moves(commit), state \in {"WR_ISSUE", "WR_STREAM"}, NEW b \in Beats
  PROVE  disk'[target_lba][At(Other(wr_upper_half), b)] = disk[target_lba][At(Other(wr_upper_half), b)]
<1>1. SUFFICES ASSUME disk' # disk
               PROVE  disk'[target_lba][At(Other(wr_upper_half), b)]
                        = disk[target_lba][At(Other(wr_upper_half), b)]
  OBVIOUS
<1>2. xfer_busy /\ xfer_write /\ PutHalf(Target, WrittenHalf, WrittenBuf)
  BY <1>1, DiskSteps
<1>3. /\ DInv /\ IInv /\ SidesApart /\ target_lba \in Lba /\ wr_upper_half \in Half
  BY DEF Moves, DInv, SourceTypes
<1>4. Other(wr_upper_half) \in Half /\ Other(wr_upper_half) # wr_upper_half
  BY <1>3, HalfSplits DEF Half, Other
<1>5. CASE owner_fast
  <2>1. FastTarget(Target, WrittenHalf)
    BY <1>2, <1>3, <1>5, WriteIsLatest
  <2>2. flushing /\ wr_busy
    BY DEF flushing, wr_busy
  <2>3. /\ target_lba = active + wr_sector \div 2 /\ wr_upper_half = wr_sector % 2
        /\ wr_sector \in DriveTargets /\ active \in Images
    BY <1>3, <2>2 DEF DInv, Aims, Bursts, SourceTypes
  <2>4. DriveHalf(target_lba, wr_upper_half)
    BY <2>3 DEF DriveHalf
  <2>5. Target # target_lba
    BY <1>3, <2>1, <2>4, HalvesApart
  <2> QED
    BY <1>2, <1>3, <1>4, <2>5 DEF PutHalf
<1>6. CASE ~owner_fast
  <2>1. WrittenHalf = wr_upper_half
    BY <1>6 DEF WrittenHalf
  <2> QED
    BY <1>2, <1>3, <1>4, <2>1 DEF PutHalf
<1> QED
  BY <1>5, <1>6

LEMMA KeepsDriveBuffers ==
  ASSUME NEW commit, Moves(commit)
  PROVE  DriveBuffers'
<1>1. /\ DriveBuffers /\ DriveCounts' /\ SourceTypes' /\ upper_half' \in Half /\ wr_upper_half' \in Half
      /\ wr_upper_half \in Half /\ SourceClock(commit)
  BY KeepsDriveCounts, KeepsSourceTypes DEF Moves, Tick, DInv, SourceTypes
<1>2. Other(wr_upper_half') \in Half
  BY <1>1, HalfSplits
<1>3. CASE Reads' /\ ~Transfers'
  <2>1. raw_pos' = 0
    BY <1>1, <1>3 DEF DriveCounts
  <2> QED
    BY <1>1, <1>2, <1>3, <2>1, GatherNone DEF DriveBuffers, Reads
<1>4. CASE Reads' /\ Transfers' /\ Transfers
  <2>1. Waits
    BY <1>4 DEF Moves, IInv, RestIsRest
  <2>2. state' = state /\ Reads
    BY <1>4, <2>1, WaitsOn DEF Reads, Waits
  <2>3. upper_half' = upper_half /\ wr_upper_half' = wr_upper_half
    BY <2>1, SourceKeepsAim
  <2> QED
    BY <1>4, <2>2, <2>3, BuffersGather DEF DriveBuffers, Reads
<1>5. CASE Reads' /\ Transfers' /\ ~Transfers
  <2>1. ~xfer_busy /\ xfer_busy'
    BY <1>5, NoGrant, GrantMeans DEF Transfers, Moves, IInv, Flags
  <2>2. raw_pos' = 0
    BY <1>1, <1>5, <2>1, NothingPassed DEF DriveCounts
  <2> QED
    BY <1>1, <1>2, <1>5, <2>2, GatherNone DEF DriveBuffers, Reads
<1>6. CASE state' = "WR_ISSUE"
  <2>1. SourceParks(commit, FALSE) /\ drive_read_end
    <3>1. Waits
      <4>1. ~mount_strobe
        BY <1>1, <1>6 DEF SourceClock, SourceRemounts, FetchBam
      <4> QED
        BY <1>6, <4>1, SourceCases DEF Waits, SourceReads, SourceParks, SourceStreams,
           FetchBam, SourceWaitsForCard, SourceMounts, SourceFlushes, SourceFetches, SourceMaps,
           SourceServesBlank, SourceRequests, SourceAimsFlush, SourcePrereads, SourceIssues
    <3> QED
      BY <1>6, <3>1, SourceInWaits DEF SourceReads, SourceParks, SourceStreams
  <2>2. state = "WR_RMW_WAIT" /\ Reads /\ Waits /\ Transfers
    BY <2>1 DEF SourceParks, Reads, Waits, drive_read_end, drive_reads, Transfers
  <2>3. wr_upper_half' = wr_upper_half
    BY <2>2, SourceKeepsAim
  <2>4. Holds(sec_buf', disk'[target_lba'], Other(wr_upper_half))
    BY <2>1, <2>2, BuffersGather
  <2> QED
    BY <1>6, <2>3, <2>4 DEF DriveBuffers
<1>7. CASE state' = "WR_STREAM"
  <2>1. state \in {"WR_ISSUE", "WR_STREAM"}
    <3>1. CASE Waits
      BY <1>7, <3>1, SourceInWaits DEF SourceReads, SourceParks, SourceStreams
    <3>2. CASE ~Waits
      BY <1>7, <3>2, BeginsToWait DEF SourceRequests, SourcePrereads, SourceIssues, Waits
    <3> QED
      BY <3>1, <3>2
  <2>2. UNCHANGED <<target_lba, wr_upper_half>>
    BY <1>7, BeginsToWait, SourceKeepsAim DEF Waits
  <2>3. sec_buf' = sec_buf
    BY <1>1, <2>1 DEF SourceClock, StoreBeat, sec_wr_en
  <2>4. Holds(sec_buf, disk[target_lba], Other(wr_upper_half))
    BY <1>1, <2>1 DEF DriveBuffers
  <2>5. ASSUME NEW b \in Beats PROVE sec_buf[b] = disk'[target_lba][At(Other(wr_upper_half), b)]
    BY <2>1, <2>4, OtherHalfStays DEF Holds
  <2> QED
    BY <1>7, <2>2, <2>3, <2>5 DEF DriveBuffers, Holds
<1> QED
  BY <1>3, <1>4, <1>5, <1>6, <1>7 DEF DriveBuffers, Reads

\* A loaded sector of the drive's is written by nobody while it may be read.
LEMMA LoadedStays ==
  ASSUME NEW commit, Moves(commit), state = "READY", NEW s \in Sectors \ FastTargets, NEW b \in Beats
  PROVE  disk'[active + s \div 2][At(s % 2, b)] = disk[active + s \div 2][At(s % 2, b)]
<1>1. SUFFICES ASSUME disk' # disk
               PROVE  disk'[active + s \div 2][At(s % 2, b)] = disk[active + s \div 2][At(s % 2, b)]
  OBVIOUS
<1>2. xfer_busy /\ xfer_write /\ PutHalf(Target, WrittenHalf, WrittenBuf)
  BY <1>1, DiskSteps
<1>3. DInv /\ IInv /\ ImagesApart /\ active \in Images /\ ~Waits
  BY DEF Moves, DInv, SourceTypes, Waits
<1>4. active + s \div 2 \in Lba /\ s % 2 \in Half
  BY <1>3, UseFacts
<1>5. owner_fast
  BY <1>2, <1>3 DEF IInv, RestIsRest, Transfers
<1>6. FastTarget(Target, WrittenHalf)
  BY <1>2, <1>3, <1>5, WriteIsLatest
<1>7. ~FastTarget(active + s \div 2, s % 2)
  BY <1>3, SectorApart
<1>8. ~(active + s \div 2 = Target /\ s % 2 = WrittenHalf)
  BY <1>6, <1>7
<1> QED
  BY <1>2, <1>4, <1>8 DEF PutHalf

LEMMA KeepsLoads ==
  ASSUME NEW commit, Moves(commit)
  PROVE  Loads'
<1>1. /\ Loads /\ Aims /\ Bursts /\ SourceTypes /\ SourceClock(commit) /\ IInv
      /\ Sectors' = Sectors /\ FastTargets' = FastTargets
  BY UsesStay DEF Moves, Tick, DInv
<1>2. Illegal \notin Sectors /\ DriveTargets \subseteq Sectors
  BY <1>1, NothingIllegal, UseFacts
<1>3. SUFFICES ASSUME state' = "READY", loaded' # None
               PROVE  /\ blank_sector' = (loaded' = Illegal)
                      /\ loaded' \in Sectors \ FastTargets =>
                           Holds(sec_buf', disk'[active' + loaded' \div 2], loaded' % 2)
  BY <1>1 DEF Loads
<1>4. ~mount_strobe
  BY <1>1, <1>3 DEF SourceClock, SourceRemounts, Invalidate
<1>5. active' = active
  BY <1>4, ImageStays
<1>6. CASE state = "READY"
  <2>1. loaded' = loaded /\ blank_sector' = blank_sector
    BY <1>4, <1>6, SourceCases DEF SourceWaitsForCard, SourceMounts, SourceFlushes, SourceFetches,
       SourceMaps, SourceServesBlank, SourceRequests, SourceReads, SourceAimsFlush,
       SourcePrereads, SourceIssues, SourceParks, SourceStreams, KeepLoaded
  <2>2. sec_buf' = sec_buf
    BY <1>1, <1>6 DEF SourceClock, StoreBeat, sec_wr_en
  <2>3. ASSUME loaded \in Sectors \ FastTargets, NEW b \in Beats
        PROVE  sec_buf[b] = disk'[active + loaded \div 2][At(loaded % 2, b)]
    <3>1. sec_buf[b] = disk[active + loaded \div 2][At(loaded % 2, b)]
      BY <1>1, <1>3, <1>6, <2>1, <2>3 DEF Loads, Holds
    <3> QED
      BY <1>6, <2>3, <3>1, LoadedStays
  <2> QED
    BY <1>1, <1>3, <1>5, <1>6, <2>1, <2>2, <2>3 DEF Loads, Holds
<1>7. CASE state # "READY"
  <2>1. ~SourceAimsFlush(commit)
    <3>1. ASSUME SourceAimsFlush(commit) PROVE map_valid
      <4>1. flushing /\ wr_busy
        BY <3>1 DEF SourceAimsFlush, flushing, wr_busy
      <4>2. fetch \in DriveTargets
        BY <1>1, <4>1 DEF Aims, Bursts
      <4> QED
        BY <1>2, <4>2 DEF map_valid
    <3> QED
      BY <1>3, <3>1 DEF SourceAimsFlush
  <2>2. SourceServesBlank(commit) \/ (SourceReads(commit) /\ drive_read_end)
    BY <1>3, <1>4, <1>7, <2>1, SourceCases DEF SourceWaitsForCard, SourceMounts, FetchBam,
       SourceFlushes, SourceFetches, SourceMaps, SourceRequests, SourceReads, SourcePrereads,
       SourceIssues, SourceParks, SourceStreams, Invalidate
  <2>3. CASE SourceServesBlank(commit)
    BY <1>2, <2>3 DEF SourceServesBlank, map_valid
  <2>4. CASE SourceReads(commit) /\ drive_read_end
    <3>1. /\ state = "DRV_WAIT" /\ Waits /\ Reads /\ Transfers
          /\ loaded' = fetch /\ blank_sector' = blank_sector
      BY <2>4 DEF SourceReads, Waits, Reads, drive_read_end, drive_reads, Transfers
    <3>2. /\ fetch \in Sectors /\ target_lba = active + fetch \div 2
          /\ upper_half = fetch % 2 /\ blank_sector = FALSE
      BY <1>1, <3>1 DEF Aims
    <3>3. target_lba' = target_lba
      BY <3>1, SourceKeepsAim
    <3>4. Holds(sec_buf', disk'[target_lba], upper_half)
      BY <2>4, <3>1, <3>3, BuffersGather
    <3> QED
      BY <1>2, <1>5, <3>1, <3>2, <3>4
  <2> QED
    BY <2>2, <2>3, <2>4
<1> QED
  BY <1>6, <1>7

\* The beat with the disk ID, as it passes.
LEMMA IdPasses ==
  ASSUME NEW commit, Moves(commit), state = "DRV_WAIT", id_fetch, drive_valid
  PROVE  /\ (half_of(raw_pos) = upper_half /\ raw_pos % HalfBeats = IdBeat) <=> raw_pos = IdBeat
         /\ raw_pos = IdBeat => read_data # None /\ read_data[1] = active /\ read_data[2] = IdBeat
         /\ raw_pos \in Nat /\ raw_pos < 2 * HalfBeats
<1>1. xfer_busy /\ card = "beat" /\ ~owner_fast /\ Transfers
  BY DEF drive_valid, drive_reads, Transfers
<1>2. raw_pos = beat /\ beat \in Position
  BY <1>1, ReadBeat DEF Moves, DInv, DriveCounts, Passed, Reads
<1>3. /\ fetch = 0 /\ target_lba = active + fetch \div 2 /\ upper_half = fetch % 2
      /\ active \in Images /\ IInv
  BY DEF Moves, DInv, Identifies, Aims, SourceTypes
<1>4. active \in Nat
  BY <1>3, UseFacts
<1>5. target_lba = active /\ upper_half = 0
  BY <1>3, <1>4
<1>6. IdBeat \in Beats /\ At(0, IdBeat) = IdBeat
  BY SdDiskAssumption DEF IdBeat, Beats, At
<1>7. (half_of(raw_pos) = upper_half /\ raw_pos % HalfBeats = IdBeat) <=> raw_pos = IdBeat
  <2>1. half_of(IdBeat) = 0 /\ IdBeat % HalfBeats = IdBeat
    BY <1>6, AtSplits DEF Half
  <2>2. half_of(raw_pos) = 0 /\ raw_pos % HalfBeats = IdBeat => raw_pos = At(0, IdBeat)
    BY <1>2, PositionSplits
  <2> QED
    BY <1>5, <1>6, <2>1, <2>2
<1>8. raw_pos = IdBeat => read_data = disk[active][At(0, IdBeat)] /\ read_data \in Data /\ active \in Lba
  BY <1>1, <1>2, <1>5, <1>6, ReadBeat DEF Target
<1>9. ASSUME raw_pos = IdBeat PROVE read_data # None
  <2>1. Lba \subseteq Nat /\ Position \subseteq Nat
    BY <1>3, UseFacts, SdDiskAssumption DEF Position
  <2>2. read_data \in Nat \X Nat \X Nat
    BY <1>8, <1>9, <2>1 DEF Data
  <2> QED
    BY <2>2, SdDiskAssumption
<1>10. raw_pos = IdBeat => read_data[1] = active /\ read_data[2] = IdBeat
  BY <1>6, <1>8 DEF Moves, DInv, InPlace, Half
<1>11. raw_pos \in Nat /\ raw_pos < 2 * HalfBeats
  BY <1>2, SdDiskAssumption DEF Position
<1> QED
  BY <1>7, <1>9, <1>10, <1>11

LEMMA KeepsIdentifies ==
  ASSUME NEW commit, Moves(commit)
  PROVE  Identifies'
<1>1. Identifies /\ SourceClock(commit) /\ MountsQuietly
  BY DEF Moves, Tick, DInv
<1>2. CASE mount_strobe
  <2>1. SourceRemounts
    BY <1>1, <1>2 DEF SourceClock
  <2> QED
    BY <2>1 DEF SourceRemounts, FetchBam, Identifies
<1>3. CASE ~mount_strobe
  <2>1. active' = active
    BY <1>3, ImageStays
  <2>2. CASE SourceReads(commit)
    <3>1. /\ state = "DRV_WAIT" /\ UNCHANGED <<mounted, fetch>>
          /\ raw_pos' = IF drive_valid THEN (raw_pos + 1) % (4 * HalfBeats) ELSE raw_pos
          /\ disk_id' = IF /\ drive_valid /\ half_of(raw_pos) = upper_half
                           /\ id_fetch /\ raw_pos % HalfBeats = IdBeat
                        THEN read_data ELSE disk_id
          /\ IF drive_read_end THEN ~id_fetch' /\ state' = "READY"
                               ELSE UNCHANGED <<id_fetch, state>>
      BY <2>2 DEF SourceReads, CountBeat
    <3>2. mounted /\ (id_fetch \/ IdRight) /\ (id_fetch => fetch = 0)
          /\ (id_fetch /\ raw_pos > IdBeat => IdRight)
      BY <1>1, <3>1 DEF Identifies
    <3>3. CASE ~id_fetch
      <4>1. IdRight' /\ ~id_fetch'
        BY <2>1, <3>1, <3>2, <3>3 DEF IdRight, IdBeat
      <4> QED
        BY <3>1, <3>2, <4>1 DEF Identifies
    <3>4. CASE id_fetch /\ drive_valid
      <4>1. ~drive_read_end
        BY <3>4 DEF drive_valid, drive_read_end
      <4>2. raw_pos \in Nat /\ raw_pos' = raw_pos + 1
        BY <3>1, <3>4, IdPasses, NextBeat
      <4>3. raw_pos = IdBeat => IdRight'
        BY <2>1, <3>1, <3>4, IdPasses DEF IdRight, IdBeat
      <4>4. raw_pos # IdBeat => disk_id' = disk_id
        BY <3>1, <3>4, IdPasses
      <4>5. raw_pos > IdBeat => IdRight'
        BY <2>1, <3>2, <3>4, <4>4, SdDiskAssumption DEF IdRight, IdBeat
      <4>6. IdBeat' = IdBeat /\ IdBeat \in Nat
        BY SdDiskAssumption DEF IdBeat
      <4>7. raw_pos' > IdBeat' => IdRight'
        BY <4>2, <4>3, <4>5, <4>6
      <4> QED
        BY <3>1, <3>2, <3>4, <4>1, <4>7 DEF Identifies
    <3>5. CASE id_fetch /\ ~drive_valid
      <4>1. disk_id' = disk_id /\ raw_pos' = raw_pos
        BY <3>1, <3>5
      <4>2. IdRight' = IdRight
        BY <2>1, <4>1 DEF IdRight, IdBeat
      <4>3. IdBeat' = IdBeat
        BY DEF IdBeat
      <4>4. CASE drive_read_end
        <5>1. raw_pos = 2 * HalfBeats
          BY <3>1, <4>4 DEF Moves, DInv, DriveCounts, Reads, Passed, drive_read_end, drive_reads, Transfers
        <5>2. 2 * HalfBeats > IdBeat
          BY SdDiskAssumption DEF IdBeat
        <5>3. IdRight
          BY <3>2, <3>5, <5>1, <5>2
        <5> QED
          BY <3>1, <3>2, <4>2, <4>4, <5>3 DEF Identifies
      <4>5. CASE ~drive_read_end
        BY <3>1, <3>2, <3>5, <4>1, <4>2, <4>3, <4>5 DEF Identifies
      <4> QED
        BY <4>4, <4>5
    <3> QED
      BY <3>3, <3>4, <3>5
  <2>3. CASE SourceRequests(commit)
    <3>1. state = "DRV_STARTED" /\ raw_pos = 0
      BY <2>3 DEF SourceRequests, Moves, DInv, DriveCounts
    <3>2. /\ state' = "DRV_WAIT" /\ UNCHANGED <<raw_pos, mounted, id_fetch, disk_id, fetch>>
      BY <2>3 DEF SourceRequests, KeepImage, KeepFetch
    <3>3. IdRight' = IdRight
      BY <2>1, <3>2 DEF IdRight, IdBeat
    <3>4. ~(raw_pos' > IdBeat')
      BY <3>1, <3>2, SdDiskAssumption DEF IdBeat
    <3> QED
      BY <1>1, <3>1, <3>2, <3>3, <3>4 DEF Identifies
  <2>4. CASE SourceWaitsForCard(commit) \/ SourceFlushes
    <3>1. UNCHANGED <<mounted, id_fetch, disk_id>> /\ (id_fetch' => fetch' = fetch \/ ~id_fetch)
          /\ state' \in {"WAIT_SD", "MOUNT", "READY", "WR_MAP"}
          /\ state \in {"WAIT_SD", "READY"}
          /\ (state' \notin {"WAIT_SD", "MOUNT"} => state = "READY")
      BY <1>1, <2>4 DEF SourceWaitsForCard, SourceFlushes, KeepImage, KeepFetch, Identifies
    <3>2. IdRight' = IdRight
      BY <2>1, <3>1 DEF IdRight, IdBeat
    <3> QED
      BY <1>1, <3>1, <3>2 DEF Identifies
  <2>5. CASE SourceMounts(commit)
    BY <2>5 DEF SourceMounts, FetchBam, Identifies
  <2>6. CASE SourceFetches(commit) \/ SourceMaps(commit)
    <3>1. UNCHANGED <<mounted, id_fetch, disk_id>> /\ (id_fetch => fetch' = fetch)
          /\ state' \in {"READY", "DRV_REQ", "DRV_STARTED"}
          /\ (id_fetch => state' = "DRV_STARTED") /\ state \in {"READY", "DRV_REQ"}
      BY <1>1, <2>6 DEF SourceFetches, SourceMaps, KeepImage, Identifies
    <3>2. IdRight' = IdRight
      BY <2>1, <3>1 DEF IdRight, IdBeat
    <3> QED
      BY <1>1, <3>1, <3>2 DEF Identifies
  <2>7. CASE SourceServesBlank(commit)
    <3>1. fetch = Illegal /\ state = "DRV_REQ"
      BY <2>7 DEF SourceServesBlank, map_valid
    <3>2. ~id_fetch
      BY <1>1, <3>1, SdDiskAssumption DEF Identifies
    <3> QED
      BY <1>1, <2>1, <2>7, <3>1, <3>2 DEF SourceServesBlank, KeepImage, Identifies, IdRight, IdBeat
  <2>8. CASE SourceAimsFlush(commit) \/ SourcePrereads(commit) \/ SourceIssues(commit)
             \/ SourceParks(commit, FALSE) \/ SourceStreams(commit, FALSE)
    <3>1. flushing /\ (flushing' \/ state' = "READY") /\ UNCHANGED <<mounted, id_fetch, disk_id>>
      BY <2>8 DEF SourceAimsFlush, SourcePrereads, SourceIssues, SourceParks, SourceStreams,
         KeepImage, KeepFetch, flushing
    <3>2. IdRight' = IdRight
      BY <2>1, <3>1 DEF IdRight, IdBeat
    <3> QED
      BY <1>1, <3>1, <3>2 DEF Identifies, flushing
  <2> QED
    BY <1>3, <2>2, <2>3, <2>4, <2>5, <2>6, <2>7, <2>8, SourceCases
<1> QED
  BY <1>2, <1>3
-----------------------------------------------------------------------------
(* The window's conjuncts. *)

LEMMA WindowStarts ==
  ASSUME NEW commit, Moves(commit), fast_state = "IDLE", fast_state' # "IDLE"
  PROVE  /\ fast_state' = "WAIT" /\ fast_raw_pos' = 0 /\ ~fast_owns'
         /\ fast_lba' \in Lba /\ fast_half' \in Half
         /\ fast_req_pend' \in BOOLEAN /\ fast_wrreq_pend' = FALSE
         /\ fast_rmw' \in BOOLEAN /\ UNCHANGED <<fast_wr_idx, rmw_buf>>
         /\ fast_rmw' \/ fast_buf' = fast_buf
<1>1. /\ WindowRequest /\ WindowTypes /\ Flags
  BY DEF Moves, DInv, IInv
<1>2. FastCommand
  BY WindowCases DEF FastIllegal, FastRefuses, FastIdle, FastWaits, FastWrites
<1>3. PICK l \in Lba, h \in Half, write \in BOOLEAN, mapped \in BOOLEAN :
        /\ IF write
           THEN fast_buf' = HalfData(l, h, latest[l][h] + 1)
           ELSE UNCHANGED fast_buf
        /\ IF FastMayStart(mapped) THEN FastStarts(l, h, write) ELSE FastRefuses
  BY <1>2 DEF FastCommand
<1>4. FastStarts(l, h, write) /\ FastMayStart(mapped)
  BY <1>3 DEF FastRefuses
<1>5. ~fast_req_pend /\ ~fast_wrreq_pend /\ ~fast_owns /\ ~fast_rmw
  BY <1>1, <1>4 DEF WindowRequest, FastMayStart
<1>6. ~fast_owns'
  <2>1. Grant # None => ~owner_fast'
    BY <1>5, GrantMeans
  <2>2. Grant = None => ~fast_owns'
    BY <1>5, NoGrant DEF fast_owns
  <2> QED
    BY <2>1, <2>2 DEF fast_owns
<1>7. fast_wrreq_pend' = FALSE /\ UNCHANGED <<fast_wr_idx, rmw_buf>>
  BY <1>2, <1>5 DEF FastCommand, Granted
<1> QED
  BY <1>3, <1>4, <1>5, <1>6, <1>7 DEF FastStarts

LEMMA WindowIdles ==
  ASSUME NEW commit, Moves(commit), fast_state = "IDLE", fast_state' = "IDLE"
  PROVE  /\ UNCHANGED <<fast_lba, fast_half, fast_rmw, fast_raw_pos, fast_wr_idx, rmw_buf>>
         /\ fast_req_pend' = FALSE /\ fast_wrreq_pend' = FALSE /\ ~fast_rmw'
         /\ ~fast_owns' /\ (fast_ready' => fast_ready)
         /\ \/ fast_buf' = fast_buf
            \/ \E l \in Lba, h \in Half : fast_buf' = HalfData(l, h, latest[l][h] + 1)
<1>1. /\ WindowRequest /\ Flags
  BY DEF Moves, DInv, IInv
<1>2. ~fast_req_pend /\ ~fast_wrreq_pend /\ ~fast_owns /\ ~fast_rmw
  BY <1>1 DEF WindowRequest
<1>3. ~fast_owns'
  <2>1. Grant # None => ~owner_fast'
    BY <1>2, GrantMeans
  <2>2. Grant = None => ~fast_owns'
    BY <1>2, NoGrant DEF fast_owns
  <2> QED
    BY <2>1, <2>2 DEF fast_owns
<1>4. CASE FastIdle
  BY <1>2, <1>3, <1>4 DEF FastIdle, Granted
<1>5. CASE FastIllegal
  BY <1>2, <1>3, <1>5 DEF FastIllegal, FastRefuses, Granted
<1>6. CASE FastCommand
  <2>1. PICK l \in Lba, h \in Half, write \in BOOLEAN, mapped \in BOOLEAN :
          /\ IF write
             THEN fast_buf' = HalfData(l, h, latest[l][h] + 1)
             ELSE UNCHANGED fast_buf
          /\ IF FastMayStart(mapped) THEN FastStarts(l, h, write) ELSE FastRefuses
    BY <1>6 DEF FastCommand
  <2>2. FastRefuses
    BY <2>1 DEF FastStarts
  <2>3. fast_wrreq_pend' = FALSE /\ UNCHANGED <<fast_wr_idx, rmw_buf>>
    BY <1>2, <1>6 DEF FastCommand, Granted
  <2>4. /\ UNCHANGED <<fast_lba, fast_half, fast_rmw, fast_raw_pos>> /\ fast_req_pend' = FALSE /\ ~fast_ready'
    BY <1>2, <2>2 DEF FastRefuses, Granted
  <2>5. \/ fast_buf' = fast_buf
        \/ \E ll \in Lba, hh \in Half : fast_buf' = HalfData(ll, hh, latest[ll][hh] + 1)
    BY <2>1
  <2> QED
    BY <1>2, <1>3, <2>3, <2>4, <2>5
<1> QED
  BY <1>4, <1>5, <1>6, WindowCases DEF FastWaits, FastWrites

\* A busy window goes on until its transfer ends.
LEMMA WindowGoesOn ==
  ASSUME NEW commit, Moves(commit), fast_state # "IDLE"
  PROVE  /\ ~(fast_owns /\ TransferEnds) => fast_state' = fast_state /\ fast_rmw' = fast_rmw
         /\ fast_owns /\ TransferEnds =>
              IF xfer_write THEN fast_state' = "IDLE" /\ fast_rmw' = FALSE /\ ~fast_req_pend' /\ ~fast_wrreq_pend'
              ELSE /\ fast_state' = (IF fast_rmw THEN "WRITE" ELSE "IDLE") /\ fast_rmw' = fast_rmw
                   /\ ~fast_req_pend'
                   /\ ~fast_rmw => ~fast_wrreq_pend'
         /\ fast_req_pend' \in BOOLEAN /\ fast_wrreq_pend' \in BOOLEAN
         /\ fast_state' = fast_state =>
              /\ fast_req_pend' = (fast_req_pend /\ Grant # "fast_read")
              /\ fast_wrreq_pend' = (fast_wrreq_pend /\ Grant # "fast_write")
<1>1. /\ WindowRequest /\ WindowTypes /\ Flags /\ xfer_write \in BOOLEAN
  BY DEF Moves, DInv, IInv, CardTypes
<1>2. fast_owns => /\ fast_state = (IF xfer_write THEN "WRITE" ELSE "WAIT")
                   /\ ~fast_req_pend /\ ~fast_wrreq_pend
  BY <1>1 DEF WindowRequest
<1>3. fast_owns /\ TransferEnds <=> fast_owns /\ card = IF xfer_write THEN "write_end" ELSE "read_end"
  BY DEF fast_owns, TransferEnds
<1>4. CASE fast_state = "WAIT"
  <2>1. FastWaits(FALSE) /\ (fast_owns => ~xfer_write)
    BY <1>2, <1>4, WindowInWork
  <2>2. fast_rmw \in BOOLEAN /\ fast_req_pend \in BOOLEAN /\ fast_wrreq_pend \in BOOLEAN
    BY <1>1 DEF WindowTypes
  <2>3. fast_owns /\ TransferEnds <=> fast_owns /\ card = "read_end"
    BY <1>3, <2>1
  <2>4. CASE fast_owns /\ card = "read_end"
    BY <1>2, <1>4, <2>1, <2>2, <2>3, <2>4 DEF FastWaits, Granted
  <2>5. CASE ~(fast_owns /\ card = "read_end")
    BY <1>4, <2>1, <2>2, <2>3, <2>5 DEF FastWaits, Granted
  <2> QED
    BY <2>4, <2>5
<1>5. CASE fast_state = "WRITE"
  <2>1. FastWrites(FALSE) /\ (fast_owns => xfer_write)
    BY <1>1, <1>2, <1>5, WindowInWork
  <2>2. fast_rmw \in BOOLEAN /\ fast_req_pend \in BOOLEAN /\ fast_wrreq_pend \in BOOLEAN
    BY <1>1 DEF WindowTypes
  <2>3. fast_owns /\ TransferEnds <=> fast_owns /\ xfer_write /\ card = "write_end"
    BY <1>3, <2>1
  <2>4. CASE fast_owns /\ xfer_write /\ card = "write_end"
    BY <1>2, <1>5, <2>1, <2>2, <2>3, <2>4 DEF FastWrites, Granted
  <2>5. CASE ~(fast_owns /\ xfer_write /\ card = "write_end")
    BY <1>5, <2>1, <2>2, <2>3, <2>5 DEF FastWrites, Granted
  <2> QED
    BY <2>4, <2>5
<1> QED
  BY <1>4, <1>5, WindowInWork

LEMMA KeepsWindowRequest ==
  ASSUME NEW commit, Moves(commit)
  PROVE  WindowRequest'
<1>1. /\ WindowRequest /\ WindowTypes /\ Flags /\ xfer_write \in BOOLEAN
  BY DEF Moves, DInv, IInv, CardTypes
<1>2. CASE fast_state = "IDLE" /\ fast_state' = "IDLE"
  BY <1>2, WindowIdles DEF WindowRequest
<1>3. CASE fast_state = "IDLE" /\ fast_state' # "IDLE"
  BY <1>3, WindowStarts DEF WindowRequest
<1>4. CASE fast_state # "IDLE" /\ fast_owns /\ TransferEnds
  <2>1. ~xfer_busy'
    BY <1>4, TargetStays, NoGrant DEF fast_owns
  <2>2. xfer_write \/ ~xfer_write
    OBVIOUS
  <2> QED
    BY <1>1, <1>4, <2>1, <2>2, WindowGoesOn DEF WindowRequest, fast_owns
<1>5. CASE fast_state # "IDLE" /\ ~(fast_owns /\ TransferEnds)
  <2>1. /\ fast_state' = fast_state /\ fast_rmw' = fast_rmw
        /\ fast_req_pend' = (fast_req_pend /\ Grant # "fast_read")
        /\ fast_wrreq_pend' = (fast_wrreq_pend /\ Grant # "fast_write")
    BY <1>5, WindowGoesOn
  <2>2. CASE Grant = None
    <3>1. fast_owns' => fast_owns /\ xfer_write' = xfer_write
      BY <2>2, NoGrant DEF fast_owns
    <3>2. ASSUME fast_owns'
          PROVE  /\ fast_state = (IF xfer_write' THEN "WRITE" ELSE "WAIT")
                 /\ ~fast_req_pend' /\ ~fast_wrreq_pend'
      <4>1. fast_owns /\ xfer_write' = xfer_write
        BY <3>1, <3>2
      <4>2. /\ fast_state = (IF xfer_write THEN "WRITE" ELSE "WAIT")
            /\ ~fast_req_pend /\ ~fast_wrreq_pend
        BY <1>1, <4>1 DEF WindowRequest
      <4>3. ~fast_req_pend' /\ ~fast_wrreq_pend'
        BY <2>1, <4>2
      <4> QED
        BY <4>1, <4>2, <4>3
    <3>3. /\ fast_state # "WAIT" => ~fast_req_pend'
          /\ fast_state # "WRITE" => ~fast_wrreq_pend'
          /\ fast_state = "WRITE" => fast_rmw'
      BY <1>1, <2>1 DEF WindowRequest
    <3> QED
      BY <1>5, <2>1, <3>2, <3>3 DEF WindowRequest
  <2>3. CASE Grant # None
    <3>1. fast_owns' => IF xfer_write' THEN Grant = "fast_write" /\ fast_state = "WRITE"
                                       ELSE Grant = "fast_read" /\ fast_state = "WAIT"
      BY <2>3, GrantMeans DEF fast_owns
    <3>2. xfer_write' \in BOOLEAN
      BY <2>3, GrantMeans
    <3> QED
      BY <1>1, <2>1, <3>1, <3>2 DEF WindowRequest
  <2> QED
    BY <2>2, <2>3
<1> QED
  BY <1>2, <1>3, <1>4, <1>5

LEMMA KeepsWindowTypes ==
  ASSUME NEW commit, Moves(commit)
  PROVE  WindowTypes'
<1>1. /\ WindowTypes /\ latest \in [Lba -> [Half -> Nat]] /\ WindowRequest'
  BY KeepsWindowRequest DEF Moves, DInv, CardTypes
<1>2. UNCHANGED <<Lba, Data, Buffers>>
  BY UsesStay DEF Moves, Tick
<1>3. \A l \in Lba, h \in Half : HalfData(l, h, latest[l][h] + 1) \in Buffers
  BY <1>1, HalfDataIs
<1>4. CASE fast_state = "IDLE" /\ fast_state' = "IDLE"
  BY <1>1, <1>2, <1>3, <1>4, WindowIdles DEF WindowTypes
<1>5. CASE fast_state = "IDLE" /\ fast_state' # "IDLE"
  <2>1. fast_buf' \in Buffers
    <3>1. CASE fast_rmw'
      <4>1. Begins(fast_lba', fast_half')
        BY <1>5, <3>1, WindowStarts DEF Begins
      <4> QED
        BY <1>3, <4>1, WindowBegins
    <3>2. CASE ~fast_rmw'
      BY <1>1, <1>5, <3>2, WindowStarts DEF WindowTypes
    <3> QED
      BY <3>1, <3>2
  <2>2. /\ fast_state' = "WAIT" /\ fast_raw_pos' = 0 /\ fast_wr_idx' = fast_wr_idx /\ rmw_buf' = rmw_buf
        /\ fast_lba' \in Lba /\ fast_half' \in Half
    BY <1>5, WindowStarts
  <2>3. fast_req_pend' \in BOOLEAN /\ fast_wrreq_pend' \in BOOLEAN /\ fast_rmw' \in BOOLEAN
    BY <1>5, WindowStarts
  <2> QED
    BY <1>1, <1>2, <2>1, <2>2, <2>3 DEF WindowTypes
<1>6. CASE fast_state # "IDLE"
  <2>1. fast_beat => read_data \in Data
    BY ReadBeat DEF fast_beat, fast_owns
  <2>2. /\ fast_raw_pos \in Nat /\ fast_wr_idx \in Nat /\ fast_buf \in Buffers /\ rmw_buf \in Buffers
        /\ fast_raw_pos % HalfBeats \in Beats
    BY <1>1, SdDiskAssumption DEF WindowTypes, Beats
  <2>3. /\ (fast_raw_pos + 1) % (4 * HalfBeats) \in Nat
        /\ (fast_wr_idx + 1) % (4 * HalfBeats) \in Nat
    BY <2>2, SomeBeat
  <2>4. ASSUME fast_state = "WAIT"
        PROVE  /\ fast_buf' \in Buffers /\ rmw_buf' \in Buffers
               /\ fast_raw_pos' \in Nat /\ fast_wr_idx' \in Nat
    <3>1. FastWaits(FALSE)
      BY <1>6, <2>4, WindowInWork
    <3>2. fast_wr_idx' \in {0, fast_wr_idx} /\ FastCaptures
      BY <3>1 DEF FastWaits
    <3>3. fast_buf' \in Buffers
      BY <2>1, <2>2, <3>2 DEF FastCaptures, fb_sd_we, Buffers
    <3>4. rmw_buf' \in Buffers
      BY <2>1, <2>2, <3>2 DEF FastCaptures, rmw_we, Buffers
    <3>5. fast_raw_pos' \in {(fast_raw_pos + 1) % (4 * HalfBeats), fast_raw_pos}
      BY <3>2 DEF FastCaptures
    <3> QED
      BY <2>2, <2>3, <3>2, <3>3, <3>4, <3>5
  <2>5. ASSUME fast_state = "WRITE"
        PROVE  /\ fast_buf' \in Buffers /\ rmw_buf' \in Buffers
               /\ fast_raw_pos' \in Nat /\ fast_wr_idx' \in Nat
    <3>1. FastWrites(FALSE)
      BY <1>6, <2>5, WindowInWork
    <3>2. /\ fast_wr_idx' \in {(fast_wr_idx + 1) % (4 * HalfBeats), fast_wr_idx}
          /\ UNCHANGED <<fast_raw_pos, fast_buf, rmw_buf>>
      BY <3>1 DEF FastWrites
    <3> QED
      BY <2>2, <2>3, <3>2
  <2>6. /\ fast_buf' \in Buffers /\ rmw_buf' \in Buffers
        /\ fast_raw_pos' \in Nat /\ fast_wr_idx' \in Nat
    BY <1>6, <2>4, <2>5, WindowInWork
  <2>7. fast_lba' \in Lba /\ fast_half' \in Half
    BY <1>1, <1>6, WindowInWork DEF WindowTypes
  <2>8. fast_req_pend' \in BOOLEAN /\ fast_wrreq_pend' \in BOOLEAN
    BY <1>6, WindowGoesOn
  <2>9. fast_state' \in {"IDLE", "WAIT", "WRITE"} /\ fast_rmw' \in BOOLEAN
    BY <1>1, <1>6, WindowGoesOn DEF WindowTypes, Moves, DInv, CardTypes
  <2> QED
    BY <1>2, <2>6, <2>7, <2>8, <2>9 DEF WindowTypes
<1> QED
  BY <1>4, <1>5, <1>6

LEMMA KeepsWindowCounts ==
  ASSUME NEW commit, Moves(commit)
  PROVE  WindowCounts'
<1>1. /\ WindowCounts /\ WindowRequest /\ WindowTypes /\ Flags /\ Flags' /\ xfer_write \in BOOLEAN
  BY DEF Moves, DInv, IInv, CardTypes
<1>2. CASE fast_state = "IDLE"
  BY <1>2, WindowIdles, WindowStarts DEF WindowCounts
<1>3. CASE fast_state # "IDLE" /\ fast_owns /\ TransferEnds
  <2>1. ~fast_owns'
    BY <1>3, TargetStays, NoGrant DEF fast_owns
  <2>2. fast_state' # "WAIT"
    BY <1>1, <1>3, WindowGoesOn
  <2>3. ASSUME fast_state' = "WRITE" PROVE fast_wr_idx' = 0
    <3>1. ~xfer_write /\ fast_rmw
      BY <1>1, <1>3, <2>3, WindowGoesOn
    <3>2. fast_state = "WAIT" /\ card = "read_end"
      BY <1>1, <1>3, <3>1 DEF WindowRequest, TransferEnds
    <3>3. FastWaits(FALSE)
      BY <1>3, <3>2, WindowInWork
    <3> QED
      BY <1>3, <3>1, <3>2, <3>3 DEF FastWaits
  <2> QED
    BY <2>1, <2>2, <2>3 DEF WindowCounts
<1>4. CASE fast_state = "WAIT" /\ ~(fast_owns /\ TransferEnds)
  <2>1. fast_state' = "WAIT" /\ FastWaits(FALSE)
    BY <1>4, WindowGoesOn, WindowInWork
  <2>2. fast_raw_pos' = IF fast_owns /\ card = "beat" THEN (fast_raw_pos + 1) % (4 * HalfBeats)
                        ELSE fast_raw_pos
    BY <2>1 DEF FastWaits, FastCaptures, fast_beat
  <2>3. CASE ~fast_owns
    <3>1. fast_raw_pos' = 0
      BY <1>1, <1>4, <2>2, <2>3 DEF WindowCounts
    <3>2. fast_owns' => ~xfer_busy /\ xfer_busy'
      BY <1>1, <2>3, NoGrant, GrantMeans DEF fast_owns, Flags
    <3> QED
      BY <1>1, <2>1, <3>1, <3>2, NothingPassed DEF Flags, WindowCounts
  <2>4. CASE fast_owns
    <3>1. xfer_busy /\ ~xfer_write /\ ~TransferEnds /\ fast_raw_pos = Passed("read_end")
      BY <1>1, <1>4, <2>4 DEF WindowRequest, WindowCounts, fast_owns
    <3>2. fast_owns'
      BY <2>4, <3>1, TargetStays, NoGrant DEF fast_owns
    <3>3. card = "beat" => fast_raw_pos < 2 * HalfBeats
      BY <3>1, ReadProgress
    <3>4. fast_raw_pos' = IF card = "beat" THEN fast_raw_pos + 1 ELSE fast_raw_pos
      BY <1>1, <2>2, <2>4, <3>3, NextBeat DEF WindowTypes
    <3> QED
      BY <2>1, <3>1, <3>2, <3>4, ReadProgress DEF WindowCounts
  <2> QED
    BY <2>3, <2>4
<1>5. CASE fast_state = "WRITE" /\ ~(fast_owns /\ TransferEnds)
  <2>1. fast_state' = "WRITE" /\ FastWrites(FALSE)
    BY <1>5, WindowGoesOn, WindowInWork
  <2>2. fast_owns => xfer_write
    BY <1>1, <1>5 DEF WindowRequest
  <2>3. fast_wr_idx' = IF fast_owns /\ card = "req" THEN (fast_wr_idx + 1) % (4 * HalfBeats)
                       ELSE fast_wr_idx
    BY <2>1, <2>2 DEF FastWrites
  <2>4. CASE ~fast_owns
    <3>1. fast_wr_idx' = 0
      BY <1>1, <1>5, <2>3, <2>4 DEF WindowCounts
    <3>2. fast_owns' => ~xfer_busy /\ xfer_busy'
      BY <1>1, <2>4, NoGrant, GrantMeans DEF fast_owns, Flags
    <3> QED
      BY <1>1, <2>1, <3>1, <3>2, NothingPassed DEF Flags, WindowCounts
  <2>5. CASE fast_owns
    <3>1. xfer_busy /\ xfer_write /\ ~TransferEnds /\ fast_wr_idx = Passed("write_end")
      BY <1>1, <1>5, <2>2, <2>5 DEF WindowCounts, fast_owns
    <3>2. fast_owns'
      BY <2>5, <3>1, TargetStays, NoGrant DEF fast_owns
    <3>3. card = "req" => fast_wr_idx < 2 * HalfBeats
      BY <3>1, WriteProgress
    <3>4. fast_wr_idx' = IF card = "req" THEN fast_wr_idx + 1 ELSE fast_wr_idx
      BY <1>1, <2>3, <2>5, <3>3, NextBeat DEF WindowTypes
    <3> QED
      BY <2>1, <3>1, <3>2, <3>4, WriteProgress DEF WindowCounts
  <2> QED
    BY <2>4, <2>5
<1> QED
  BY <1>2, <1>3, <1>4, <1>5, WindowInWork

\* A beat of the window's read, and its end.
LEMMA WindowGathers ==
  ASSUME NEW commit, Moves(commit), fast_state = "WAIT", fast_owns
  PROVE  /\ ~fast_rmw => /\ Gathered(fast_buf', disk'[fast_lba'], fast_half', fast_raw_pos')
                         /\ TransferEnds => Holds(fast_buf', disk'[fast_lba'], fast_half')
         /\ fast_rmw  => /\ Gathered(rmw_buf', disk'[fast_lba'], Other(fast_half'), fast_raw_pos')
                         /\ TransferEnds => Holds(rmw_buf', disk'[fast_lba'], Other(fast_half'))
<1>1. /\ xfer_busy /\ owner_fast /\ ~xfer_write /\ WindowCounts /\ WindowBuffers
      /\ fast_buf \in Buffers /\ rmw_buf \in Buffers /\ fast_half \in Half /\ fast_raw_pos \in Nat
      /\ fast_rmw \in BOOLEAN
  BY DEF Moves, DInv, WindowRequest, fast_owns, WindowTypes, CardTypes
<1>2. disk' = disk /\ fast_lba' = fast_lba /\ fast_half' = fast_half /\ FastWaits(FALSE)
  BY <1>1, DiskSteps, WindowInWork
<1>3. FastCaptures
  BY <1>2 DEF FastWaits
<1>4. fast_raw_pos = Passed("read_end")
  BY <1>1 DEF WindowCounts
<1>5. fast_beat <=> card = "beat"
  BY <1>1 DEF fast_beat, fast_owns
<1>6. Other(fast_half) \in Half /\ \A h \in Half : h # fast_half <=> h = Other(fast_half)
  BY <1>1, HalfSplits
<1>7. CASE card = "beat"
  <2>1. fast_raw_pos = beat /\ beat \in Position /\ read_data = disk[fast_lba][fast_raw_pos]
    BY <1>1, <1>4, <1>7, ReadBeat DEF Passed, Target
  <2>2. fast_raw_pos' = fast_raw_pos + 1
    <3>1. fast_raw_pos < 2 * HalfBeats
      BY <2>1, SdDiskAssumption DEF Position
    <3> QED
      BY <1>1, <1>3, <1>5, <1>7, <3>1, NextBeat DEF FastCaptures
  <2>3. half_of(fast_raw_pos) \in Half
    BY <2>1, PositionSplits
  <2>4. ~TransferEnds
    BY <1>1, <1>7 DEF TransferEnds
  <2>5. ASSUME ~fast_rmw PROVE Gathered(fast_buf', disk[fast_lba], fast_half, fast_raw_pos + 1)
    <3>1. fast_buf' = IF half_of(fast_raw_pos) = fast_half
                      THEN [fast_buf EXCEPT ![fast_raw_pos % HalfBeats] = disk[fast_lba][fast_raw_pos]]
                      ELSE fast_buf
      BY <1>3, <1>5, <1>7, <2>1, <2>5 DEF FastCaptures, fb_sd_we
    <3>2. Gathered(fast_buf, disk[fast_lba], fast_half, fast_raw_pos)
      BY <1>1, <2>5 DEF WindowBuffers
    <3> QED
      BY <1>1, <2>1, <3>1, <3>2, GatherBeat DEF Buffers
  <2>6. ASSUME fast_rmw PROVE Gathered(rmw_buf', disk[fast_lba], Other(fast_half), fast_raw_pos + 1)
    <3>1. rmw_buf' = IF half_of(fast_raw_pos) = Other(fast_half)
                     THEN [rmw_buf EXCEPT ![fast_raw_pos % HalfBeats] = disk[fast_lba][fast_raw_pos]]
                     ELSE rmw_buf
      BY <1>3, <1>5, <1>6, <1>7, <2>1, <2>3, <2>6 DEF FastCaptures, rmw_we
    <3>2. Gathered(rmw_buf, disk[fast_lba], Other(fast_half), fast_raw_pos)
      BY <1>1, <2>6 DEF WindowBuffers
    <3> QED
      BY <1>1, <1>6, <2>1, <3>1, <3>2, GatherBeat DEF Buffers
  <2> QED
    BY <1>2, <2>2, <2>4, <2>5, <2>6
<1>8. CASE card # "beat"
  <2>1. fast_buf' = fast_buf /\ rmw_buf' = rmw_buf /\ fast_raw_pos' = fast_raw_pos
    BY <1>3, <1>5, <1>8 DEF FastCaptures, fb_sd_we, rmw_we
  <2>2. ASSUME TransferEnds PROVE fast_raw_pos = 2 * HalfBeats
    BY <1>1, <1>4, <2>2 DEF TransferEnds, Passed
  <2>3. ~fast_rmw => Gathered(fast_buf, disk[fast_lba], fast_half, fast_raw_pos)
    BY <1>1 DEF WindowBuffers
  <2>4. fast_rmw => Gathered(rmw_buf, disk[fast_lba], Other(fast_half), fast_raw_pos)
    BY <1>1 DEF WindowBuffers
  <2>5. TransferEnds /\ ~fast_rmw => Holds(fast_buf, disk[fast_lba], fast_half)
    BY <1>1, <2>2, <2>3, GatherAll
  <2>6. TransferEnds /\ fast_rmw => Holds(rmw_buf, disk[fast_lba], Other(fast_half))
    BY <1>6, <2>2, <2>4, GatherAll
  <2> QED
    BY <1>2, <2>1, <2>3, <2>4, <2>5, <2>6
<1> QED
  BY <1>7, <1>8

\* While the window's write is on its way, nobody else writes its block.
LEMMA WindowOtherHalfStays ==
  ASSUME NEW commit, Moves(commit), fast_state = "WRITE", NEW b \in Beats
  PROVE  disk'[fast_lba][At(Other(fast_half), b)] = disk[fast_lba][At(Other(fast_half), b)]
<1>1. SUFFICES ASSUME disk' # disk
               PROVE  disk'[fast_lba][At(Other(fast_half), b)] = disk[fast_lba][At(Other(fast_half), b)]
  OBVIOUS
<1>2. xfer_busy /\ xfer_write /\ PutHalf(Target, WrittenHalf, WrittenBuf)
  BY <1>1, DiskSteps
<1>3. /\ DInv /\ IInv /\ SidesApart /\ fast_lba \in Lba /\ fast_half \in Half
      /\ FastTarget(fast_lba, fast_half)
  BY DEF Moves, DInv, WindowTypes, WindowRequest, WindowBuffers
<1>4. Other(fast_half) \in Half /\ Other(fast_half) # fast_half
  BY <1>3, HalfSplits DEF Half, Other
<1>5. CASE ~owner_fast
  <2>1. DriveHalf(Target, WrittenHalf)
    BY <1>2, <1>3, <1>5, WriteIsLatest
  <2>2. Target # fast_lba
    BY <1>3, <2>1, HalvesApart
  <2> QED
    BY <1>2, <1>3, <1>4, <2>2 DEF PutHalf
<1>6. CASE owner_fast
  <2>1. WrittenHalf = fast_half
    BY <1>6 DEF WrittenHalf
  <2> QED
    BY <1>2, <1>3, <1>4, <2>1 DEF PutHalf
<1> QED
  BY <1>5, <1>6

LEMMA KeepsWindowBuffers ==
  ASSUME NEW commit, Moves(commit)
  PROVE  WindowBuffers'
<1>1. /\ WindowBuffers /\ WindowRequest /\ WindowTypes /\ WindowTypes' /\ WindowCounts'
      /\ IInv /\ SidesApart /\ Flags /\ xfer_write \in BOOLEAN
  BY KeepsWindowTypes, KeepsWindowCounts DEF Moves, DInv, IInv, CardTypes
<1>2. \A lba, half : FastTarget(lba, half)' <=> FastTarget(lba, half)
  BY UsesStay DEF Moves, Tick
<1>3. fast_lba' \in Lba /\ fast_half' \in Half /\ Other(fast_half') \in Half
  <2>1. fast_lba' \in Lba /\ fast_half' \in Half
    BY <1>1, UsesStay DEF Moves, Tick, WindowTypes
  <2> QED
    BY <2>1, HalfSplits
<1>4. ASSUME fast_state' # "IDLE", fast_rmw'
      PROVE  /\ FastTarget(fast_lba', fast_half')
             /\ fast_buf' = HalfData(fast_lba', fast_half', latest'[fast_lba'][fast_half'])
  <2>1. CASE fast_state = "IDLE"
    <3>1. Begins(fast_lba', fast_half')
      BY <1>4, <2>1, WindowStarts DEF Begins
    <3>2. /\ FastTarget(fast_lba', fast_half')
          /\ fast_buf' = HalfData(fast_lba', fast_half', latest[fast_lba'][fast_half'] + 1)
      BY <3>1, WindowBegins
    <3>3. latest'[fast_lba'][fast_half'] = latest[fast_lba'][fast_half'] + 1
      BY <1>3, <3>1, LatestMoves
    <3> QED
      BY <3>2, <3>3
  <2>2. CASE fast_state # "IDLE"
    <3>1. fast_rmw /\ fast_lba' = fast_lba /\ fast_half' = fast_half
      BY <1>1, <1>4, <2>2, WindowGoesOn, WindowInWork DEF WindowTypes
    <3>2. FastTarget(fast_lba, fast_half) /\ fast_buf = HalfData(fast_lba, fast_half, latest[fast_lba][fast_half])
      BY <1>1, <2>2, <3>1 DEF WindowBuffers
    <3>3. fast_buf' = fast_buf
      BY <2>2, <3>1, WindowInWork DEF FastWaits, FastWrites, FastCaptures, fb_sd_we
    <3>4. ~Begins(fast_lba, fast_half)
      BY <2>2 DEF Begins
    <3>5. ~(commit /\ Burst = <<fast_lba, fast_half>>)
      <4>1. SUFFICES ASSUME commit, Burst = <<fast_lba, fast_half>> PROVE FALSE
        OBVIOUS
      <4>2. Burst = <<active + wanted \div 2, wanted % 2>> /\ wanted \in DriveTargets /\ active \in Images
        BY <4>1, BurstCommits DEF Moves, DInv, SourceTypes
      <4>3. DriveHalf(fast_lba, fast_half)
        BY <4>1, <4>2 DEF DriveHalf
      <4> QED
        BY <1>1, <3>2, <4>3, HalvesApart
    <3>6. latest'[fast_lba][fast_half] = latest[fast_lba][fast_half]
      BY <1>1, <3>4, <3>5, LatestMoves DEF WindowTypes
    <3> QED
      BY <3>1, <3>2, <3>3, <3>6
  <2> QED
    BY <2>1, <2>2
<1>5. ASSUME fast_state' = "WAIT"
      PROVE  /\ ~fast_rmw' => Gathered(fast_buf', disk'[fast_lba'], fast_half', fast_raw_pos')
             /\ fast_rmw' => Gathered(rmw_buf', disk'[fast_lba'], Other(fast_half'), fast_raw_pos')
  <2>1. CASE fast_raw_pos' = 0
    BY <1>3, <2>1, GatherNone
  <2>2. CASE fast_raw_pos' # 0
    <3>1. fast_owns'
      BY <1>1, <1>5, <2>2 DEF WindowCounts
    <3>2. fast_state # "IDLE"
      BY <1>5, <2>2, WindowStarts
    <3>3. fast_owns
      <4>1. SUFFICES ASSUME ~fast_owns PROVE FALSE
        OBVIOUS
      <4>2. ~xfer_busy /\ xfer_busy'
        BY <1>1, <3>1, <4>1, NoGrant, GrantMeans DEF fast_owns, Flags
      <4>3. Passed("read_end")' = 0
        BY <4>2, NothingPassed
      <4> QED
        BY <1>1, <1>5, <2>2, <3>1, <4>3 DEF WindowCounts
    <3>4. ~TransferEnds
      BY <3>1, <3>3, TargetStays, NoGrant DEF fast_owns
    <3>5. fast_state = "WAIT" /\ fast_rmw' = fast_rmw
      BY <1>5, <3>2, <3>4, WindowGoesOn
    <3> QED
      BY <3>3, <3>5, WindowGathers
  <2> QED
    BY <2>1, <2>2
<1>6. ASSUME fast_state' = "WRITE" PROVE Holds(rmw_buf', disk'[fast_lba'], Other(fast_half'))
  <2>1. fast_state # "IDLE"
    BY <1>6, WindowStarts
  <2>2. CASE fast_state = "WRITE"
    <3>1. UNCHANGED <<fast_lba, fast_half, rmw_buf>>
      BY <2>1, <2>2, WindowInWork DEF FastWrites
    <3>2. Holds(rmw_buf, disk[fast_lba], Other(fast_half))
      BY <1>1, <2>2 DEF WindowBuffers
    <3>3. ASSUME NEW b \in Beats PROVE rmw_buf[b] = disk'[fast_lba][At(Other(fast_half), b)]
      BY <2>2, <3>2, WindowOtherHalfStays DEF Holds
    <3> QED
      BY <3>1, <3>3 DEF Holds
  <2>3. CASE fast_state = "WAIT"
    <3>1. fast_owns /\ TransferEnds
      BY <1>6, <2>1, <2>3, WindowGoesOn
    <3>2. fast_rmw
      BY <1>1, <1>6, <2>1, <2>3, <3>1, WindowGoesOn
    <3> QED
      BY <2>3, <3>1, <3>2, WindowGathers
  <2> QED
    BY <2>1, <2>2, <2>3, WindowInWork
<1> QED
  BY <1>1, <1>2, <1>4, <1>5, <1>6 DEF WindowBuffers, WindowTypes
-----------------------------------------------------------------------------
(* What is on the card. *)

\* A write puts the last version of its half there, and nothing anywhere else.
LEMMA PutsLatest ==
  ASSUME NEW commit, Moves(commit), disk' # disk,
         NEW lba \in Lba, NEW half \in Half, NEW b \in Beats
  PROVE  disk'[lba][At(half, b)] =
           IF lba = Target /\ half = WrittenHalf THEN <<lba, At(half, b), latest[lba][half]>>
           ELSE disk[lba][At(half, b)]
<1>1. /\ xfer_busy /\ xfer_write /\ PutHalf(Target, WrittenHalf, WrittenBuf)
      /\ Target \in Lba /\ WrittenHalf \in Half
  BY DiskSteps
<1>2. WrittenBuf = HalfData(Target, WrittenHalf, latest[Target][WrittenHalf])
  BY <1>1, WriteIsLatest DEF Moves
<1>3. latest[Target][WrittenHalf] \in Nat
  BY <1>1 DEF Moves, DInv, CardTypes
<1>4. WrittenBuf[b] = <<Target, At(WrittenHalf, b), latest[Target][WrittenHalf]>>
  BY <1>1, <1>2, <1>3, HalfDataIs
<1> QED
  BY <1>1, <1>4 DEF PutHalf

LEMMA LatestGrows ==
  ASSUME NEW commit, Moves(commit), NEW lba \in Lba, NEW half \in Half
  PROVE  latest[lba][half] \in Nat /\ latest'[lba][half] \in Nat
         /\ latest[lba][half] <= latest'[lba][half]
<1>1. latest[lba][half] \in Nat
  BY DEF Moves, DInv, CardTypes
<1>2. latest'[lba][half] = latest[lba][half] \/ latest'[lba][half] = latest[lba][half] + 1
  BY LatestMoves
<1> QED
  BY <1>1, <1>2

LEMMA KeepsInPlace ==
  ASSUME NEW commit, Moves(commit)
  PROVE  InPlace'
<1>1. InPlace /\ Lba' = Lba /\ disk \in [Lba -> [Position -> Data]]
  BY UsesStay DEF Moves, Tick, DInv, CardTypes
<1>2. SUFFICES ASSUME NEW lba \in Lba, NEW half \in Half, NEW b \in Beats
               PROVE  /\ disk'[lba][At(half, b)][1] = lba /\ disk'[lba][At(half, b)][2] = At(half, b)
                      /\ disk'[lba][At(half, b)][3] <= latest'[lba][half]
  BY <1>1 DEF InPlace
<1>3. /\ latest[lba][half] \in Nat /\ latest'[lba][half] \in Nat
      /\ latest[lba][half] <= latest'[lba][half]
  BY LatestGrows
<1>4. disk[lba][At(half, b)][3] \in Nat
  BY <1>1, AtSplits DEF Data
<1>5. CASE disk'[lba][At(half, b)] = disk[lba][At(half, b)]
  BY <1>1, <1>3, <1>4, <1>5 DEF InPlace
<1>6. CASE disk'[lba][At(half, b)] = <<lba, At(half, b), latest[lba][half]>>
  BY <1>3, <1>6
<1> QED
  BY <1>5, <1>6, PutsLatest

\* A write of the drive that is over has reached the card, if the card took it.
LEMMA WriteEnds ==
  ASSUME NEW commit, Moves(commit), wr_busy, ~wr_busy', ~CardRejects
  PROVE  /\ disk' = disk
         /\ \A b \in Beats :
              disk[active + wr_sector \div 2][At(wr_sector % 2, b)]
                = <<active + wr_sector \div 2, At(wr_sector % 2, b),
                    latest[active + wr_sector \div 2][wr_sector % 2]>>
<1>1. /\ Bursts /\ Aims /\ MountsQuietly /\ Identifies /\ CardTook /\ SourceTypes /\ IInv
      /\ latest \in [Lba -> [Half -> Nat]]
  BY DEF Moves, DInv, CardTypes
<1>2. /\ wr_sector \in DriveTargets /\ active \in Images
      /\ wr_buf = HalfData(active + wr_sector \div 2, wr_sector % 2,
                           latest[active + wr_sector \div 2][wr_sector % 2])
  BY <1>1 DEF Bursts, SourceTypes
<1>3. ~mount_strobe
  BY <1>1 DEF MountsQuietly, wr_busy, flushing
<1>4. ~SourceFlushes
  <2>1. SUFFICES ASSUME SourceFlushes PROVE FALSE
    OBVIOUS
  <2>2. mounted
    BY <1>1, <2>1 DEF SourceFlushes, Identifies
  <2> QED
    BY <2>1, <2>2 DEF SourceFlushes, wr_busy, flushing
<1>5. ~SourceAimsFlush(commit)
  <2>1. SUFFICES ASSUME SourceAimsFlush(commit) PROVE FALSE
    OBVIOUS
  <2>2. flushing
    BY <2>1 DEF SourceAimsFlush, flushing
  <2>3. fetch \in Sectors
    BY <1>1, <1>2, <2>2, UseFacts DEF Aims
  <2>4. map_valid
    BY <1>1, <2>3, NothingIllegal DEF map_valid
  <2> QED
    BY <2>1, <2>4 DEF SourceAimsFlush, wr_busy, flushing
<1>6. SourceStreams(commit, FALSE) /\ drive_write_end
  BY <1>3, <1>4, <1>5, SourceCases DEF wr_busy, flushing, Pend, SourceWaitsForCard, SourceMounts,
     FetchBam, SourceFetches, SourceMaps, SourceServesBlank, SourceRequests, SourceReads,
     SourcePrereads, SourceIssues, SourceParks, SourceStreams
<1>7. /\ xfer_busy /\ xfer_write /\ ~owner_fast /\ card = "write_end" /\ flushing /\ state # "WR_MAP"
  BY <1>6 DEF SourceStreams, drive_write_end, drive_writes, flushing
<1>8. disk' = disk
  BY <1>7, DiskSteps
<1>9. Holds(wr_buf, disk[target_lba], wr_upper_half)
  BY <1>1, <1>7 DEF CardTook, WrittenBuf, WrittenHalf, Target
<1>10. target_lba = active + wr_sector \div 2 /\ wr_upper_half = wr_sector % 2
  BY <1>1, <1>7 DEF Aims
<1>11. active + wr_sector \div 2 \in Lba /\ wr_sector % 2 \in Half
  BY <1>1, <1>2, UseFacts
<1>12. latest[active + wr_sector \div 2][wr_sector % 2] \in Nat
  BY <1>1, <1>11
<1>13. \A b \in Beats : wr_buf[b] = <<active + wr_sector \div 2, At(wr_sector % 2, b),
                    latest[active + wr_sector \div 2][wr_sector % 2]>>
  BY <1>2, <1>11, <1>12, HalfDataIs
<1> QED
  BY <1>8, <1>9, <1>10, <1>13 DEF Holds

LEMMA KeepsLanded ==
  ASSUME NEW commit, Moves(commit)
  PROVE  Landed'
<1>1. /\ Landed /\ IInv /\ SidesApart /\ Lba' = Lba /\ CardRejects' = CardRejects /\ MountsQuietly
      /\ SourceClock(commit)
      /\ \A lba, half : DriveHalf(lba, half)' <=> DriveHalf(lba, half)
  BY UsesStay DEF Moves, Tick, DInv
<1>2. SUFFICES ASSUME ~CardRejects, NEW lba \in Lba, NEW half \in Half, DriveHalf(lba, half)
               PROVE  \/ \A b \in Beats : disk'[lba][At(half, b)] = <<lba, At(half, b), latest'[lba][half]>>
                      \/ wr_busy' /\ lba = active' + wr_sector' \div 2 /\ half = wr_sector' % 2
  BY <1>1 DEF Landed
<1>3. ~Begins(lba, half)
  BY <1>1, <1>2, WindowBegins, HalvesApart
<1>4. CASE commit /\ Burst = <<lba, half>>
  <2>1. /\ ~mount_strobe /\ ~wr_commit_pend /\ wr_sector' = wanted
        /\ lba = active + wanted \div 2 /\ half = wanted % 2
    BY <1>4, BurstCommits
  <2>2. active' = active
    BY <2>1, ImageStays
  <2>3. wr_busy'
    BY <1>4, <2>1, SourceCases DEF wr_busy, SourceWaitsForCard, SourceMounts, SourceFlushes,
       SourceFetches, SourceMaps, SourceServesBlank, SourceRequests, SourceReads,
       SourceAimsFlush, SourcePrereads, SourceIssues, SourceParks, SourceStreams, Pend
  <2> QED
    BY <2>1, <2>2, <2>3
<1>5. CASE ~(commit /\ Burst = <<lba, half>>)
  <2>1. latest'[lba][half] = latest[lba][half]
    BY <1>3, <1>5, LatestMoves
  <2>2. CASE \A b \in Beats : disk[lba][At(half, b)] = <<lba, At(half, b), latest[lba][half]>>
    <3>1. ASSUME NEW b \in Beats PROVE disk'[lba][At(half, b)] = <<lba, At(half, b), latest[lba][half]>>
      BY <2>2, PutsLatest
    <3> QED
      BY <2>1, <3>1
  <2>3. CASE wr_busy /\ lba = active + wr_sector \div 2 /\ half = wr_sector % 2
    <3>1. ~mount_strobe
      BY <1>1, <2>3 DEF MountsQuietly, wr_busy, flushing
    <3>2. active' = active /\ wr_sector' = wr_sector
      BY <2>3, <3>1, ImageStays, BurstCommits DEF Moves
    <3>3. CASE ~wr_busy'
      <4>1. \A b \in Beats : disk'[lba][At(half, b)] = <<lba, At(half, b), latest[lba][half]>>
        BY <1>2, <2>3, <3>3, WriteEnds
      <4> QED
        BY <2>1, <4>1
    <3> QED
      BY <2>3, <3>2, <3>3
  <2> QED
    BY <1>1, <1>2, <2>2, <2>3 DEF Landed
<1> QED
  BY <1>4, <1>5
-----------------------------------------------------------------------------
(* The invariant, and what it says of the properties. *)

LEMMA InitTypes ==
  ASSUME Init
  PROVE  /\ NoData \in Buffers /\ active \in Images /\ active \in Lba
         /\ disk \in [Lba -> [Position -> Data]] /\ latest \in [Lba -> [Half -> Nat]]
         /\ 0 \in Position /\ 0 \in Half /\ 0 \in Sectors
<1>1. Use(uses)
  BY SdDiskAssumption DEF Init
<1>2. 0 \in Sectors /\ Images \subseteq Nat /\ active \in Images
  BY <1>1 DEF Use, Images, Sectors, Init
<1>3. active \in Lba
  <2>1. active = active + 0 \div 2
    BY <1>2
  <2> QED
    BY <1>2, <2>1 DEF Lba
<1>4. (CHOOSE lba \in Lba : TRUE) \in Lba
  BY <1>3
<1>5. 0 \in Half /\ 0 \in Position
  BY SdDiskAssumption DEF Half, Position
<1>6. NoData \in Buffers
  BY <1>4, <1>5, HalfDataIs DEF NoData, PowerUp
<1>7. disk \in [Lba -> [Position -> Data]] /\ latest \in [Lba -> [Half -> Nat]]
  BY DEF Init, Data
<1> QED
  BY <1>2, <1>3, <1>5, <1>6, <1>7

LEMMA DInitially == Init => DInv
<1> SUFFICES ASSUME Init PROVE DInv
  OBVIOUS
<1>1. SourceTypes /\ WindowTypes /\ CardTypes
  <2>1. SourceTypes
    BY InitTypes DEF Init, SourceTypes, WantedSectors, States
  <2>2. WindowTypes
    BY InitTypes DEF Init, WindowTypes
  <2>3. CardTypes
    <3>1. 0 \in 0 .. 2 * HalfBeats /\ <<>> \in Seq(Data)
      BY SdDiskAssumption
    <3>2. /\ xfer_write = FALSE /\ beat = 0 /\ sec_addr = active /\ incoming = <<>>
          /\ cmd_error = FALSE
      BY DEF Init
    <3> QED
      BY <3>1, <3>2, InitTypes DEF CardTypes
  <2> QED
    BY <2>1, <2>2, <2>3
<1>2. CardPhase /\ CardCounts
  BY DEF Init, CardPhase, CardAtRest, CardCounts
<1>3. DriveRequest /\ DriveCounts /\ MountsQuietly /\ Bursts /\ Aims /\ DriveBuffers
  BY DEF Init, DriveRequest, DriveCounts, MountsQuietly, Bursts, Aims, DriveBuffers, Transfers,
     Reads, flushing, wr_busy
<1>4. WindowRequest /\ WindowCounts /\ WindowBuffers
  BY DEF Init, WindowRequest, WindowCounts, WindowBuffers, fast_owns
<1>5. Given /\ CardTook
  BY DEF Init, Given, CardTook
<1>6. InPlace /\ Landed
  <2>1. ASSUME NEW lba \in Lba, NEW half \in Half, NEW b \in Beats
        PROVE  disk[lba][At(half, b)] = <<lba, At(half, b), 0>> /\ latest[lba][half] = 0
    BY AtSplits DEF Init
  <2>2. InPlace
    BY <2>1 DEF InPlace
  <2>3. Landed
    <3>1. SUFFICES ASSUME NEW lba \in Lba, NEW half \in Half
                   PROVE  \A b \in Beats : disk[lba][At(half, b)] = <<lba, At(half, b), latest[lba][half]>>
      BY DEF Landed
    <3> QED
      BY <2>1
  <2> QED
    BY <2>2, <2>3
<1>7. Loads /\ Identifies
  BY DEF Init, Loads, Identifies
<1> QED
  BY <1>1, <1>2, <1>3, <1>4, <1>5, <1>6, <1>7 DEF DInv

LEMMA DStays ==
  ASSUME DInv, UNCHANGED vars
  PROVE  DInv'
<1> USE DEF vars, gcrVars, sourceVars, windowVars, arbiterVars, cardVars
<1>1. UNCHANGED <<uses, Images, Sectors, DriveTargets, FastTargets, CardRejects, Lba,
                  WantedSectors, Data, Buffers>>
      /\ (\A lba, half : (DriveHalf(lba, half)' <=> DriveHalf(lba, half))
                      /\ (FastTarget(lba, half)' <=> FastTarget(lba, half)))
  BY UsesStay
<1>2. SourceTypes' /\ WindowTypes' /\ CardTypes'
  BY <1>1 DEF DInv, SourceTypes, WindowTypes, CardTypes
<1>3. CardPhase' /\ CardCounts'
  BY DEF DInv, CardPhase, CardAtRest, CardCalled, CardWorks, Target, CardCounts
<1>4. DriveRequest' /\ DriveCounts' /\ MountsQuietly'
  BY DEF DInv, DriveRequest, DriveCounts, MountsQuietly, Transfers, Reads, Passed
<1>5. Bursts' /\ Aims' /\ DriveBuffers'
  BY <1>1 DEF DInv, Bursts, Aims, DriveBuffers, wr_busy, flushing, Gathered, Holds
<1>6. WindowRequest' /\ WindowCounts'
  BY DEF DInv, WindowRequest, WindowCounts, fast_owns, Passed
<1>7. WindowBuffers'
  BY <1>1 DEF DInv, WindowBuffers, Gathered, Holds
<1>8. Given' /\ CardTook'
  BY <1>1 DEF DInv, Given, CardTook, WrittenBuf, WrittenHalf, KeptBuf, Holds, Target
<1>9. InPlace'
  BY <1>1 DEF DInv, InPlace
<1>10. Landed'
  BY <1>1 DEF DInv, Landed, wr_busy, flushing
<1>11. Loads'
  BY <1>1 DEF DInv, Loads, Holds
<1>12. Identifies'
  BY DEF DInv, Identifies, IdRight, IdBeat
<1> QED
  BY <1>2, <1>3, <1>4, <1>5, <1>6, <1>7, <1>8, <1>9, <1>10, <1>11, <1>12 DEF DInv

LEMMA ClockMoves ==
  ASSUME IInv, IInv', DInv, Next, Patient, ~RemountAnytime, ImagesApart, SidesApart
  PROVE  \E commit : Moves(commit)
<1>1. PICK commit \in BOOLEAN : Tick(commit)
  BY DEF Next, Clock, Tick
<1> QED
  BY <1>1 DEF Moves

LEMMA DStep ==
  ASSUME IInv, IInv', DInv, [Next]_vars, Patient, ~RemountAnytime, ImagesApart, SidesApart
  PROVE  DInv'
<1>1. CASE UNCHANGED vars
  BY <1>1, DStays
<1>2. CASE Next
  <2>1. PICK commit : Moves(commit)
    BY <1>2, ClockMoves
  <2>2. SourceTypes' /\ WindowTypes' /\ CardTypes' /\ CardPhase' /\ CardCounts'
    BY <2>1, KeepsSourceTypes, KeepsWindowTypes, KeepsCardTypes, KeepsCardPhase, KeepsCardCounts
  <2>3. DriveRequest' /\ DriveCounts' /\ MountsQuietly' /\ Bursts' /\ Aims' /\ DriveBuffers'
    BY <2>1, KeepsDriveRequest, KeepsDriveCounts, KeepsMountsQuietly, KeepsBursts, KeepsAims,
       KeepsDriveBuffers
  <2>4. WindowRequest' /\ WindowCounts' /\ WindowBuffers'
    BY <2>1, KeepsWindowRequest, KeepsWindowCounts, KeepsWindowBuffers
  <2>5. Given' /\ CardTook' /\ InPlace' /\ Landed' /\ Loads' /\ Identifies'
    BY <2>1, KeepsGiven, KeepsCardTook, KeepsInPlace, KeepsLanded, KeepsLoads, KeepsIdentifies
  <2> QED
    BY <2>2, <2>3, <2>4, <2>5 DEF DInv
<1> QED
  BY <1>1, <1>2

LEMMA Patience == Patient => DrivePatient
BY DEF Patient, DrivePatient

\* A buffer that holds a half of a block is that half as the card has it.
LEMMA HoldsIs ==
  ASSUME DInv, NEW buffer \in Buffers, NEW lba, NEW half, Holds(buffer, disk[lba], half)
  PROVE  buffer = OnDisk(lba, half)
<1>1. buffer \in [Beats -> Data]
  BY DEF Buffers
<1>2. \A b \in Beats : buffer[b] = disk[lba][half * HalfBeats + b]
  BY DEF Holds, At
<1> QED
  BY <1>1, <1>2 DEF OnDisk, Beats

LEMMA ServesMounted == DInv /\ IInv => MountedDiskServed
<1> SUFFICES ASSUME DInv, IInv, valid PROVE MountedDiskServed
  BY DEF MountedDiskServed, DriveReadsDisk, IdOfMountedDisk
<1>1. state = "READY" /\ loaded = wanted /\ mounted
  BY DEF valid
<1>2. SourceTypes /\ Loads /\ Identifies
  BY DEF DInv
<1>3. loaded # None
  BY <1>1, <1>2, NothingIllegal DEF SourceTypes
<1>4. blank_sector = (loaded = Illegal)
  BY <1>1, <1>2, <1>3 DEF Loads
<1>5. ASSUME loaded \in Sectors \ FastTargets PROVE sec_buf = SectorOnDisk(active, loaded)
  <2>1. Holds(sec_buf, disk[active + loaded \div 2], loaded % 2)
    BY <1>1, <1>2, <1>3, <1>5 DEF Loads
  <2> QED
    BY <1>2, <2>1, HoldsIs DEF SectorOnDisk, SourceTypes
<1>6. IdRight
  BY <1>1, <1>2 DEF Identifies
<1>7. DriveReadsDisk
  BY <1>4, <1>5 DEF DriveReadsDisk
<1>8. IdOfMountedDisk
  BY <1>6 DEF IdRight, IdOfMountedDisk
<1> QED
  BY <1>7, <1>8 DEF MountedDiskServed

LEMMA WritesReachCard == DInv /\ IInv => WritesLand
<1> SUFFICES ASSUME DInv, IInv PROVE WritesLand
  OBVIOUS
<1>1. Landed /\ InPlace /\ latest \in [Lba -> [Half -> Nat]]
  BY DEF DInv, CardTypes
<1>2. ASSUME ~wr_busy, ~CardRejects, NEW img \in Images, NEW s \in DriveTargets
      PROVE  SectorOnDisk(img, s) = HalfData(img + s \div 2, s % 2, latest[img + s \div 2][s % 2])
  <2> DEFINE lba == img + s \div 2
             half == s % 2
  <2>1. DriveHalf(lba, half) /\ lba \in Lba /\ half \in Half
    BY UseFacts DEF DriveHalf
  <2> HIDE DEF lba, half
  <2>2. \A b \in Beats : disk[lba][At(half, b)] = <<lba, At(half, b), latest[lba][half]>>
    BY <1>1, <1>2, <2>1 DEF Landed
  <2>3. OnDisk(lba, half) = HalfData(lba, half, latest[lba][half])
    BY <2>2 DEF OnDisk, HalfData, Beats, At
  <2> QED
    BY <2>3 DEF SectorOnDisk, lba, half
<1>3. ASSUME NEW lba \in Lba, NEW p \in Position
      PROVE  disk[lba][p][1] = lba /\ disk[lba][p][2] = p
  BY <1>1, PositionSplits DEF InPlace
<1> QED
  BY <1>2, <1>3 DEF WritesLand, DriveWritesLand, HalvesKeepTheirData

LEMMA NothingAges ==
  ASSUME IInv, IInv', DInv, Next, Patient, ~RemountAnytime, ImagesApart, SidesApart
  PROVE  \A lba \in Lba, p \in Position : disk'[lba][p][3] >= disk[lba][p][3]
<1>1. PICK commit : Moves(commit)
  BY ClockMoves
<1> SUFFICES ASSUME NEW lba \in Lba, NEW p \in Position
             PROVE  disk'[lba][p][3] >= disk[lba][p][3]
  OBVIOUS
<1>2. disk \in [Lba -> [Position -> Data]] /\ InPlace /\ latest \in [Lba -> [Half -> Nat]]
  BY DEF DInv, CardTypes
<1>3. disk[lba][p][3] \in Nat
  BY <1>2 DEF Data
<1>4. CASE disk'[lba][p] = disk[lba][p]
  BY <1>3, <1>4
<1>5. CASE disk'[lba][p] # disk[lba][p]
  <2> DEFINE half == half_of(p)
             b == p % HalfBeats
  <2>1. half \in Half /\ b \in Beats /\ p = At(half, b)
    BY PositionSplits
  <2> HIDE DEF half, b
  <2>2. disk'[lba][p] = <<lba, p, latest[lba][half]>>
    BY <1>1, <1>5, <2>1, PutsLatest
  <2>3. disk[lba][p][3] <= latest[lba][half] /\ latest[lba][half] \in Nat
    BY <1>2, <2>1 DEF InPlace
  <2> QED
    BY <1>3, <2>2, <2>3
<1> QED
  BY <1>4, <1>5

LEMMA WindowTells ==
  ASSUME IInv, IInv', DInv, DInv', Next, Patient, ~RemountAnytime, ImagesApart, SidesApart
  PROVE  fast_ready' /\ ~fast_ready /\ ~fast_error' => fast_buf' = OnDisk(fast_lba, fast_half)'
<1>1. PICK commit : Moves(commit)
  BY ClockMoves
<1> SUFFICES ASSUME fast_ready', ~fast_ready, ~fast_error'
             PROVE  fast_buf' = OnDisk(fast_lba, fast_half)'
  OBVIOUS
<1>2. fast_state # "IDLE"
  <2>1. SUFFICES ASSUME fast_state = "IDLE" PROVE FALSE
    OBVIOUS
  <2>2. fast_state' # "IDLE"
    BY <1>1, <2>1, WindowIdles
  <2>3. FastCommand
    BY <1>1, <2>1, <2>2, WindowCases DEF FastIllegal, FastRefuses, FastIdle, FastWaits, FastWrites
  <2> QED
    BY <2>3 DEF FastCommand, FastStarts, FastRefuses
<1>3. Holds(fast_buf', disk'[fast_lba'], fast_half')
  <2>1. CASE fast_state = "WAIT"
    <3>1. FastWaits(FALSE)
      BY <1>1, <1>2, <2>1, WindowInWork
    <3>2. fast_owns /\ card = "read_end" /\ ~fast_rmw
      BY <3>1 DEF FastWaits
    <3>3. TransferEnds
      BY <2>1, <3>2 DEF DInv, WindowRequest, CardTypes, fast_owns, TransferEnds
    <3> QED
      BY <1>1, <2>1, <3>2, <3>3, WindowGathers
  <2>2. CASE fast_state = "WRITE"
    <3>1. FastWrites(FALSE)
      BY <1>1, <1>2, <2>2, WindowInWork
    <3>2. /\ fast_owns /\ xfer_write /\ card = "write_end" /\ ~cmd_error
          /\ UNCHANGED <<fast_lba, fast_half, fast_buf>>
      BY <3>1 DEF FastWrites, fast_write_refused
    <3>3. Holds(fast_buf, disk[fast_lba], fast_half)
      BY <3>2 DEF DInv, CardTook, fast_owns, WrittenBuf, WrittenHalf, Target
    <3>4. disk' = disk
      BY <1>1, <3>2, DiskSteps
    <3> QED
      BY <3>2, <3>3, <3>4
  <2> QED
    BY <1>1, <1>2, <2>1, <2>2, WindowInWork
<1>4. fast_buf' \in [Beats -> Data']
  BY DEF DInv, WindowTypes, Buffers
<1>5. \A b \in Beats : fast_buf'[b] = disk'[fast_lba'][fast_half' * HalfBeats + b]
  BY <1>3 DEF Holds, At
<1>6. OnDisk(fast_lba, fast_half)'
        = [b \in 0 .. HalfBeats - 1 |-> disk'[fast_lba'][fast_half' * HalfBeats + b]]
  BY DEF OnDisk
<1> QED
  BY <1>4, <1>5, <1>6 DEF Beats

\* What the head passes over is the mounted disk as the card has it now: its
\* data, its blank sectors and the ID in its headers, whichever side used the
\* card in between, for every set of images and sectors, size of a block and
\* latency of the card.
THEOREM MountedDisk ==
  ASSUME Patient, ~RemountAnytime, ImagesApart, SidesApart
  PROVE  Spec => []MountedDiskServed
BY Initially, Step, Patience, DInitially, DStep, ServesMounted, PTL DEF Spec

\* A write of the drive that is over is on the card, if the card takes blocks;
\* and no half of a block ever holds what was meant for another place.
THEOREM FlushesLand ==
  ASSUME Patient, ~RemountAnytime, ImagesApart, SidesApart
  PROVE  Spec => []WritesLand
BY Initially, Step, Patience, DInitially, DStep, WritesReachCard, PTL DEF Spec

\* The read-modify-write of one half never puts an older other half back.
THEOREM OtherHalfNew ==
  ASSUME Patient, ~RemountAnytime, ImagesApart, SidesApart
  PROVE  Spec => OtherHalfPreserved
BY Initially, Step, Patience, DInitially, DStep, NothingAges, PTL DEF Spec, OtherHalfPreserved

\* When the window reports a command done without an error, the buffer the
\* programs read is the half of the block they named, as the card has it.
THEOREM WindowTellsTruth ==
  ASSUME Patient, ~RemountAnytime, ImagesApart, SidesApart
  PROVE  Spec => FastWindowAgrees
BY Initially, Step, Patience, DInitially, DStep, WindowTells, PTL DEF Spec, FastWindowAgrees
=============================================================================
