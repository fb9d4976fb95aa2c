------------------------------- MODULE SdDisk -------------------------------
(***************************************************************************)
(* One SD card behind the C64's 1541 drive and its fastload window: the    *)
(* drive's sector source (c1541_sd_d64_sector_source), the window and the  *)
(* arbiter (tang20k_c64_ddr_top), and the card's controller                *)
(* (sd_card_sec_read_write), one clock per step.                           *)
(*                                                                         *)
(* A card block is two halves of HalfBeats beats; a disk sector is one     *)
(* half.  A beat stands for a run of bytes; its contents are a datum       *)
(* <<lba, position, version>>: where it was meant to go, and which write   *)
(* of that sector it belongs to (0 is what the card held at power-up).     *)
(* The power-up boot loader's requests are over before the C64 runs.       *)
(***************************************************************************)
EXTENDS Naturals, Sequences

CONSTANTS Uses,           \* what the programs of a behaviour do with the disk, see Use
          HalfBeats,      \* beats of a half block
          MaxVersion,     \* bound: writes of one sector
          RemountAnytime, \* FALSE: programs mount only while the drive is at rest
          Illegal,        \* a track and sector the map refuses
          None

\* One behaviour's use of the disk: the start LBAs of its images, the legal
\* sectors of an image, numbered by the sector map; the sectors that the
\* drive's and the window's programs write; the halves of blocks the window is
\* asked for (a bound); whether the card may refuse a block; and whose transfers
\* may outlast its timeout: the "window" gives up after FAST_TIMEOUT, the
\* "drive" a flush after wr_guard.
Use(u) ==
  /\ DOMAIN u = {"images", "sectors", "drive", "fast", "asks", "rejects", "timeouts"}
  /\ u.images \subseteq Nat /\ u.images # {}
  /\ u.sectors \subseteq Nat /\ 0 \in u.sectors
  /\ u.drive \subseteq u.sectors /\ u.fast \subseteq u.sectors
  /\ u.asks \subseteq Nat \X {0, 1} /\ u.rejects \in BOOLEAN
  /\ u.timeouts \subseteq {"drive", "window"}

ASSUME SdDiskAssumption ==
  /\ \A u \in Uses : Use(u)
  /\ HalfBeats \in Nat \ {0} /\ MaxVersion \in Nat
  /\ Illegal \notin Nat /\ None \notin Nat \union {Illegal}
  /\ None \notin {"read", "write"} \X Nat /\ None \notin Nat \X Nat \X Nat   \* call, datum
  /\ None \notin {"drive_read", "drive_write", "fast_read", "fast_write"}
  /\ RemountAnytime \in BOOLEAN

VARIABLE uses   \* the use of this behaviour, which never changes

Images       == uses.images
Sectors      == uses.sectors
DriveTargets == uses.drive
FastTargets  == uses.fast
WindowAsks   == uses.asks
CardRejects  == uses.rejects
Timeouts     == uses.timeouts

Position == 0 .. 2 * HalfBeats - 1        \* beats of a block
Half == {0, 1}
Lba == {img + s \div 2 : img \in Images, s \in Sectors}
Datum == Lba \X Position \X (0 .. MaxVersion)
Buffer == [0 .. HalfBeats - 1 -> Datum]

half_of(pos) == (pos \div HalfBeats) % 2
\* The data of a half of a block, in its given version.
HalfData(lba, half, ver) == [b \in 0 .. HalfBeats - 1 |-> <<lba, half * HalfBeats + b, ver>>]

VARIABLES
  \* the GCR engine, as the sector source sees it
  wanted,         \* track and sector under the head
  writing,        \* a write burst is being decoded
  burst_image,    \* history: the image mounted when it began
  \* the sector source
  state, loaded, blank_sector, fetch, active, mounted, target_lba, upper_half,
  wr_upper_half, raw_pos, sec_buf, id_fetch, disk_id, wr_buf, wr_commit_pend,
  wr_sector, wr_widx, sd_read_r, sd_write_r,
  \* the fastload window
  fast_state, fast_ready, fast_error, fast_lba, fast_half, fast_raw_pos, fast_rmw,
  fast_wr_idx, fast_buf, rmw_buf, sd_mounted, fast_mount_lba, mount_strobe,
  \* the arbiter
  drive_req, drive_wrreq, fast_req_pend, fast_wrreq_pend, issue, xfer_busy,
  owner_fast, xfer_write,
  \* the card and its controller
  card, sec_addr, beat, incoming, cmd_error, disk,
  latest          \* history: the last version written to each half of a block

gcrVars == <<wanted, writing, burst_image>>
sourceVars == <<state, loaded, blank_sector, fetch, active, mounted, target_lba,
                upper_half, wr_upper_half, raw_pos, sec_buf, id_fetch, disk_id, wr_buf,
                wr_commit_pend, wr_sector, wr_widx, sd_read_r, sd_write_r>>
windowVars == <<fast_state, fast_ready, fast_error, fast_lba, fast_half, fast_raw_pos,
                fast_rmw, fast_wr_idx, fast_buf, rmw_buf, sd_mounted, fast_mount_lba,
                mount_strobe>>
arbiterVars == <<drive_req, drive_wrreq, fast_req_pend, fast_wrreq_pend, issue,
                 xfer_busy, owner_fast, xfer_write>>
cardVars == <<card, sec_addr, beat, incoming, cmd_error, disk>>
vars == <<uses, gcrVars, sourceVars, windowVars, arbiterVars, cardVars, latest>>

(***************************************************************************)
(* Wires.  A definition Name_Variant before Name is a plausible bug: the    *)
(* mutants of the properties put in the place of Name.                     *)
(***************************************************************************)
sd_init_done == card # "init"
read_data == disk[sec_addr][beat]

drive_reads == xfer_busy /\ ~owner_fast /\ ~xfer_write
drive_writes == xfer_busy /\ ~owner_fast /\ xfer_write
fast_owns == xfer_busy /\ owner_fast

drive_valid == drive_reads /\ card = "beat"
drive_read_end_AnyOwner == xfer_busy /\ card = "read_end"
drive_read_end == drive_reads /\ card = "read_end"
drive_data_req == drive_writes /\ card = "req"
drive_write_end == drive_writes /\ card = "write_end"

flushing == state \in {"WR_MAP", "WR_RMW_START", "WR_RMW_WAIT", "WR_ISSUE", "WR_STREAM"}
valid == state = "READY" /\ loaded = wanted /\ mounted
wr_busy_FlushOnly == flushing
wr_busy == wr_commit_pend \/ flushing

sec_wr_en_FetchOnly == drive_valid /\ state = "DRV_WAIT" /\ half_of(raw_pos) = upper_half
sec_wr_en == /\ drive_valid
             /\ \/ state = "DRV_WAIT" /\ half_of(raw_pos) = upper_half
                \/ state = "WR_RMW_WAIT" /\ half_of(raw_pos) # wr_upper_half

\* The byte each side offers the card: the written half from its buffer, the
\* other half from what the pre-read parked.  `elsewhere' is where the buffer's
\* one read port points when no write is being streamed.
drive_wr_data(elsewhere) ==
  IF half_of(wr_widx) = wr_upper_half THEN wr_buf[wr_widx % HalfBeats]
  ELSE sec_buf[IF state \in {"WR_ISSUE", "WR_STREAM"} THEN wr_widx % HalfBeats ELSE elsewhere]
fast_wr_data(elsewhere) ==
  IF half_of(fast_wr_idx) = fast_half
  THEN fast_buf[IF fast_state = "WRITE" THEN fast_wr_idx % HalfBeats ELSE elsewhere]
  ELSE rmw_buf[fast_wr_idx % HalfBeats]
sd_wr_data(elsewhere) == IF owner_fast THEN fast_wr_data(elsewhere) ELSE drive_wr_data(elsewhere)

(***************************************************************************)
(* The card: it answers in its own time, one transfer at a time, and looks *)
(* at requests only between transfers.                                     *)
(***************************************************************************)
CardRests == UNCHANGED cardVars

CardReady == /\ card = "init" /\ card' = "wait"
             /\ UNCHANGED <<sec_addr, beat, incoming, cmd_error, disk>>

CardAccepts == /\ card = "wait" /\ issue # None
               /\ card' = IF issue[1] = "write" THEN "cmd24" ELSE "cmd17"
               /\ sec_addr' = issue[2]
               /\ UNCHANGED <<beat, incoming, cmd_error, disk>>

CardBegins == /\ card \in {"cmd17", "cmd24"}
              /\ card' = IF card = "cmd24" THEN "write" ELSE "read"
              /\ UNCHANGED <<sec_addr, beat, incoming, cmd_error, disk>>

CardSends == /\ \/ card = "read" /\ beat < 2 * HalfBeats /\ card' = "beat" /\ beat' = beat
                \/ card = "beat" /\ card' = "read" /\ beat' = beat + 1
                \/ card = "read" /\ beat = 2 * HalfBeats /\ card' = "read_end" /\ beat' = 0
             /\ UNCHANGED <<sec_addr, incoming, cmd_error, disk>>

CardTakes == /\ \/ /\ card = "write" /\ beat < 2 * HalfBeats
                   /\ card' = "req" /\ UNCHANGED <<beat, incoming>>
                \/ /\ card = "req" /\ card' = "write" /\ beat' = beat + 1
                   /\ \E elsewhere \in 0 .. HalfBeats - 1 :
                        incoming' = Append(incoming, sd_wr_data(elsewhere))
             /\ UNCHANGED <<sec_addr, cmd_error, disk>>

Written == [disk EXCEPT ![sec_addr] = [p \in Position |-> incoming[p + 1]]]

CardWrites == /\ card = "write" /\ beat = 2 * HalfBeats
              /\ card' = "write_end" /\ beat' = 0 /\ incoming' = <<>>
              /\ \/ cmd_error' = FALSE /\ disk' = Written
                 \/ CardRejects /\ cmd_error' = TRUE /\ disk' \in {disk, Written}
              /\ UNCHANGED sec_addr

CardEnds == /\ card \in {"read_end", "write_end"}
            /\ card' = "wait" /\ cmd_error' = FALSE
            /\ UNCHANGED <<sec_addr, beat, incoming, disk>>

CardMoves == CardReady \/ CardBegins \/ CardSends \/ CardTakes \/ CardWrites

\* States the controller leaves in one clock; in the others it waits for the card.
CardHurries == card \in {"beat", "req", "read_end", "write_end"} \/ (card = "wait" /\ issue # None)

CardClock == CardMoves \/ CardAccepts \/ CardEnds \/ (~CardHurries /\ CardRests)

(***************************************************************************)
(* The arbiter: requests are latched, and the card is granted to one of    *)
(* them for a whole transfer.                                              *)
(***************************************************************************)
Grant == IF xfer_busy THEN None
         ELSE IF drive_req # None THEN "drive_read"
         ELSE IF drive_wrreq # None THEN "drive_write"
         ELSE IF fast_req_pend THEN "fast_read"
         ELSE IF fast_wrreq_pend THEN "fast_write"
         ELSE None

GrantedAddress == CASE Grant = "drive_read" -> drive_req
                    [] Grant = "drive_write" -> drive_wrreq
                    [] OTHER -> fast_lba

TransferEnds_ReadsOnly == xfer_busy /\ ~xfer_write /\ card = "read_end"
TransferEnds == /\ xfer_busy
                /\ card = IF xfer_write THEN "write_end" ELSE "read_end"

ArbiterGrants ==
  /\ Grant # None
  /\ xfer_write' = (Grant \in {"drive_write", "fast_write"})
  /\ owner_fast' = (Grant \in {"fast_read", "fast_write"})
  /\ issue' = <<IF xfer_write' THEN "write" ELSE "read", GrantedAddress>>
  /\ xfer_busy' = TRUE

ArbiterWaits ==
  /\ Grant = None
  /\ xfer_busy' = (xfer_busy /\ ~TransferEnds)
  /\ issue' = None
  /\ UNCHANGED <<owner_fast, xfer_write>>

\* A request of the drive; a grant in the same clock clears what it finds.
LatchDrive ==
  /\ drive_req' = IF Grant = "drive_read" THEN None
                  ELSE IF sd_read_r THEN target_lba ELSE drive_req
  /\ drive_wrreq' = IF Grant = "drive_write" THEN None
                    ELSE IF sd_write_r THEN target_lba ELSE drive_wrreq

ArbiterClock == LatchDrive /\ (ArbiterGrants \/ ArbiterWaits)

(***************************************************************************)
(* The fastload window.  A command names a sector of the mounted image     *)
(* ($DF0B, $DF0E bit 0) or half of any block ($DF0D, $DF0E bit 1); a write *)
(* command is preceded by the stores that fill the buffer.  Programs poll  *)
(* the busy bit: the window ignores commands while it is busy.             *)
(***************************************************************************)
Granted(request, pending) == pending /\ Grant # request

FastTarget(lba, half) == \E img \in Images, s \in FastTargets :
                            lba = img + s \div 2 /\ half = s % 2

FastMayStart_WhileDraining(mapped) == sd_init_done /\ (mapped => sd_mounted)

\* A D64 command needs a mount, and no command begins while the transfer of an
\* aborted one is still draining.
FastMayStart(mapped) == sd_init_done /\ (mapped => sd_mounted) /\ ~fast_owns

FastStarts(lba, half, write) ==
  /\ fast_lba' = lba /\ fast_half' = half /\ fast_rmw' = (fast_rmw \/ write)
  /\ fast_raw_pos' = 0 /\ fast_error' = FALSE /\ fast_ready' = FALSE
  /\ fast_req_pend' = (Grant # "fast_read") /\ fast_state' = "WAIT"

FastRefuses ==
  /\ fast_ready' = FALSE /\ fast_error' = TRUE
  /\ UNCHANGED <<fast_lba, fast_half, fast_rmw, fast_raw_pos, fast_state>>
  /\ fast_req_pend' = Granted("fast_read", fast_req_pend)

FastCommand ==
  /\ fast_state = "IDLE" /\ ~mount_strobe'
  /\ \E lba \in Lba, half \in Half, write \in BOOLEAN, mapped \in BOOLEAN :
       /\ <<lba, half>> \in WindowAsks
       /\ mapped => \E s \in Sectors : lba = fast_mount_lba + s \div 2 /\ half = s % 2
       /\ IF write
          THEN /\ FastTarget(lba, half) /\ latest[lba][half] < MaxVersion
               /\ fast_buf' = HalfData(lba, half, latest[lba][half] + 1)
          ELSE UNCHANGED fast_buf
       /\ IF FastMayStart(mapped)
          THEN FastStarts(lba, half, write) ELSE FastRefuses
  /\ fast_wrreq_pend' = Granted("fast_write", fast_wrreq_pend)
  /\ UNCHANGED <<fast_wr_idx, rmw_buf>>

\* A sector the map refuses.
FastIllegal ==
  /\ fast_state = "IDLE" /\ ~mount_strobe' /\ FastRefuses
  /\ fast_wrreq_pend' = Granted("fast_write", fast_wrreq_pend)
  /\ UNCHANGED <<fast_wr_idx, rmw_buf, fast_buf>>

FastIdle ==
  /\ fast_state = "IDLE"
  /\ fast_error' \in {fast_error, FALSE}               \* $DF0B bit 1
  /\ fast_req_pend' = Granted("fast_read", fast_req_pend)
  /\ fast_wrreq_pend' = Granted("fast_write", fast_wrreq_pend)
  /\ UNCHANGED <<fast_state, fast_ready, fast_lba, fast_half, fast_raw_pos, fast_rmw,
                 fast_wr_idx, fast_buf, rmw_buf>>

fast_beat == fast_owns /\ card = "beat"
fb_sd_we == fast_beat /\ ~fast_rmw /\ half_of(fast_raw_pos) = fast_half
rmw_we == fast_beat /\ fast_rmw /\ half_of(fast_raw_pos) # fast_half

FastCaptures ==
  LET here == fast_raw_pos % HalfBeats
  IN /\ fast_buf' = IF fb_sd_we THEN [fast_buf EXCEPT ![here] = read_data] ELSE fast_buf
     /\ rmw_buf' = IF rmw_we THEN [rmw_buf EXCEPT ![here] = read_data] ELSE rmw_buf
     /\ fast_raw_pos' = IF fast_beat THEN (fast_raw_pos + 1) % (4 * HalfBeats) ELSE fast_raw_pos

\* The timeout's assignments come last, and leave what the same clock's end of
\* a transfer has set beside them.
FastWaits(timeout) ==
  LET ends == fast_owns /\ card = "read_end"
  IN /\ fast_state = "WAIT"
     /\ FastCaptures
     /\ fast_ready' = (fast_ready \/ (ends /\ ~fast_rmw))
     /\ fast_wr_idx' = IF ends /\ fast_rmw THEN 0 ELSE fast_wr_idx
     /\ fast_wrreq_pend' = (Granted("fast_write", fast_wrreq_pend) \/ (ends /\ fast_rmw))
     /\ fast_req_pend' = (Granted("fast_read", fast_req_pend) /\ ~timeout)
     /\ fast_error' = (fast_error \/ timeout)
     /\ fast_rmw' = (fast_rmw /\ ~timeout)
     /\ fast_state' = IF timeout \/ (ends /\ ~fast_rmw) THEN "IDLE"
                      ELSE IF ends THEN "WRITE" ELSE "WAIT"
     /\ UNCHANGED <<fast_lba, fast_half>>

fast_write_refused == cmd_error

FastWrites(timeout) ==
  LET mine == fast_owns /\ xfer_write
      ends == mine /\ card = "write_end"
  IN /\ fast_state = "WRITE"
     /\ fast_wr_idx' = IF mine /\ card = "req" THEN (fast_wr_idx + 1) % (4 * HalfBeats)
                       ELSE fast_wr_idx
     /\ fast_ready' = (fast_ready \/ ends)
     /\ fast_error' = (fast_error \/ (ends /\ fast_write_refused) \/ timeout)
     /\ fast_rmw' = (fast_rmw /\ ~ends /\ ~timeout)
     /\ fast_state' = IF ends \/ timeout THEN "IDLE" ELSE "WRITE"
     /\ fast_wrreq_pend' = (Granted("fast_write", fast_wrreq_pend) /\ ~timeout)
     /\ fast_req_pend' = Granted("fast_read", fast_req_pend)
     /\ UNCHANGED <<fast_lba, fast_half, fast_raw_pos, fast_buf, rmw_buf>>

\* A write of $DF04 latches the image's address and strobes the drive.
MountRegister ==
  \/ /\ mount_strobe' = FALSE /\ UNCHANGED <<sd_mounted, fast_mount_lba>>
  \/ /\ mount_strobe' = TRUE /\ sd_mounted' = TRUE /\ fast_mount_lba' \in Images

MayTimeout(side) == IF side \in Timeouts THEN BOOLEAN ELSE {FALSE}

WindowClock == /\ MountRegister
               /\ \/ FastCommand \/ FastIllegal \/ FastIdle
                  \/ \E timeout \in MayTimeout("window") : FastWaits(timeout) \/ FastWrites(timeout)

(***************************************************************************)
(* The GCR engine: the head moves over tracks and sectors; a write burst   *)
(* begins at a sector whose header was read, and the engine stands still   *)
(* while a flush is pending or running.                                    *)
(***************************************************************************)
WantedSectors == Sectors \union {Illegal}
HalfOf(img, s) == <<img + s \div 2, s % 2>>
Burst == HalfOf(burst_image, wanted)            \* what the burst is meant for
NextVersion(h) == latest[h[1]][h[2]] + 1

HeadMoves == /\ ~writing /\ wanted' \in WantedSectors
             /\ UNCHANGED <<writing, burst_image>>

BurstBegins == /\ ~writing /\ valid /\ ~wr_busy
               /\ wanted \in DriveTargets /\ NextVersion(HalfOf(active, wanted)) <= MaxVersion
               /\ writing' = TRUE /\ burst_image' = active
               /\ UNCHANGED wanted

BurstRuns == writing /\ UNCHANGED gcrVars

BurstEnds == /\ writing /\ ~wr_busy
             /\ writing' = FALSE /\ UNCHANGED <<wanted, burst_image>>

\* A burst whose checksum is right is committed, any other is dropped.
GcrClock(commit) == IF commit THEN BurstEnds
                    ELSE HeadMoves \/ BurstBegins \/ BurstRuns \/ BurstEnds

(***************************************************************************)
(* The drive's sector source.                                              *)
(***************************************************************************)
map_valid == fetch # Illegal
IdBeat == HalfBeats - 1        \* offsets $A2 and $A3 of T18/S0

StoreBeat == sec_buf' = IF sec_wr_en
                        THEN [sec_buf EXCEPT ![raw_pos % HalfBeats] = read_data] ELSE sec_buf

TakeBurst(commit) ==
  /\ wr_buf' = IF commit THEN HalfData(Burst[1], Burst[2], NextVersion(Burst)) ELSE wr_buf
  /\ wr_sector' = IF commit THEN wanted ELSE wr_sector

\* Where the map sends the sector in `fetch'.
Aim == target_lba' = active + fetch \div 2

KeepWrite == UNCHANGED <<wr_upper_half, wr_widx>>
KeepImage == UNCHANGED <<active, mounted, disk_id>>
KeepFetch == UNCHANGED <<fetch, target_lba, upper_half, id_fetch>>
KeepLoaded == UNCHANGED <<loaded, blank_sector>>
Pulses(read, write) == sd_read_r' = read /\ sd_write_r' = write
Pend(commit) == wr_commit_pend' = (wr_commit_pend \/ commit)
CountBeat == raw_pos' = IF drive_valid THEN (raw_pos + 1) % (4 * HalfBeats) ELSE raw_pos
Invalidate_Never == UNCHANGED loaded
Invalidate == loaded' = None

FetchBam == fetch' = 0 /\ id_fetch' = TRUE /\ state' = "DRV_REQ"

SourceRemounts ==
  /\ mount_strobe
  /\ active' = fast_mount_lba /\ mounted' = TRUE /\ disk_id' = None
  /\ wr_commit_pend' = FALSE /\ Invalidate
  /\ IF sd_init_done THEN FetchBam
     ELSE state' = "WAIT_SD" /\ id_fetch' = FALSE /\ UNCHANGED fetch
  /\ Pulses(FALSE, FALSE) /\ KeepWrite
  /\ UNCHANGED <<blank_sector, target_lba, upper_half, raw_pos>>

SourceWaitsForCard(commit) ==
  /\ state = "WAIT_SD"
  /\ state' = IF sd_init_done THEN "MOUNT" ELSE "WAIT_SD"
  /\ Pulses(FALSE, FALSE) /\ Pend(commit)
  /\ KeepWrite /\ KeepImage /\ KeepFetch /\ KeepLoaded /\ UNCHANGED raw_pos

SourceMounts(commit) ==
  /\ state = "MOUNT"
  /\ mounted' = TRUE /\ Invalidate /\ FetchBam
  /\ Pulses(FALSE, FALSE) /\ Pend(commit) /\ KeepWrite
  /\ UNCHANGED <<active, disk_id, target_lba, upper_half, raw_pos, blank_sector>>

\* A pending flush goes before a new fetch.
SourceFlushes ==
  /\ state = "READY" /\ wr_commit_pend
  /\ wr_commit_pend' = FALSE
  /\ IF mounted THEN fetch' = wr_sector /\ state' = "WR_MAP" ELSE UNCHANGED <<fetch, state>>
  /\ Pulses(FALSE, FALSE) /\ KeepWrite /\ KeepImage /\ KeepLoaded
  /\ UNCHANGED <<target_lba, upper_half, id_fetch, raw_pos>>

SourceFetches(commit) ==
  /\ state = "READY" /\ ~wr_commit_pend
  /\ IF mounted /\ loaded # wanted THEN fetch' = wanted /\ state' = "DRV_REQ"
     ELSE UNCHANGED <<fetch, state>>
  /\ Pulses(FALSE, FALSE) /\ Pend(commit) /\ KeepWrite /\ KeepImage /\ KeepLoaded
  /\ UNCHANGED <<target_lba, upper_half, id_fetch, raw_pos>>

SourceMaps(commit) ==
  /\ state = "DRV_REQ" /\ map_valid
  /\ Aim /\ upper_half' = fetch % 2 /\ raw_pos' = 0 /\ blank_sector' = FALSE
  /\ state' = "DRV_STARTED"
  /\ Pulses(FALSE, FALSE) /\ Pend(commit) /\ KeepWrite /\ KeepImage
  /\ UNCHANGED <<loaded, fetch, id_fetch>>

SourceServesBlank(commit) ==
  /\ state = "DRV_REQ" /\ ~map_valid
  /\ blank_sector' = TRUE /\ loaded' = fetch /\ id_fetch' = FALSE /\ state' = "READY"
  /\ Pulses(FALSE, FALSE) /\ Pend(commit) /\ KeepWrite /\ KeepImage
  /\ UNCHANGED <<fetch, target_lba, upper_half, raw_pos>>

SourceRequests(commit) ==
  /\ state = "DRV_STARTED"
  /\ Pulses(TRUE, FALSE) /\ state' = "DRV_WAIT"
  /\ Pend(commit) /\ KeepWrite /\ KeepImage /\ KeepFetch /\ KeepLoaded /\ UNCHANGED raw_pos

SourceReads(commit) ==
  /\ state = "DRV_WAIT"
  /\ CountBeat
  /\ disk_id' = IF /\ drive_valid /\ half_of(raw_pos) = upper_half
                   /\ id_fetch /\ raw_pos % HalfBeats = IdBeat
                THEN read_data ELSE disk_id
  /\ IF drive_read_end
     THEN loaded' = fetch /\ id_fetch' = FALSE /\ state' = "READY"
     ELSE UNCHANGED <<loaded, id_fetch, state>>
  /\ Pulses(FALSE, FALSE) /\ Pend(commit) /\ KeepWrite
  /\ UNCHANGED <<active, mounted, fetch, target_lba, upper_half, blank_sector>>

SourceAimsFlush(commit) ==
  /\ state = "WR_MAP"
  /\ IF map_valid
     THEN Aim /\ wr_upper_half' = fetch % 2 /\ raw_pos' = 0 /\ state' = "WR_RMW_START"
     ELSE state' = "READY" /\ UNCHANGED <<target_lba, wr_upper_half, raw_pos>>
  /\ Pulses(FALSE, FALSE) /\ Pend(commit) /\ KeepImage /\ KeepLoaded
  /\ UNCHANGED <<fetch, upper_half, id_fetch, wr_widx>>

SourcePrereads(commit) ==
  /\ state = "WR_RMW_START"
  /\ Pulses(TRUE, FALSE) /\ state' = "WR_RMW_WAIT"
  /\ Pend(commit) /\ KeepWrite /\ KeepImage /\ KeepFetch /\ KeepLoaded /\ UNCHANGED raw_pos

SourceParks(commit, timeout) ==
  /\ state = "WR_RMW_WAIT"
  /\ CountBeat
  /\ wr_widx' = IF drive_read_end THEN 0 ELSE wr_widx
  /\ state' = IF drive_read_end THEN "WR_ISSUE" ELSE IF timeout THEN "READY" ELSE state
  /\ IF ~drive_read_end /\ timeout THEN Invalidate ELSE UNCHANGED loaded
  /\ Pulses(FALSE, FALSE) /\ Pend(commit) /\ KeepImage /\ KeepFetch
  /\ UNCHANGED <<wr_upper_half, blank_sector>>

SourceIssues(commit) ==
  /\ state = "WR_ISSUE"
  /\ Pulses(FALSE, TRUE) /\ state' = "WR_STREAM"
  /\ Pend(commit) /\ KeepWrite /\ KeepImage /\ KeepFetch /\ KeepLoaded /\ UNCHANGED raw_pos

SourceStreams(commit, timeout) ==
  /\ state = "WR_STREAM"
  /\ wr_widx' = IF drive_data_req THEN (wr_widx + 1) % (4 * HalfBeats) ELSE wr_widx
  /\ IF drive_write_end \/ timeout
     THEN Invalidate /\ blank_sector' = FALSE /\ state' = "READY"
     ELSE UNCHANGED <<loaded, blank_sector, state>>
  /\ Pulses(FALSE, FALSE) /\ Pend(commit) /\ KeepImage /\ KeepFetch
  /\ UNCHANGED <<wr_upper_half, raw_pos>>

SourceClock(commit) ==
  /\ StoreBeat /\ TakeBurst(commit)
  /\ \/ SourceRemounts
     \/ /\ ~mount_strobe
        /\ \/ SourceWaitsForCard(commit) \/ SourceMounts(commit) \/ SourceFlushes
           \/ SourceFetches(commit) \/ SourceMaps(commit) \/ SourceServesBlank(commit)
           \/ SourceRequests(commit) \/ SourceReads(commit) \/ SourceAimsFlush(commit)
           \/ SourcePrereads(commit) \/ SourceIssues(commit)
           \/ \E timeout \in MayTimeout("drive") : \/ SourceParks(commit, timeout)
                                                   \/ SourceStreams(commit, timeout)

(***************************************************************************)
(* The system.                                                             *)
(***************************************************************************)
PowerUp(lba, half) == HalfData(lba, half, 0)
NoData == PowerUp(CHOOSE lba \in Lba : TRUE, 0)

Init ==
  /\ uses \in Uses
  /\ wanted = 0 /\ writing = FALSE /\ burst_image \in Images
  /\ state = "WAIT_SD" /\ loaded = None /\ blank_sector = FALSE /\ fetch = 0
  /\ active = burst_image /\ mounted = FALSE /\ target_lba = active /\ upper_half = 0
  /\ wr_upper_half = 0 /\ raw_pos = 0 /\ sec_buf = NoData /\ id_fetch = FALSE
  /\ disk_id = None /\ wr_buf = NoData /\ wr_commit_pend = FALSE /\ wr_sector = 0
  /\ wr_widx = 0 /\ sd_read_r = FALSE /\ sd_write_r = FALSE
  /\ fast_state = "IDLE" /\ fast_ready = FALSE /\ fast_error = FALSE /\ fast_lba = active
  /\ fast_half = 0 /\ fast_raw_pos = 0 /\ fast_rmw = FALSE /\ fast_wr_idx = 0
  /\ fast_buf = NoData /\ rmw_buf = NoData /\ sd_mounted = FALSE
  /\ fast_mount_lba = active /\ mount_strobe = FALSE
  /\ drive_req = None /\ drive_wrreq = None /\ fast_req_pend = FALSE
  /\ fast_wrreq_pend = FALSE /\ issue = None /\ xfer_busy = FALSE
  /\ owner_fast = FALSE /\ xfer_write = FALSE
  /\ card = "init" /\ sec_addr = active /\ beat = 0 /\ incoming = <<>>
  /\ cmd_error = FALSE
  /\ disk = [lba \in Lba |-> [p \in Position |-> <<lba, p, 0>>]]
  /\ latest = [lba \in Lba |-> [h \in Half |-> 0]]

\* The versions given out: to a committed burst, and to a write command begun.
Counts(commit) ==
  latest' = [lba \in Lba |-> [h \in Half |->
               LET bursts == commit /\ Burst = <<lba, h>>
                   begins == /\ fast_state = "IDLE" /\ fast_state' = "WAIT" /\ fast_rmw'
                             /\ fast_lba' = lba /\ fast_half' = h
               IN latest[lba][h] + IF bursts \/ begins THEN 1 ELSE 0]]

\* Unless RemountAnytime, programs write $DF04 only while the drive neither
\* moves a sector nor is in a write burst.
MountsAtRest ==
  /\ mount_strobe' => state' \in {"WAIT_SD", "READY"} /\ ~wr_commit_pend' /\ ~writing'
  /\ mount_strobe => ~writing'

Clock == \E commit \in BOOLEAN :
           /\ GcrClock(commit) /\ WindowClock /\ SourceClock(commit)
           /\ ArbiterClock /\ CardClock /\ Counts(commit)
           /\ UNCHANGED uses
           /\ ~RemountAnytime => MountsAtRest

Next == Clock
Spec == Init /\ [][Next]_vars

\* The clock runs, and the card answers what it was asked.
FairSpec == Spec /\ WF_vars(Clock) /\ WF_vars(Clock /\ CardMoves)

(***************************************************************************)
(* Properties.                                                             *)
(***************************************************************************)
OnDisk(lba, half) == [b \in 0 .. HalfBeats - 1 |-> disk[lba][half * HalfBeats + b]]
SectorOnDisk(img, s) == OnDisk(img + s \div 2, s % 2)
States == {"WAIT_SD", "MOUNT", "READY", "DRV_REQ", "DRV_STARTED", "DRV_WAIT", "WR_MAP",
           "WR_RMW_START", "WR_RMW_WAIT", "WR_ISSUE", "WR_STREAM"}

\* Every variable keeps its type.
TypeOK ==
  /\ wanted \in WantedSectors /\ writing \in BOOLEAN /\ burst_image \in Images
  /\ state \in States /\ loaded \in WantedSectors \union {None}
  /\ {blank_sector, mounted, id_fetch, wr_commit_pend, sd_read_r, sd_write_r} \subseteq BOOLEAN
  /\ fetch \in WantedSectors /\ active \in Images /\ target_lba \in Lba
  /\ {upper_half, wr_upper_half, fast_half} \subseteq Half
  /\ {raw_pos, wr_widx, fast_raw_pos, fast_wr_idx} \subseteq 0 .. 4 * HalfBeats - 1
  /\ {sec_buf, wr_buf, fast_buf, rmw_buf} \subseteq Buffer
  /\ disk_id \in Datum \union {None} /\ wr_sector \in Sectors
  /\ fast_state \in {"IDLE", "WAIT", "WRITE"} /\ {fast_lba, sec_addr} \subseteq Lba
  /\ {fast_ready, fast_error, fast_rmw, sd_mounted, mount_strobe} \subseteq BOOLEAN
  /\ fast_mount_lba \in Images
  /\ {drive_req, drive_wrreq} \subseteq Lba \union {None}
  /\ issue \in ({"read", "write"} \X Lba) \union {None}
  /\ {fast_req_pend, fast_wrreq_pend, xfer_busy, owner_fast, xfer_write} \subseteq BOOLEAN
  /\ card \in {"init", "wait", "cmd17", "read", "beat", "read_end",
               "cmd24", "write", "req", "write_end"}
  /\ beat \in 0 .. 2 * HalfBeats /\ incoming \in Seq(Datum) /\ Len(incoming) <= 2 * HalfBeats
  /\ cmd_error \in BOOLEAN
  /\ disk \in [Lba -> [Position -> Datum]]
  /\ latest \in [Lba -> [Half -> 0 .. MaxVersion]]

\* What the GCR engine reads as valid is the whole sector under the head, as the
\* mounted image has it on the card now; an illegal sector reads as zeros.
\* (Sectors the window writes too are read again only after a mount.)
DriveReadsDisk ==
  valid => /\ blank_sector = (loaded = Illegal)
           /\ loaded \in Sectors \ FastTargets => sec_buf = SectorOnDisk(active, loaded)

\* The disk ID in the headers is the mounted image's, from its T18/S0.
IdOfMountedDisk ==
  valid => disk_id # None /\ <<disk_id[1], disk_id[2]>> = <<active, IdBeat>>

\* What the head passes over, data and headers, is the mounted disk as the card
\* has it now, whoever wrote it and whatever was fetched before.
MountedDiskServed == DriveReadsDisk /\ IdOfMountedDisk

\* When the drive is done with a write, the sector is on the card: the engine
\* stands still no longer, and every committed burst has landed.  (If the card
\* takes every block: of a refusal the drive does not learn.)
DriveWritesLand ==
  ~wr_busy /\ ~CardRejects => \A img \in Images, s \in DriveTargets :
                SectorOnDisk(img, s) = HalfData(img + s \div 2, s % 2,
                                                latest[img + s \div 2][s % 2])

\* No half of a block ever holds a byte that was meant for another place.
HalvesKeepTheirData ==
  \A lba \in Lba, p \in Position : disk[lba][p][1] = lba /\ disk[lba][p][2] = p

\* A write-back puts the sector on the card, all of it and nowhere else.
WritesLand == DriveWritesLand /\ HalvesKeepTheirData

\* A write of one half of a block leaves the other half as new as it was.
OtherHalfPreserved ==
  [][\A lba \in Lba, p \in Position : disk'[lba][p][3] >= disk[lba][p][3]]_vars

\* When the window reports a command done without an error, its buffer and the
\* card agree on the half it named.
FastWindowAgrees ==
  [][fast_ready' /\ ~fast_ready /\ ~fast_error' => fast_buf' = OnDisk(fast_lba, fast_half)']_vars

\* The drive has one request outstanding at most, and waits for its end.
OneOutstanding ==
  sd_read_r \/ sd_write_r =>
    /\ drive_req = None /\ drive_wrreq = None
    /\ ~(xfer_busy /\ ~owner_fast)

\* A flush writes to the image its burst was aimed at.
BurstStaysInItsImage == flushing => wr_buf[0][1] = active + wr_sector \div 2

\* The engine does not stand still for ever, a fetch ends, the window answers.
FlushServed == wr_busy ~> ~wr_busy
FetchServed == state = "DRV_REQ" ~> state = "READY"
FastServed == fast_state # "IDLE" ~> fast_state = "IDLE"

\* Nobody waits for ever for the one SD controller, although a transfer may be
\* given up while it runs.
RequestsServed == FlushServed /\ FetchServed /\ FastServed
=============================================================================
