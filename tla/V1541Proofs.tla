----------------------------- MODULE V1541Proofs -----------------------------
(***************************************************************************)
(* What is proved of the virtual 1541, its sectors and its window.         *)
(*                                                                         *)
(* SectorSource, for sectors of any length, on a line that loses and       *)
(* changes any number of tokens, with any number of late answers and       *)
(* resets: what the drive reads is always a whole sector of one image,     *)
(* and, while no answer was late and no reset came between, the sector     *)
(* under the head, as fresh as its fetch.                                  *)
(*                                                                         *)
(* Desktop, for any images, any number of tools and any length of the      *)
(* event queue: the port is handed over, the display stops, the mounted    *)
(* disk is kept, the launcher settles.  That the port is handed over needs *)
(* the life of an upload of the hook: an event that ends one is in the     *)
(* queue exactly while its thread has posted its result, and a window that *)
(* is open with no upload has no loader left of an earlier one.            *)
(***************************************************************************)
EXTENDS SectorSource, Desktop, TLAPS


-----------------------------------------------------------------------------
(* The tokens. *)

\* Damage never makes a checksum.
LEMMA DamageIsPlain ==
  ASSUME NEW token, NEW t \in Damaged(token)
  PROVE  t \in Tokens /\ t[1] # "cks"
<1> USE ConstantsAssumption DEF Tokens
<1>1. CASE token[1] = "len"
  BY <1>1 DEF Damaged
<1>2. CASE token[1] = "head"
  BY <1>2 DEF Damaged
<1>3. CASE token[1] # "len" /\ token[1] # "head"
  BY <1>3 DEF Damaged, Junk
<1> QED
  BY <1>1, <1>2, <1>3

LEMMA TokensAreChecked == Tokens \subseteq CheckedTokens
BY DEF CheckedTokens

\* The request for an address.
LEMMA RequestTokens ==
  ASSUME NEW a \in Addresses, NEW k \in 1..4
  PROVE  Len(Request(a)) = 4 /\ Request(a)[k] \in CheckedTokens
<1> DEFINE sum == << <<"len", 1>>, <<"address", a>> >>
<1>1. Magic \in Tokens /\ <<"len", 1>> \in Tokens /\ <<"address", a>> \in Tokens
  BY ConstantsAssumption DEF Tokens, TooLong
<1>2. sum \in Seq(Tokens)
  BY <1>1
<1>3. <<"cks", sum>> \in CheckedTokens
  BY <1>2 DEF CheckedTokens
<1>4. Request(a) = << Magic, <<"len", 1>>, <<"address", a>>, <<"cks", sum>> >>
  BY DEF Request
<1> HIDE DEF sum
<1> QED
  BY <1>1, <1>3, <1>4, TokensAreChecked

\* What a checksum of the PC sums up: a head and its payload, which is a sector
\* when the head says "ok".
SumOf(token, verdict, payload) ==
  /\ token = <<"cks", << <<"head", verdict, Len(payload)>> >> \o payload>>
  /\ verdict = "ok" => \E image \in Images, a \in Sectors : payload = SectorData(image, a)

Sums(tokens) ==
  \A k \in 1..Len(tokens) : tokens[k][1] = "cks" =>
    \E verdict \in Statuses, payload \in Seq(Tokens) : SumOf(tokens[k], verdict, payload)

\* Joining two streams of tokens.
LEMMA SumsJoin ==
  ASSUME NEW s \in Seq(CheckedTokens), NEW t \in Seq(CheckedTokens), Sums(s), Sums(t)
  PROVE  s \o t \in Seq(CheckedTokens) /\ Sums(s \o t)
<1>1. s \o t \in Seq(CheckedTokens) /\ Len(s \o t) = Len(s) + Len(t)
  OBVIOUS
<1>2. ASSUME NEW k \in 1..Len(s \o t)
      PROVE  \/ \E i \in 1..Len(s) : (s \o t)[k] = s[i]
             \/ \E i \in 1..Len(t) : (s \o t)[k] = t[i]
  <2>1. CASE k <= Len(s)
    BY <2>1
  <2>2. CASE k > Len(s)
    <3>1. k - Len(s) \in 1..Len(t) /\ (s \o t)[k] = t[k - Len(s)]
      BY <1>1, <2>2
    <3> QED
      BY <3>1
  <2> QED
    BY <2>1, <2>2
<1> QED
  BY <1>1, <1>2 DEF Sums

\* The rest of a stream.
LEMMA SumsTail ==
  ASSUME NEW s \in Seq(CheckedTokens), s # <<>>, Sums(s)
  PROVE  Tail(s) \in Seq(CheckedTokens) /\ Sums(Tail(s)) /\ Head(s) \in CheckedTokens
<1>1. Tail(s) \in Seq(CheckedTokens) /\ Head(s) \in CheckedTokens /\ Len(Tail(s)) = Len(s) - 1
  OBVIOUS
<1>2. \A k \in 1..Len(Tail(s)) : Tail(s)[k] = s[k + 1] /\ k + 1 \in 1..Len(s)
  BY <1>1
<1> QED
  BY <1>1, <1>2 DEF Sums

\* A token that is no checksum.
LEMMA PlainSums ==
  ASSUME NEW t \in Tokens, t[1] # "cks"
  PROVE  <<t>> \in Seq(CheckedTokens) /\ Sums(<<t>>)
BY TokensAreChecked DEF Sums

\* A frame of the PC.
LEMMA ResponseTokens ==
  ASSUME NEW cmd \in {Cmd, Junk}, NEW verdict \in Statuses,
         NEW payload \in Seq(Tokens), Len(payload) <= SectorLen + 1,
         \A k \in 1..Len(payload) : payload[k][1] # "cks",
         verdict = "ok" => \E image \in Images, a \in Sectors : payload = SectorData(image, a)
  PROVE  Response(cmd, verdict, payload) \in Seq(CheckedTokens)
         /\ Sums(Response(cmd, verdict, payload))
<1> DEFINE head  == <<"head", verdict, Len(payload)>>
           front == <<Magic, cmd, head>>
           cks   == <<"cks", <<head>> \o payload>>
<1>1. head \in Tokens
  BY ConstantsAssumption DEF Tokens
<1>2. front \in Seq(Tokens) /\ Len(front) = 3
  BY <1>1 DEF Tokens
<1>3. <<head>> \o payload \in Seq(Tokens)
  BY <1>1
<1>4. cks \in CheckedTokens
  BY <1>3 DEF CheckedTokens
<1>5. payload \in Seq(CheckedTokens) /\ front \in Seq(CheckedTokens)
  BY <1>2, TokensAreChecked
<1>6. \A k \in 1..3 : front[k][1] # "cks"
  BY DEF Magic, Cmd, Junk
<1>7. SumOf(cks, verdict, payload)
  BY DEF SumOf
<1>8. Response(cmd, verdict, payload) = (front \o payload) \o <<cks>>
  BY DEF Response
<1> HIDE DEF head, front, cks
<1>9. Sums(front) /\ Sums(payload)
  BY <1>2, <1>6 DEF Sums
<1>10. <<cks>> \in Seq(CheckedTokens) /\ Sums(<<cks>>)
  BY <1>4, <1>7 DEF Sums
<1>11. front \o payload \in Seq(CheckedTokens) /\ Sums(front \o payload)
  BY <1>5, <1>9, SumsJoin
<1> QED
  BY <1>8, <1>10, <1>11, SumsJoin

-----------------------------------------------------------------------------
(* The inductive invariant: the type invariant in four parts, the checksums *)
(* that are on their way, and what the receiver has of the frame it is in.  *)

FetchTypes ==
  /\ wanted \in Sectors
  /\ state \in {"SERVE", "TX_ISSUE"} \/ Receiving
  /\ fill \in Addresses \cup {NoSector} /\ loaded \in Addresses \cup {NoSector}
  /\ state # "SERVE" => fill \in Addresses
  /\ tx_idx \in 1..4 /\ asked \in 0..MaxMounts + 1

ParserTypes ==
  /\ r_head \in Statuses \X (0..SectorLen + 1) /\ r_idx \in 0..SectorLen
  /\ state = "RX_DATA" => r_idx < r_head[2]
  /\ acc \in Seq(CheckedTokens) /\ sec_buf \in [1..SectorLen -> CheckedTokens]

LineTypes ==
  /\ up \in Seq(CheckedTokens) /\ buf \in Seq(CheckedTokens)
  /\ down \in Seq(CheckedTokens) /\ Sums(down)

CountTypes ==
  /\ mounts \in 0..MaxMounts /\ mounted \in 0..mounts
  /\ losses \in 0..MaxFaults /\ stalls \in 0..MaxFaults /\ resets \in 0..MaxFaults

\* The head that was read is the first token summed up, if that is a head.
HeadRead == acc[1][1] = "head" => r_head = <<acc[1][2], acc[1][3]>>

\* n tokens of payload are in the buffer, as far as they fit, and summed up.
Stored(n) ==
  Len(acc) = n + 1 /\ HeadRead /\ \A k \in 1..n : k <= SectorLen => sec_buf[k] = acc[k + 1]

Parsed ==
  /\ state = "RX_HEAD" => acc = <<>>
  /\ state = "RX_DATA" => Stored(r_idx)
  /\ state = "RX_CKSUM" => Stored(r_head[2])

\* The buffer holds one sector.
Whole == \E image \in Images, a \in Sectors : sec_buf = SectorData(image, a)

Served == state = "SERVE" /\ loaded # NoSector => Whole

IInv == FetchTypes /\ ParserTypes /\ LineTypes /\ CountTypes /\ Parsed /\ Served

-----------------------------------------------------------------------------
(* The steps of the FPGA. *)

LEMMA InitHolds == Init => IInv
<1> SUFFICES ASSUME Init PROVE IInv
  OBVIOUS
<1> USE ConstantsAssumption
<1>1. FetchTypes
  BY DEF Init, FetchTypes
<1>2. ParserTypes
  <2>1. Junk \in CheckedTokens
    BY TokensAreChecked DEF Tokens
  <2> QED
    BY <2>1 DEF Init, ParserTypes, Statuses
<1>3. LineTypes
  BY DEF Init, LineTypes, Sums
<1>4. CountTypes
  BY DEF Init, CountTypes
<1>5. Parsed /\ Served
  BY DEF Init, Parsed, Served
<1> QED
  BY <1>1, <1>2, <1>3, <1>4, <1>5 DEF IInv

\* A fetch begins.
LEMMA FetchHolds ==
  ASSUME IInv, NEW a \in Addresses, Fetch(a), wanted' \in Sectors,
         UNCHANGED <<up, down, host, faults>>
  PROVE  IInv'
<1> USE DEF IInv
<1>1. /\ state' = "TX_ISSUE" /\ fill' = a /\ asked' = Current /\ tx_idx' = 1
      /\ UNCHANGED <<loaded, r_head, r_idx, acc, sec_buf>>
  BY DEF Fetch
<1>2. Current \in 0..MaxMounts + 1
  BY ConstantsAssumption DEF Current, CountTypes
<1>3. FetchTypes'
  BY <1>1, <1>2 DEF FetchTypes
<1>4. ParserTypes'
  BY <1>1 DEF ParserTypes
<1>5. LineTypes' /\ CountTypes'
  BY DEF LineTypes, CountTypes, host, faults
<1>6. Parsed' /\ Served'
  BY <1>1 DEF Parsed, Served
<1> QED
  BY <1>3, <1>4, <1>5, <1>6

LEMMA ServeHolds == IInv /\ Serve => IInv'
<1> SUFFICES ASSUME IInv, Serve PROVE IInv'
  OBVIOUS
<1>1. wanted \in Addresses /\ wanted' \in Sectors
  BY DEF IInv, FetchTypes, Serve, Addresses
<1> QED
  BY <1>1, FetchHolds DEF Serve

LEMMA ZoneCrossingHolds == IInv /\ ZoneCrossing => IInv'
<1>1. IllegalSector \in Addresses
  BY DEF Addresses
<1> QED
  BY <1>1, FetchHolds DEF ZoneCrossing

LEMMA IssueHolds == IInv /\ Issue => IInv'
<1> SUFFICES ASSUME IInv, Issue PROVE IInv'
  OBVIOUS
<1> USE DEF IInv
<1>1. UNCHANGED <<wanted, fill, loaded, asked, r_head, r_idx, acc, sec_buf, down, host, faults>>
  BY DEF Issue
<1>2. Len(Request(fill)) = 4 /\ Request(fill)[tx_idx] \in CheckedTokens
  BY RequestTokens DEF Issue, FetchTypes
<1>3. \/ state' = "RX_MAGIC" /\ tx_idx' = tx_idx
      \/ state' = state /\ tx_idx' = tx_idx + 1 /\ tx_idx # 4
  BY <1>2 DEF Issue
<1>4. state = "TX_ISSUE"
  BY DEF Issue
<1>5. FetchTypes'
  BY <1>1, <1>3, <1>4 DEF FetchTypes, Receiving
<1>6. ParserTypes'
  BY <1>1, <1>3, <1>4 DEF ParserTypes
<1>7. LineTypes' /\ CountTypes'
  BY <1>1, <1>2 DEF Issue, LineTypes, CountTypes, host, faults
<1>8. Parsed' /\ Served'
  BY <1>1, <1>3, <1>4 DEF Parsed, Served
<1> QED
  BY <1>5, <1>6, <1>7, <1>8

LEMMA WatchdogHolds == IInv /\ Watchdog => IInv'
<1> SUFFICES ASSUME IInv, Watchdog PROVE IInv'
  OBVIOUS
<1> USE DEF IInv
<1>1. /\ state' = "TX_ISSUE" /\ tx_idx' = 1
      /\ UNCHANGED <<wanted, fill, loaded, asked, r_head, r_idx, acc, sec_buf,
                     up, down, host, losses, resets>>
  BY DEF Watchdog, ReIssue
<1>2. FetchTypes'
  BY <1>1 DEF Watchdog, Receiving, FetchTypes
<1>3. ParserTypes'
  BY <1>1 DEF ParserTypes
<1>4. LineTypes'
  BY <1>1 DEF LineTypes, host
<1>5. CountTypes'
  BY <1>1, ConstantsAssumption DEF Watchdog, CountTypes, Faulty, host
<1>6. Parsed' /\ Served'
  BY <1>1 DEF Parsed, Served
<1> QED
  BY <1>2, <1>3, <1>4, <1>5, <1>6

LEMMA ResetHolds == IInv /\ Reset => IInv'
<1> SUFFICES ASSUME IInv, Reset PROVE IInv'
  OBVIOUS
<1> USE DEF IInv
<1>1. /\ state' = "SERVE" /\ loaded' = NoSector /\ tx_idx' = 1 /\ acc' = <<>>
      /\ UNCHANGED <<wanted, fill, asked, r_head, r_idx, sec_buf, up, down, host,
                     losses, stalls>>
  BY DEF Reset
<1>2. FetchTypes'
  BY <1>1 DEF FetchTypes
<1>3. ParserTypes'
  BY <1>1 DEF ParserTypes
<1>4. LineTypes'
  BY <1>1 DEF LineTypes, host
<1>5. CountTypes'
  BY <1>1, ConstantsAssumption DEF Reset, CountTypes, Faulty, host
<1>6. Parsed' /\ Served'
  BY <1>1 DEF Parsed, Served
<1> QED
  BY <1>2, <1>3, <1>4, <1>5, <1>6

-----------------------------------------------------------------------------
(* The steps that leave the FPGA alone. *)

LEMMA OutsideHolds ==
  ASSUME IInv, UNCHANGED <<drive, parser>>, wanted' \in Sectors, LineTypes', CountTypes'
  PROVE  IInv'
<1> USE DEF IInv
<1>1. UNCHANGED <<state, fill, loaded, asked, tx_idx, r_head, r_idx, acc, sec_buf>>
  BY DEF drive, parser
<1>2. FetchTypes'
  BY <1>1 DEF FetchTypes, Receiving
<1>3. ParserTypes'
  BY <1>1 DEF ParserTypes
<1>4. Parsed'
  BY <1>1 DEF Parsed, Stored, HeadRead
<1>5. Served'
  BY <1>1 DEF Served, Whole
<1> QED
  BY <1>2, <1>3, <1>4, <1>5

\* The PC's steps; what it sends has a checksum of its own making.
LEMMA HostHolds == IInv /\ HostMoves => IInv'
<1> SUFFICES ASSUME IInv, HostMoves PROVE IInv'
  OBVIOUS
<1> USE DEF IInv
<1>1. /\ UNCHANGED <<wanted, drive, parser, mounted, mounts, faults>>
  BY DEF HostMoves, HostReads, HostResyncs, HostDropsMagic, HostAnswers
<1>2. CountTypes' /\ wanted' \in Sectors
  BY <1>1 DEF CountTypes, FetchTypes, faults
<1>3. LineTypes'
  <2>1. CASE HostReads
    BY <2>1 DEF HostReads, LineTypes
  <2>2. CASE HostResyncs
    <3>1. <<>> \in Seq(CheckedTokens) /\ Sums(<<>>)
      BY DEF Sums
    <3>2. <<Text>> \in Seq(CheckedTokens) /\ Sums(<<Text>>)
      BY PlainSums DEF Text, Tokens
    <3>3. down' \in Seq(CheckedTokens) /\ Sums(down')
      BY <2>2, <3>1, <3>2, SumsJoin DEF HostResyncs, LineTypes
    <3>4. buf # <<>>
      BY <2>2 DEF HostResyncs, Garbage
    <3> QED
      BY <2>2, <3>3, <3>4 DEF HostResyncs, LineTypes
  <2>3. CASE HostDropsMagic
    <3>1. buf # <<>> /\ buf' = Tail(buf) /\ UNCHANGED <<up, down>>
      BY <2>3 DEF HostDropsMagic, Implausible, Headed, LineTypes
    <3> QED
      BY <3>1 DEF LineTypes
  <2>4. CASE HostAnswers
    <3>1. \/ \E a : down' = down \o Answer(a)
          \/ \E c \in {Cmd, Junk} : down' = down \o Response(c, "error", <<Text>>)
      BY <2>4 DEF HostAnswers
    <3>2. \A c \in {Cmd, Junk} : Response(c, "error", <<Text>>) \in Seq(CheckedTokens)
                                 /\ Sums(Response(c, "error", <<Text>>))
      <4>1. <<Text>> \in Seq(Tokens) /\ Len(<<Text>>) = 1 /\ <<Text>>[1] = Text
        BY DEF Tokens
      <4>2. "error" \in Statuses /\ "error" # "ok" /\ 1 <= SectorLen + 1
        BY ConstantsAssumption DEF Statuses
      <4> DEFINE text == <<Text>>
      <4>3. \A k \in 1..Len(text) : text[k][1] # "cks"
        BY <4>1 DEF Text
      <4> HIDE DEF text
      <4>4. text \in Seq(Tokens) /\ Len(text) <= SectorLen + 1
        BY <4>1, <4>2 DEF text
      <4>5. \A c \in {Cmd, Junk} : Response(c, "error", text) \in Seq(CheckedTokens)
                                   /\ Sums(Response(c, "error", text))
        BY <4>2, <4>3, <4>4, ResponseTokens
      <4> QED
        BY <4>5 DEF text
    <3>3. ASSUME NEW a, mounted # 0, a \in Sectors
          PROVE  LET data == SectorData(mounted, a)
                 IN  Response(Cmd, "ok", data) \in Seq(CheckedTokens)
                     /\ Sums(Response(Cmd, "ok", data))
      <4> DEFINE data == SectorData(mounted, a)
      <4>1. mounted \in Images
        BY <3>3, ConstantsAssumption DEF CountTypes, Images
      <4>2. \A k \in 1..SectorLen : <<"data", mounted, a, k>> \in Tokens
        BY <3>3, <4>1 DEF Tokens, Addresses
      <4>3. data \in Seq(Tokens) /\ Len(data) = SectorLen
        BY <4>2, ConstantsAssumption DEF SectorData
      <4>4. \A k \in 1..SectorLen : data[k][1] # "cks"
        BY DEF SectorData
      <4> HIDE DEF data
      <4>5. \E image \in Images, b \in Sectors : data = SectorData(image, b)
        BY <3>3, <4>1 DEF data
      <4>6. "ok" \in Statuses /\ Len(data) <= SectorLen + 1
        BY <4>3, ConstantsAssumption DEF Statuses
      <4>7. \A k \in 1..Len(data) : data[k][1] # "cks"
        BY <4>3, <4>4
      <4>8. Response(Cmd, "ok", data) \in Seq(CheckedTokens) /\ Sums(Response(Cmd, "ok", data))
        BY <4>3, <4>5, <4>6, <4>7, ResponseTokens
      <4> QED
        BY <4>8 DEF data
    <3>4. \A a : Answer(a) \in Seq(CheckedTokens) /\ Sums(Answer(a))
      BY <3>2, <3>3 DEF Answer
    <3>5. down' \in Seq(CheckedTokens) /\ Sums(down')
      <4>1. CASE \E a : down' = down \o Answer(a)
        BY <3>4, <4>1, SumsJoin DEF LineTypes
      <4>2. CASE \E c \in {Cmd, Junk} : down' = down \o Response(c, "error", <<Text>>)
        BY <3>2, <4>2, SumsJoin DEF LineTypes
      <4> QED
        BY <3>1, <4>1, <4>2
    <3>6. buf' \in Seq(CheckedTokens) /\ up' = up
      <4>1. Len(buf) >= 3 + Announced /\ buf' = SubSeq(buf, 3 + Announced + 1, Len(buf)) /\ up' = up
        BY <2>4 DEF HostAnswers, Framed
      <4>2. Announced \in Nat
        <5>1. buf[2] \in CheckedTokens
          BY <2>4 DEF HostAnswers, Framed, Headed, LineTypes
        <5>2. buf[2][1] = "len" => buf[2][2] \in Nat
          BY <5>1, ConstantsAssumption DEF CheckedTokens, Tokens, TooLong, Magic, Cmd, Text, Junk
        <5> QED
          BY <5>2, ConstantsAssumption DEF Announced, TooLong
      <4> QED
        BY <4>1, <4>2 DEF LineTypes
    <3> QED
      BY <3>5, <3>6 DEF LineTypes
  <2> QED
    BY <2>1, <2>2, <2>3, <2>4 DEF HostMoves
<1> QED
  BY <1>1, <1>2, <1>3, OutsideHolds

LEMMA UserHolds == IInv /\ UserMoves => IInv'
<1> SUFFICES ASSUME IInv, UserMoves PROVE IInv'
  OBVIOUS
<1>1. UNCHANGED <<wanted, drive, parser, up, down, buf, faults>>
  BY DEF UserMoves, Mount, Eject
<1>2. CountTypes'
  BY <1>1, ConstantsAssumption DEF IInv, CountTypes, UserMoves, Mount, Eject, faults
<1>3. LineTypes' /\ wanted' \in Sectors
  BY <1>1 DEF IInv, LineTypes, FetchTypes
<1> QED
  BY <1>1, <1>2, <1>3, OutsideHolds

LEMMA HeadMovesHolds == IInv /\ HeadMoves => IInv'
<1> SUFFICES ASSUME IInv, HeadMoves PROVE IInv'
  OBVIOUS
<1>1. LineTypes' /\ CountTypes' /\ wanted' \in Sectors
  BY DEF IInv, HeadMoves, LineTypes, CountTypes, host, faults
<1> QED
  BY <1>1, OutsideHolds DEF HeadMoves

\* The line forges no checksum.
LEMMA LineHolds == IInv /\ LineFails => IInv'
<1> SUFFICES ASSUME IInv, LineFails PROVE IInv'
  OBVIOUS
<1>1. UNCHANGED <<wanted, drive, parser, host, stalls, resets>>
  BY DEF LineFails, LoseUp, LoseDown
<1>2. CountTypes' /\ wanted' \in Sectors
  BY <1>1, ConstantsAssumption
     DEF IInv, LineFails, LoseUp, LoseDown, CountTypes, FetchTypes, Faulty, host
<1>3. ASSUME NEW s \in Seq(CheckedTokens), s # <<>>, NEW t \in Damaged(Head(s))
      PROVE  <<t>> \o Tail(s) \in Seq(CheckedTokens) /\ (Sums(s) => Sums(<<t>> \o Tail(s)))
  <2>1. <<t>> \in Seq(CheckedTokens) /\ Sums(<<t>>)
    BY <1>3, DamageIsPlain, PlainSums
  <2>2. Tail(s) \in Seq(CheckedTokens)
    BY <1>3
  <2>3. <<t>> \o Tail(s) \in Seq(CheckedTokens)
    BY <2>1, <2>2
  <2>4. ASSUME Sums(s)
        PROVE  Sums(<<t>> \o Tail(s))
    <3>1. Sums(Tail(s))
      BY <1>3, <2>4, SumsTail
    <3> QED
      BY <2>1, <2>2, <3>1, SumsJoin
  <2> QED
    BY <2>3, <2>4
<1>4. CASE LoseUp
  <2>1. up' = Tail(up) \/ \E t \in Damaged(Head(up)) : up' = <<t>> \o Tail(up)
    BY <1>4 DEF LoseUp
  <2>2. up \in Seq(CheckedTokens) /\ up # <<>>
    BY <1>4 DEF IInv, LoseUp, LineTypes
  <2>3. Tail(up) \in Seq(CheckedTokens)
    BY <2>2
  <2>4. up' \in Seq(CheckedTokens)
    BY <1>3, <2>1, <2>2, <2>3
  <2>5. down' = down /\ buf' = buf
    BY <1>4 DEF LoseUp, host
  <2>6. LineTypes'
    BY <2>4, <2>5 DEF IInv, LineTypes
  <2> QED
    BY <1>1, <1>2, <2>6, OutsideHolds
<1>5. CASE LoseDown
  <2>1. down' = Tail(down) \/ \E t \in Damaged(Head(down)) : down' = <<t>> \o Tail(down)
    BY <1>5 DEF LoseDown
  <2>2. down \in Seq(CheckedTokens) /\ down # <<>> /\ Sums(down)
    BY <1>5 DEF IInv, LoseDown, LineTypes
  <2>3. Tail(down) \in Seq(CheckedTokens) /\ Sums(Tail(down))
    BY <2>2, SumsTail
  <2>4. down' \in Seq(CheckedTokens) /\ Sums(down')
    BY <1>3, <2>1, <2>2, <2>3
  <2>5. up' = up /\ buf' = buf
    BY <1>5 DEF LoseDown, host
  <2>6. LineTypes'
    BY <2>4, <2>5 DEF IInv, LineTypes
  <2> QED
    BY <1>1, <1>2, <2>6, OutsideHolds
<1> QED
  BY <1>4, <1>5 DEF LineFails

-----------------------------------------------------------------------------
(* A token reaches the FPGA. *)

\* What a receiving step may rely on, and what it leaves alone.
LEMMA ReceiveFrame ==
  ASSUME IInv, Receive
  PROVE  /\ Head(down) \in CheckedTokens /\ LineTypes' /\ CountTypes'
         /\ UNCHANGED <<wanted, fill, asked>>
         /\ Head(down)[1] = "cks" =>
              \E verdict \in Statuses, payload \in Seq(Tokens) :
                SumOf(Head(down), verdict, payload)
<1>1. down # <<>> /\ down' = Tail(down) /\ UNCHANGED <<wanted, fill, asked, up, host, faults>>
  BY DEF Receive
<1>2. down \in Seq(CheckedTokens) /\ Sums(down)
  BY DEF IInv, LineTypes
<1>3. down' \in Seq(CheckedTokens) /\ Sums(down') /\ Head(down) \in CheckedTokens
  BY <1>1, <1>2, SumsTail
<1>4. LineTypes'
  BY <1>1, <1>3 DEF IInv, LineTypes, host
<1>5. CountTypes'
  BY <1>1 DEF IInv, CountTypes, host, faults
<1>6. 1 \in 1..Len(down) /\ Head(down) = down[1]
  BY <1>1, <1>2
<1> QED
  BY <1>1, <1>2, <1>3, <1>4, <1>5, <1>6 DEF Sums

\* The receiver waits for a frame, or for the command of one.
LEMMA TakeFrontHolds ==
  ASSUME IInv, Receive, TakeMagic(Head(down)) \/ TakeCmd(Head(down))
  PROVE  IInv'
<1> USE DEF IInv
<1>1. /\ state \in {"RX_MAGIC", "RX_CMD"} /\ state' \in {"RX_MAGIC", "RX_CMD", "RX_HEAD"}
      /\ UNCHANGED <<loaded, tx_idx, r_head, r_idx, sec_buf>>
      /\ acc' = acc \/ acc' = <<>>
      /\ state' = "RX_HEAD" => acc' = <<>>
  BY DEF TakeMagic, TakeCmd
<1>2. LineTypes' /\ CountTypes' /\ UNCHANGED <<wanted, fill, asked>>
  BY ReceiveFrame
<1>3. FetchTypes'
  <2>1. Receiving' /\ state # "SERVE"
    BY <1>1 DEF Receiving
  <2>2. UNCHANGED <<loaded, tx_idx>>
    BY <1>1
  <2> QED
    BY <1>2, <2>1, <2>2 DEF FetchTypes
<1>4. acc' \in Seq(CheckedTokens)
  <2>1. acc \in Seq(CheckedTokens) /\ <<>> \in Seq(CheckedTokens)
    BY DEF ParserTypes
  <2> QED
    BY <1>1, <2>1
<1>5. ParserTypes'
  BY <1>1, <1>4 DEF ParserTypes
<1>6. Parsed' /\ Served'
  BY <1>1 DEF Parsed, Served
<1> QED
  BY <1>2, <1>3, <1>5, <1>6

\* The head of the frame: the payload begins, with nothing stored.
LEMMA TakeHeadHolds ==
  ASSUME IInv, Receive, TakeHead(Head(down))
  PROVE  IInv'
<1> DEFINE token == Head(down)
<1> USE DEF IInv
<1>1. token \in CheckedTokens /\ LineTypes' /\ CountTypes' /\ UNCHANGED <<wanted, fill, asked>>
  BY ReceiveFrame
<1>2. state = "RX_HEAD" /\ acc = <<>>
  BY DEF TakeHead, Parsed
<1>3. /\ acc' = Append(acc, token) /\ r_idx' = 0 /\ UNCHANGED <<loaded, tx_idx, sec_buf>>
      /\ state' = IF r_head'[2] = 0 THEN "RX_CKSUM" ELSE "RX_DATA"
      /\ r_head' \in IF token[1] = "head" THEN {<<token[2], token[3]>>}
                     ELSE Statuses \X (0..SectorLen + 1)
  BY DEF TakeHead
<1>4. r_head' \in Statuses \X (0..SectorLen + 1)
  <2>1. CASE token[1] = "head"
    <3>1. token \in {"head"} \X Statuses \X (0..SectorLen + 1)
      BY <1>1, <2>1 DEF CheckedTokens, Tokens, Magic, Cmd, Text, Junk
    <3> QED
      BY <1>3, <2>1, <3>1
  <2>2. CASE token[1] # "head"
    BY <1>3, <2>2
  <2> QED
    BY <2>1, <2>2
<1>5. acc' \in Seq(CheckedTokens) /\ Len(acc') = 1 /\ acc'[1] = token
  BY <1>1, <1>2, <1>3
<1>6. FetchTypes'
  BY <1>1, <1>2, <1>3 DEF FetchTypes, Receiving
<1>7. ParserTypes'
  BY <1>3, <1>4, <1>5, ConstantsAssumption DEF ParserTypes
<1>8. Stored(0)'
  BY <1>3, <1>5 DEF Stored, HeadRead
<1>9. Parsed'
  BY <1>3, <1>8 DEF Parsed
<1>10. Served'
  BY <1>3 DEF Served
<1> QED
  BY <1>1, <1>6, <1>7, <1>9, <1>10

\* A token of the payload.
LEMMA TakeDataHolds ==
  ASSUME IInv, Receive, TakeData(Head(down))
  PROVE  IInv'
<1> DEFINE token == Head(down)
<1> USE DEF IInv
<1>1. token \in CheckedTokens /\ LineTypes' /\ CountTypes' /\ UNCHANGED <<wanted, fill, asked>>
  BY ReceiveFrame
<1>2. state = "RX_DATA" /\ Stored(r_idx) /\ r_idx < r_head[2]
  BY DEF TakeData, Parsed, ParserTypes
<1>3. /\ sec_buf' = IF r_idx < SectorLen THEN [sec_buf EXCEPT ![r_idx + 1] = token] ELSE sec_buf
      /\ acc' = Append(acc, token)
      /\ UNCHANGED <<loaded, tx_idx, r_head>>
      /\ \/ r_idx = r_head[2] - 1 /\ state' = "RX_CKSUM" /\ r_idx' = r_idx
         \/ r_idx # r_head[2] - 1 /\ state' = state /\ r_idx' = r_idx + 1
  BY DEF TakeData
<1>4. /\ r_head[2] \in 0..SectorLen + 1 /\ r_idx \in 0..SectorLen /\ SectorLen \in Nat
      /\ acc \in Seq(CheckedTokens) /\ sec_buf \in [1..SectorLen -> CheckedTokens]
  BY ConstantsAssumption DEF ParserTypes
<1>5. /\ acc' \in Seq(CheckedTokens) /\ Len(acc') = r_idx + 2 /\ acc'[r_idx + 2] = token
      /\ \A k \in 1..r_idx + 1 : acc'[k] = acc[k]
  BY <1>1, <1>2, <1>3, <1>4 DEF Stored
<1>6. /\ sec_buf' \in [1..SectorLen -> CheckedTokens]
      /\ r_idx + 1 <= SectorLen => sec_buf'[r_idx + 1] = token
      /\ \A k \in 1..r_idx : k <= SectorLen => sec_buf'[k] = sec_buf[k]
  BY <1>1, <1>3, <1>4
<1>7. FetchTypes'
  BY <1>1, <1>2, <1>3 DEF FetchTypes, Receiving
<1>8. ParserTypes'
  BY <1>2, <1>3, <1>4, <1>5, <1>6 DEF ParserTypes
<1>9. /\ Len(acc') = (r_idx + 1) + 1 /\ HeadRead'
      /\ \A k \in 1..r_idx + 1 : k <= SectorLen => sec_buf'[k] = acc'[k + 1]
  <2>1. 1 \in 1..r_idx + 1
    BY <1>4
  <2>2. HeadRead'
    BY <1>2, <1>3, <1>5, <2>1 DEF HeadRead, Stored
  <2>3. ASSUME NEW k \in 1..r_idx + 1, k <= SectorLen
        PROVE  sec_buf'[k] = acc'[k + 1]
    <3>1. CASE k = r_idx + 1
      BY <1>4, <1>5, <1>6, <2>3, <3>1
    <3>2. CASE k # r_idx + 1
      <4>1. k \in 1..r_idx /\ k + 1 \in 1..r_idx + 1
        BY <1>4, <3>2
      <4>2. sec_buf[k] = acc[k + 1]
        BY <1>2, <2>3, <4>1 DEF Stored
      <4> QED
        BY <1>5, <1>6, <2>3, <4>1, <4>2
    <3> QED
      BY <3>1, <3>2
  <2> QED
    BY <1>4, <1>5, <2>2, <2>3
<1>10. Parsed'
  <2>1. CASE state' = "RX_CKSUM"
    <3>1. r_head'[2] = r_idx + 1
      BY <1>2, <1>3, <1>4, <2>1
    <3> QED
      BY <1>9, <2>1, <3>1 DEF Parsed, Stored
  <2>2. CASE state' = "RX_DATA"
    <3>1. r_idx' = r_idx + 1
      BY <1>3, <2>2
    <3> QED
      BY <1>9, <2>2, <3>1 DEF Parsed, Stored
  <2> QED
    BY <1>2, <1>3, <2>1, <2>2
<1>11. Served'
  BY <1>2, <1>3 DEF Served
<1> QED
  BY <1>1, <1>7, <1>8, <1>10, <1>11

\* The checksum: if it is accepted, the buffer holds the payload it sums up.
LEMMA TakeChecksumHolds ==
  ASSUME IInv, Receive, TakeChecksum(Head(down))
  PROVE  IInv'
<1> DEFINE token == Head(down)
<1> USE DEF IInv
<1>1. /\ LineTypes' /\ CountTypes' /\ UNCHANGED <<wanted, fill, asked>>
      /\ token[1] = "cks" =>
           \E verdict \in Statuses, payload \in Seq(Tokens) : SumOf(token, verdict, payload)
  BY ReceiveFrame
<1>2. /\ state = "RX_CKSUM" /\ UNCHANGED <<r_head, r_idx, acc, sec_buf>>
      /\ \/ Accepted(token) /\ loaded' = fill /\ state' = "SERVE" /\ tx_idx' = tx_idx
         \/ state' = "TX_ISSUE" /\ tx_idx' = 1 /\ loaded' = loaded
  BY DEF TakeChecksum, ReIssue
<1>3. FetchTypes'
  BY <1>1, <1>2 DEF FetchTypes
<1>4. ParserTypes'
  BY <1>2 DEF ParserTypes
<1>5. Parsed'
  BY <1>2 DEF Parsed
<1>6. ASSUME Accepted(token)
      PROVE  Whole
  <2>1. token = <<"cks", acc>> /\ r_head = <<"ok", SectorLen>> /\ Stored(SectorLen)
    BY <1>2, <1>6 DEF Accepted, Parsed
  <2>2. PICK verdict \in Statuses, payload \in Seq(Tokens) : SumOf(token, verdict, payload)
    BY <1>1, <2>1
  <2>3. acc = << <<"head", verdict, Len(payload)>> >> \o payload
    BY <2>1, <2>2 DEF SumOf
  <2>4. acc[1] = <<"head", verdict, Len(payload)>>
        /\ \A k \in 1..Len(payload) : acc[k + 1] = payload[k]
    BY <2>3
  <2>5. verdict = "ok" /\ Len(payload) = SectorLen
    BY <2>1, <2>4 DEF Stored, HeadRead
  <2>6. PICK image \in Images, a \in Sectors : payload = SectorData(image, a)
    BY <2>2, <2>5 DEF SumOf
  <2>7. \A k \in 1..SectorLen : sec_buf[k] = SectorData(image, a)[k]
    BY <2>1, <2>4, <2>5, <2>6 DEF Stored
  <2>8. sec_buf = SectorData(image, a)
    BY <2>7 DEF ParserTypes, SectorData
  <2> QED
    BY <2>8 DEF Whole
<1>7. Served'
  BY <1>2, <1>6 DEF Served, Whole
<1> QED
  BY <1>1, <1>3, <1>4, <1>5, <1>7

LEMMA ReceiveHolds == IInv /\ Receive => IInv'
<1> SUFFICES ASSUME IInv, Receive PROVE IInv'
  OBVIOUS
<1>1. CASE ~Receiving /\ UNCHANGED <<state, loaded, parser>>
  <2>1. LineTypes' /\ CountTypes' /\ UNCHANGED <<wanted, fill, asked>>
    BY ReceiveFrame
  <2>2. wanted' \in Sectors /\ UNCHANGED <<drive, parser>>
    BY <1>1, <2>1 DEF IInv, FetchTypes, drive
  <2> QED
    BY <2>1, <2>2, OutsideHolds
<1>2. CASE TakeMagic(Head(down)) \/ TakeCmd(Head(down))
  BY <1>2, TakeFrontHolds
<1>3. CASE TakeHead(Head(down))
  BY <1>3, TakeHeadHolds
<1>4. CASE TakeData(Head(down))
  BY <1>4, TakeDataHolds
<1>5. CASE TakeChecksum(Head(down))
  BY <1>5, TakeChecksumHolds
<1> QED
  BY <1>1, <1>2, <1>3, <1>4, <1>5 DEF Receive

-----------------------------------------------------------------------------
(* Types, and that no sector is torn. *)

LEMMA StepHolds == IInv /\ [Next]_vars => IInv'
<1> SUFFICES ASSUME IInv, [Next]_vars PROVE IInv'
  OBVIOUS
<1>1. CASE UNCHANGED vars
  <2>1. UNCHANGED <<wanted, drive, parser, up, down, host, faults>>
    BY <1>1 DEF vars
  <2>2. LineTypes' /\ CountTypes' /\ wanted' \in Sectors
    BY <2>1 DEF IInv, FetchTypes, LineTypes, CountTypes, host, faults
  <2> QED
    BY <2>1, <2>2, OutsideHolds
<1>2. CASE FpgaMoves
  BY <1>2, ServeHolds, IssueHolds, ReceiveHolds, WatchdogHolds DEF FpgaMoves
<1> QED
  BY <1>1, <1>2, HostHolds, UserHolds, LineHolds, HeadMovesHolds, ZoneCrossingHolds, ResetHolds
     DEF Next

LEMMA Invariant == Spec => []IInv
<1>1. Init => IInv
  BY InitHolds
<1>2. IInv /\ [Next]_vars => IInv'
  BY StepHolds
<1> QED
  BY <1>1, <1>2, PTL DEF Spec

\* Every variable has its type; the counter of the payload never passes the
\* length the head announced (RX_DATA of the sector source).
THEOREM TypeCorrect == Spec => []TypeOK
<1>1. IInv => TypeOK
  BY DEF IInv, FetchTypes, ParserTypes, LineTypes, CountTypes, TypeOK
<1> QED
  BY <1>1, Invariant, PTL

\* Whatever is lost, damaged or late, and whatever is reset or remounted, the
\* drive reads a sector of one image, whole, or is told to wait.
THEOREM NeverTorn == Spec => []WholeSector
<1>1. IInv => WholeSector
  BY ConstantsAssumption DEF IInv, FetchTypes, Served, Whole, WholeSector, Valid
<1> QED
  BY <1>1, Invariant, PTL

-----------------------------------------------------------------------------
(* A second invariant, for the freshness of what is served while no answer *)
(* was later than the watchdog: of all the tokens under way, in the line,  *)
(* in the PC and in the receiver, at most one frame may come to be an      *)
(* answer to the fetch, or the request for one, and its checksum is last.  *)

HasMagic(s) == \E k \in 1..Len(s) : s[k] = Magic
OneMagic(s) == \A j, k \in 1..Len(s) : s[j] = Magic /\ s[k] = Magic => j = k
Led(s, k)   == \E j \in 1..k : s[j] = Magic

\* The receiver is inside a frame; the fetch is about to send a magic; the PC has
\* read one, and waits for the rest of its frame.
InFrame == state \in {"RX_CMD", "RX_HEAD", "RX_DATA", "RX_CKSUM"}
Asking  == state = "TX_ISSUE" /\ tx_idx = 1
Begun   == buf # <<>> /\ Head(buf) = Magic

\* The PC reads no further than the end of a frame.
ReadExactly ==
  Len(buf) <= 1 \/ (Headed /\ Len(buf) <= 3 + Announced /\ (Implausible => Len(buf) = 2))

\* Of all that may come to be an answer there is one at a time.
OneCall ==
  /\ OneMagic(up) /\ OneMagic(down)
  /\ Asking => ~HasMagic(up) /\ ~HasMagic(down)
  /\ HasMagic(up) => ~HasMagic(down)
  /\ InFrame => ~HasMagic(up) /\ ~HasMagic(down) /\ ~Begun
  /\ HasMagic(down) => ~Begun
  /\ Begun /\ Asking => up = <<>> /\ Idle
  /\ Begun /\ HasMagic(up) => up[1] = Magic /\ Idle

\* The checksum of a request is of the sector that is fetched.
AskSum(t) == t[1] = "cks" => t = Request(fill)[4]

Asks ==
  /\ \A k \in 1..Len(up) : AskSum(up[k])
  /\ \A k \in 1..Len(buf) : AskSum(buf[k])

\* It is the last token of its request, and the request of the frame it ends.
AsksEnd ==
  /\ \A k \in 1..Len(up) :
       up[k][1] = "cks" /\ (Begun \/ Led(up, k)) => k = Len(up) /\ state # "TX_ISSUE"
  /\ Framed /\ buf[Len(buf)][1] = "cks" => up = <<>> /\ state # "TX_ISSUE"

\* The checksum of a good answer, and one to the fetch that is under way.
GoodSum(t)  == t[1] = "cks" /\ t[2][1][2] = "ok"
FreshSum(t) ==
  \E image \in Images :
    /\ image >= asked /\ fill \in Sectors
    /\ t = <<"cks", << <<"head", "ok", SectorLen>> >> \o SectorData(image, fill)>>

\* A good answer whose begin is still to be read, or was, ends all that is under way.
Answers ==
  \A k \in 1..Len(down) :
    GoodSum(down[k]) /\ (InFrame \/ Led(down, k)) =>
      /\ up = <<>> /\ buf = <<>> /\ state # "TX_ISSUE"
      /\ k = Len(down) /\ FreshSum(down[k])

ServeIsRest == state = "SERVE" => up = <<>> /\ down = <<>> /\ buf = <<>>

\* What is served was fetched for the address that was asked for.
ServedFresh ==
  state = "SERVE" /\ loaded # NoSector =>
    loaded = fill /\ \E image \in Images : image >= asked /\ sec_buf = SectorData(image, fill)

Fresh == OneCall /\ ReadExactly /\ Asks /\ AsksEnd /\ Answers /\ ServeIsRest /\ ServedFresh

\* No image older than the fetch can come into the drive.
MountsAscend == asked <= mounts + 1 /\ (mounted # 0 => asked <= mounted)

FInv == MountsAscend /\ (Punctual => Fresh)

-----------------------------------------------------------------------------
(* Lemmas for it: streams of tokens that lost one, and the steps that move  *)
(* no frame into another place.                                            *)

\* A stream that lost its first token, or had it damaged.
Dropped(s, t, d) ==
  /\ d \in {0, 1} /\ Len(t) + d = Len(s)
  /\ d = 0 => t[1] # Magic
  /\ \A k \in 1..Len(t) : t[k] = s[k + d] \/ (t[k] # Magic /\ t[k][1] # "cks")

LEMMA TailDropped ==
  ASSUME NEW s \in Seq(CheckedTokens), s # <<>>
  PROVE  Dropped(s, Tail(s), 1) /\ Head(s) = s[1] /\ Len(s) \in Nat \ {0}
<1>1. /\ Len(Tail(s)) = Len(s) - 1 /\ Len(s) \in Nat \ {0} /\ Head(s) = s[1]
      /\ \A k \in 1..Len(Tail(s)) : Tail(s)[k] = s[k + 1]
  OBVIOUS
<1> QED
  BY <1>1 DEF Dropped

LEMMA DamageDropped ==
  ASSUME NEW s \in Seq(CheckedTokens), s # <<>>, NEW t \in Damaged(Head(s))
  PROVE  Dropped(s, <<t>> \o Tail(s), 0)
<1>1. t[1] # "cks" /\ t \in CheckedTokens
  BY DamageIsPlain, TokensAreChecked
<1>2. t # Magic
  BY DEF Damaged, Magic, Junk
<1>3. /\ Len(Tail(s)) = Len(s) - 1 /\ Len(s) \in Nat \ {0} /\ Tail(s) \in Seq(CheckedTokens)
      /\ \A k \in 1..Len(Tail(s)) : Tail(s)[k] = s[k + 1]
  OBVIOUS
<1> DEFINE u == <<t>> \o Tail(s)
<1>4. Len(u) = Len(s) /\ u[1] = t /\ \A k \in 1..Len(Tail(s)) : u[k + 1] = Tail(s)[k]
  BY <1>1, <1>3
<1>5. ASSUME NEW k \in 1..Len(u)
      PROVE  u[k] = s[k] \/ (u[k] # Magic /\ u[k][1] # "cks")
  <2>1. CASE k = 1
    BY <1>1, <1>2, <1>4, <2>1
  <2>2. CASE k # 1
    <3>1. k - 1 \in 1..Len(Tail(s)) /\ (k - 1) + 1 = k
      BY <1>3, <1>4, <2>2
    <3> QED
      BY <1>3, <1>4, <3>1
  <2> QED
    BY <2>1, <2>2
<1> HIDE DEF u
<1>6. Dropped(s, u, 0)
  BY <1>2, <1>4, <1>5 DEF Dropped
<1> QED
  BY <1>6 DEF u

\* What it may still lead to, it might have led to before.
LEMMA DroppedKeeps ==
  ASSUME NEW s \in Seq(CheckedTokens), NEW t \in Seq(CheckedTokens), NEW d, Dropped(s, t, d)
  PROVE  /\ HasMagic(t) => HasMagic(s)
         /\ OneMagic(s) => OneMagic(t)
         /\ OneMagic(s) /\ s[1] = Magic => ~HasMagic(t)
         /\ \A k \in 1..Len(t) : t[k][1] = "cks" =>
              /\ k + d \in 1..Len(s) /\ s[k + d] = t[k]
              /\ Led(t, k) => Led(s, k + d)
              /\ k + d = Len(s) => k = Len(t)
              /\ 1 <= k + d
<1>1. /\ Len(t) \in Nat /\ Len(s) \in Nat /\ d \in {0, 1} /\ Len(t) + d = Len(s)
      /\ \A k \in 1..Len(t) : k + d \in 1..Len(s)
  BY DEF Dropped
<1>2. \A k \in 1..Len(t) : t[k] = s[k + d] \/ (t[k] # Magic /\ t[k][1] # "cks")
  BY DEF Dropped
<1>3. \A k \in 1..Len(t) : t[k] = Magic => s[k + d] = Magic
  BY <1>2
<1>4. HasMagic(t) => HasMagic(s)
  BY <1>1, <1>3 DEF HasMagic
<1>5. OneMagic(s) => OneMagic(t)
  <2> SUFFICES ASSUME OneMagic(s), NEW j \in 1..Len(t), NEW k \in 1..Len(t),
                      t[j] = Magic, t[k] = Magic
               PROVE  j = k
    BY DEF OneMagic
  <2>1. s[j + d] = Magic /\ s[k + d] = Magic /\ j + d \in 1..Len(s) /\ k + d \in 1..Len(s)
    BY <1>1, <1>3
  <2>2. j + d = k + d
    BY <2>1 DEF OneMagic
  <2> QED
    BY <1>1, <2>2
<1>6. OneMagic(s) /\ s[1] = Magic => ~HasMagic(t)
  <2> SUFFICES ASSUME OneMagic(s), s[1] = Magic, NEW k \in 1..Len(t), t[k] = Magic PROVE FALSE
    BY DEF HasMagic
  <2>1. s[k + d] = Magic /\ k + d \in 1..Len(s) /\ 1 \in 1..Len(s)
    BY <1>1, <1>3
  <2>2. k + d = 1
    BY <2>1 DEF OneMagic
  <2>3. d = 0 /\ k = 1
    BY <1>1, <2>2
  <2> QED
    BY <2>3 DEF Dropped
<1>7. ASSUME NEW k \in 1..Len(t), t[k][1] = "cks"
      PROVE  /\ s[k + d] = t[k] /\ (Led(t, k) => Led(s, k + d))
             /\ k + d = Len(s) => k = Len(t)
             /\ 1 <= k + d
  <2>1. s[k + d] = t[k]
    BY <1>2, <1>7
  <2>2. Led(t, k) => Led(s, k + d)
    <3> SUFFICES ASSUME NEW j \in 1..k, t[j] = Magic PROVE Led(s, k + d)
      BY DEF Led
    <3>1. j \in 1..Len(t) /\ j + d \in 1..k + d
      BY <1>1
    <3> QED
      BY <1>3, <3>1 DEF Led
  <2> QED
    BY <1>1, <2>1, <2>2
<1> QED
  BY <1>1, <1>4, <1>5, <1>6, <1>7

\* What the PC has read is judged by what it has read alone.
LEMMA SameBuf ==
  ASSUME buf' = buf
  PROVE  (Begun' <=> Begun) /\ (Framed' <=> Framed) /\ (Idle' <=> Idle)
         /\ (ReadExactly' <=> ReadExactly)
BY DEF Begun, Framed, Idle, ReadExactly, Garbage, Implausible, Headed, Announced

\* The line or the receiver takes a token from the answers.
LEMMA DownDrops ==
  ASSUME IInv, IInv', Fresh, NEW d, Dropped(down, down', d), down # <<>>,
         state' # "SERVE", state' = "TX_ISSUE" <=> state = "TX_ISSUE",
         InFrame' => InFrame \/ down[1] = Magic,
         UNCHANGED <<up, buf, fill, asked, tx_idx>>
  PROVE  Fresh'
<1>1. /\ HasMagic(down') => HasMagic(down)
      /\ OneMagic(down) => OneMagic(down')
      /\ OneMagic(down) /\ down[1] = Magic => ~HasMagic(down')
      /\ \A k \in 1..Len(down') : down'[k][1] = "cks" =>
           /\ k + d \in 1..Len(down) /\ down[k + d] = down'[k]
           /\ Led(down', k) => Led(down, k + d)
           /\ k + d = Len(down) => k = Len(down')
           /\ 1 <= k + d
  BY DroppedKeeps DEF IInv, LineTypes
<1>2. down[1] = Magic => HasMagic(down)
  BY DEF HasMagic, IInv, LineTypes
<1>3. OneCall'
  BY <1>1, <1>2, SameBuf DEF Fresh, OneCall, Asking
<1>4. ReadExactly' /\ AsksEnd'
  BY SameBuf DEF Fresh, AsksEnd
<1>5. Asks'
  BY DEF Fresh, Asks, AskSum
<1>6. Answers'
  <2> SUFFICES ASSUME NEW k \in 1..Len(down'), GoodSum(down'[k]), InFrame' \/ Led(down', k)
               PROVE  /\ up = <<>> /\ buf = <<>> /\ state' # "TX_ISSUE"
                      /\ k = Len(down') /\ FreshSum(down[k])'
    BY DEF Answers, GoodSum
  <2>1. k + d \in 1..Len(down) /\ down[k + d] = down'[k] /\ GoodSum(down[k + d])
    BY <1>1 DEF GoodSum
  <2>2. InFrame \/ Led(down, k + d)
    <3>1. CASE Led(down', k)
      BY <1>1, <3>1 DEF GoodSum
    <3>2. CASE down[1] = Magic
      <4>1. 1 \in 1..k + d
        BY <2>1 DEF IInv, LineTypes
      <4> QED
        BY <3>2, <4>1 DEF Led
    <3> QED
      BY <3>1, <3>2
  <2>3. /\ up = <<>> /\ buf = <<>> /\ state # "TX_ISSUE"
        /\ k + d = Len(down) /\ FreshSum(down[k + d])
    BY <2>1, <2>2 DEF Fresh, Answers
  <2>4. FreshSum(down[k])'
    BY <2>1, <2>3 DEF FreshSum
  <2> QED
    BY <1>1, <2>3, <2>4 DEF GoodSum
<1>7. ServeIsRest' /\ ServedFresh'
  BY DEF ServeIsRest, ServedFresh
<1> QED
  BY <1>3, <1>4, <1>5, <1>6, <1>7 DEF Fresh

\* The steps that leave the fetch, the line and the PC's bytes alone.
LEMMA SameFresh ==
  ASSUME Fresh, UNCHANGED <<state, fill, loaded, asked, tx_idx, sec_buf, up, down, buf>>
  PROVE  Fresh'
<1>1. OneCall' /\ ReadExactly' /\ AsksEnd'
  BY SameBuf DEF Fresh, OneCall, AsksEnd, Asking, InFrame
<1>2. Asks' /\ Answers'
  BY DEF Fresh, Asks, AskSum, Answers, InFrame, FreshSum
<1>3. ServeIsRest' /\ ServedFresh'
  BY DEF Fresh, ServeIsRest, ServedFresh
<1> QED
  BY <1>1, <1>2, <1>3 DEF Fresh

LEMMA InitFresh == Init => FInv
<1> SUFFICES ASSUME Init PROVE FInv
  OBVIOUS
<1>1. up = <<>> /\ down = <<>> /\ buf = <<>> /\ state = "SERVE" /\ loaded = NoSector
  BY DEF Init
<1>2. OneCall
  BY <1>1 DEF OneCall, OneMagic, HasMagic, Asking, InFrame, Begun
<1>3. ReadExactly /\ Asks /\ Answers
  BY <1>1 DEF ReadExactly, Asks, Answers
<1>4. AsksEnd /\ ServeIsRest /\ ServedFresh
  BY <1>1 DEF AsksEnd, ServeIsRest, ServedFresh
<1>5. MountsAscend
  BY DEF Init, MountsAscend
<1> QED
  BY <1>2, <1>3, <1>4, <1>5 DEF FInv, Fresh

\* A fetch begins when everything is at rest.
LEMMA FetchFresh ==
  ASSUME IInv, FInv, NEW a, state = "SERVE", Fetch(a), UNCHANGED <<up, down, host, faults>>
  PROVE  FInv'
<1>1. state' = "TX_ISSUE" /\ tx_idx' = 1 /\ asked' = Current
      /\ UNCHANGED <<up, down, buf, mounted, mounts, stalls, resets>>
  BY DEF Fetch, host, faults
<1>2. MountsAscend'
  BY <1>1 DEF IInv, CountTypes, MountsAscend, Current
<1>3. ASSUME Punctual'
      PROVE  Fresh'
  <2>1. up' = <<>> /\ down' = <<>> /\ buf' = <<>>
    BY <1>1, <1>3 DEF Punctual, FInv, Fresh, ServeIsRest
  <2>2. OneCall'
    BY <1>1, <2>1 DEF OneCall, OneMagic, HasMagic, Asking, InFrame, Begun
  <2>3. ReadExactly' /\ Asks' /\ Answers'
    BY <2>1 DEF ReadExactly, Asks, Answers
  <2>4. ~Framed'
    BY <2>1 DEF Framed, Headed
  <2>5. AsksEnd' /\ ServeIsRest' /\ ServedFresh'
    BY <1>1, <2>1, <2>4 DEF AsksEnd, ServeIsRest, ServedFresh
  <2> QED
    BY <2>2, <2>3, <2>5 DEF Fresh
<1> QED
  BY <1>2, <1>3 DEF FInv

\* What goes out first begins a frame; the checksum goes out last.
LEMMA IssueFresh == IInv /\ IInv' /\ FInv /\ Issue => FInv'
<1> SUFFICES ASSUME IInv, IInv', FInv, Issue PROVE FInv'
  OBVIOUS
<1> DEFINE token == Request(fill)[tx_idx]
<1>1. /\ state = "TX_ISSUE" /\ up' = Append(up, token)
      /\ UNCHANGED <<fill, loaded, asked, sec_buf, down, buf, mounted, mounts, stalls, resets>>
  BY DEF Issue, host, faults
<1>2. /\ token = Magic <=> tx_idx = 1
      /\ token[1] = "cks" <=> tx_idx = 4
      /\ Len(Request(fill)) = 4 /\ tx_idx \in 1..4
  BY DEF IInv, FetchTypes, Request, Magic
<1>3. \/ tx_idx = 4 /\ state' = "RX_MAGIC" /\ tx_idx' = tx_idx
      \/ tx_idx # 4 /\ state' = state /\ tx_idx' = tx_idx + 1
  BY <1>2 DEF Issue
<1>4. MountsAscend'
  BY <1>1 DEF FInv, MountsAscend
<1>5. ASSUME Fresh
      PROVE  Fresh'
  <2> HIDE DEF token
  <2> USE <1>1
  <2>1. /\ Len(up') = Len(up) + 1 /\ Len(up) \in Nat /\ up'[Len(up) + 1] = token
        /\ \A k \in 1..Len(up) : up'[k] = up[k]
        /\ up = <<>> => up'[1] = token
    BY DEF IInv, LineTypes
  <2>2. HasMagic(up') <=> HasMagic(up) \/ token = Magic
    <3>1. \A k \in 1..Len(up') : k \in 1..Len(up) \/ k = Len(up) + 1
      BY <2>1
    <3>2. \A k \in 1..Len(up) : k \in 1..Len(up')
      BY <2>1
    <3>3. Len(up) + 1 \in 1..Len(up')
      BY <2>1
    <3> QED
      BY <2>1, <3>1, <3>2, <3>3 DEF HasMagic
  <2>3. token = Magic => Asking /\ ~HasMagic(up) /\ ~HasMagic(down)
    BY <1>2, <1>5 DEF Asking, Fresh, OneCall
  <2>4. OneMagic(up')
    <3> SUFFICES ASSUME NEW j \in 1..Len(up'), NEW k \in 1..Len(up'), up'[j] = Magic, up'[k] = Magic
                 PROVE  j = k
      BY DEF OneMagic
    <3>1. CASE token = Magic
      <4>1. ~(j \in 1..Len(up)) /\ ~(k \in 1..Len(up))
        BY <2>1, <2>3, <3>1 DEF HasMagic
      <4> QED
        BY <2>1, <4>1
    <3>2. CASE token # Magic
      <4>1. j \in 1..Len(up) /\ k \in 1..Len(up)
        BY <2>1, <3>2
      <4> QED
        BY <1>5, <2>1, <4>1 DEF Fresh, OneCall, OneMagic
    <3> QED
      BY <3>1, <3>2
  <2>5. ~Asking' /\ ~InFrame' /\ (Begun' <=> Begun) /\ (Idle' <=> Idle)
    BY <1>2, <1>3, SameBuf DEF Asking, InFrame
  <2>6. Begun /\ HasMagic(up') => up'[1] = Magic /\ Idle
    <3>1. CASE token = Magic
      BY <2>1, <2>3, <3>1, <1>5 DEF Fresh, OneCall
    <3>2. CASE token # Magic
      <4>1. HasMagic(up) => 1 \in 1..Len(up)
        BY <2>1 DEF HasMagic
      <4> QED
        BY <2>1, <2>2, <3>2, <4>1, <1>5 DEF Fresh, OneCall
    <3> QED
      BY <3>1, <3>2
  <2>7. token = Magic => ~HasMagic(down)
    BY <2>3
  <2>8. OneCall'
    BY <1>5, <2>2, <2>4, <2>5, <2>6, <2>7 DEF Fresh, OneCall
  <2>9. ReadExactly'
    BY <1>5, SameBuf DEF Fresh
  <2>10. Asks'
    <3>1. token[1] = "cks" => token = Request(fill)[4]
      BY <1>2 DEF token
    <3>2. \A k \in 1..Len(up') : k \in 1..Len(up) \/ k = Len(up) + 1
      BY <2>1
    <3> QED
      BY <1>5, <2>1, <3>1, <3>2 DEF Fresh, Asks, AskSum
  <2>11. AsksEnd'
    <3>1. ASSUME NEW k \in 1..Len(up'), up'[k][1] = "cks", Begun' \/ Led(up', k)
          PROVE  k = Len(up') /\ state' # "TX_ISSUE"
      <4>1. CASE k \in 1..Len(up)
        <5>1. up[k][1] = "cks"
          BY <2>1, <3>1, <4>1
        <5>2. Led(up', k) => Led(up, k)
          <6>1. \A j \in 1..k : j \in 1..Len(up)
            BY <2>1, <4>1
          <6> QED
            BY <2>1, <6>1 DEF Led
        <5> QED
          BY <1>5, <2>5, <3>1, <4>1, <5>1, <5>2 DEF Fresh, AsksEnd
      <4>2. CASE ~(k \in 1..Len(up))
        <5>1. k = Len(up')
          BY <2>1, <4>2
        <5>2. tx_idx = 4
          BY <1>2, <2>1, <3>1, <5>1
        <5> QED
          BY <1>3, <5>1, <5>2
      <4> QED
        BY <4>1, <4>2
    <3>2. ~(Framed' /\ (buf[Len(buf)][1] = "cks")')
      BY <1>5, SameBuf DEF Fresh, AsksEnd
    <3> QED
      BY <3>1, <3>2 DEF AsksEnd
  <2>12. Answers'
    BY <1>5, <2>5 DEF Fresh, Answers
  <2>13. ServeIsRest' /\ ServedFresh'
    BY <1>3 DEF ServeIsRest, ServedFresh
  <2> QED
    BY <2>8, <2>9, <2>10, <2>11, <2>12, <2>13 DEF Fresh
<1> QED
  BY <1>1, <1>4, <1>5 DEF FInv, Punctual

\* A watchdog that is not early finds nothing under way.
LEMMA WatchdogFresh == IInv /\ IInv' /\ FInv /\ Watchdog => FInv'
<1> SUFFICES ASSUME IInv, IInv', FInv, Watchdog PROVE FInv'
  OBVIOUS
<1>1. /\ state' = "TX_ISSUE" /\ tx_idx' = 1
      /\ UNCHANGED <<fill, loaded, asked, sec_buf, up, down, buf, mounted, mounts, resets>>
      /\ stalls' = IF Quiet THEN stalls ELSE stalls + 1
  BY DEF Watchdog, ReIssue, host
<1>2. MountsAscend'
  BY <1>1 DEF FInv, MountsAscend
<1>3. ASSUME Punctual'
      PROVE  Fresh'
  <2>1. Quiet /\ Punctual
    BY <1>1, <1>3 DEF Punctual, IInv, CountTypes
  <2>2. up = <<>> /\ down = <<>> /\ Idle /\ Fresh
    BY <2>1 DEF Quiet, FInv
  <2>3. ~Framed' /\ Idle'
    BY <1>1, <2>2, SameBuf DEF Idle
  <2>4. OneCall'
    BY <1>1, <2>2, <2>3 DEF OneCall, OneMagic, HasMagic, Asking, InFrame, Begun
  <2>5. ReadExactly'
    BY <1>1, <2>2, SameBuf DEF Fresh
  <2>6. Asks'
    BY <1>1, <2>2 DEF Fresh, Asks, AskSum
  <2>7. AsksEnd' /\ Answers'
    BY <1>1, <2>2, <2>3 DEF AsksEnd, Answers
  <2>8. ServeIsRest' /\ ServedFresh'
    BY <1>1 DEF ServeIsRest, ServedFresh
  <2> QED
    BY <2>4, <2>5, <2>6, <2>7, <2>8 DEF Fresh
<1> QED
  BY <1>2, <1>3 DEF FInv

LEMMA ResetFresh == IInv /\ FInv /\ Reset => FInv'
<1> SUFFICES ASSUME IInv, FInv, Reset PROVE FInv'
  OBVIOUS
<1>1. resets' = resets + 1 /\ UNCHANGED <<asked, mounted, mounts>>
  BY DEF Reset, host
<1>2. ~Punctual'
  BY <1>1 DEF Punctual, IInv, CountTypes
<1> QED
  BY <1>1, <1>2 DEF FInv, MountsAscend

LEMMA UserFresh == IInv /\ FInv /\ (UserMoves \/ HeadMoves) => FInv'
<1> SUFFICES ASSUME IInv, FInv, UserMoves \/ HeadMoves PROVE FInv'
  OBVIOUS
<1>1. UNCHANGED <<state, fill, loaded, asked, tx_idx, sec_buf, up, down, buf, stalls, resets>>
  BY DEF UserMoves, HeadMoves, Mount, Eject, drive, parser, host, faults
<1>2. \/ UNCHANGED <<mounted, mounts>>
      \/ mounts' = mounts + 1 /\ mounted' = mounts + 1
      \/ mounts' = mounts /\ mounted' = 0
  BY DEF UserMoves, HeadMoves, Mount, Eject, host
<1>3. MountsAscend'
  BY <1>1, <1>2 DEF FInv, MountsAscend, IInv, CountTypes, FetchTypes
<1>4. Fresh => Fresh'
  BY <1>1, SameFresh
<1> QED
  BY <1>1, <1>3, <1>4 DEF FInv, Punctual

-----------------------------------------------------------------------------
(* The steps of the line and of the receiver. *)

\* What the line loses or changes is never more than it was.
LEMMA LineFresh == IInv /\ IInv' /\ FInv /\ LineFails => FInv'
<1> SUFFICES ASSUME IInv, IInv', FInv, LineFails PROVE FInv'
  OBVIOUS
<1>1. UNCHANGED <<state, fill, loaded, asked, tx_idx, sec_buf, buf, mounted, mounts, stalls, resets>>
  BY DEF LineFails, LoseUp, LoseDown, drive, parser, host
<1>2. MountsAscend' /\ (Punctual' <=> Punctual)
  BY <1>1 DEF FInv, MountsAscend, Punctual
<1>3. ASSUME NEW s \in Seq(CheckedTokens), NEW t, s # <<>>,
             t \in {Tail(s)} \cup {<<x>> \o Tail(s) : x \in Damaged(Head(s))}
      PROVE  \E d \in {0, 1} : Dropped(s, t, d)
  BY <1>3, TailDropped, DamageDropped
<1>4. ASSUME Fresh, LoseUp
      PROVE  Fresh'
  <2>1. up # <<>> /\ up \in Seq(CheckedTokens) /\ up' \in Seq(CheckedTokens) /\ down' = down
    BY <1>4 DEF LoseUp, IInv, LineTypes
  <2>2. PICK d \in {0, 1} : Dropped(up, up', d)
    BY <1>3, <1>4, <2>1 DEF LoseUp
  <2>3. /\ HasMagic(up') => HasMagic(up)
        /\ OneMagic(up) => OneMagic(up')
        /\ OneMagic(up) /\ up[1] = Magic => ~HasMagic(up')
        /\ \A k \in 1..Len(up') : up'[k][1] = "cks" =>
             /\ k + d \in 1..Len(up) /\ up[k + d] = up'[k]
             /\ Led(up', k) => Led(up, k + d)
             /\ k + d = Len(up) => k = Len(up')
             /\ 1 <= k + d
    BY <2>1, <2>2, DroppedKeeps
  <2>4. state # "SERVE"
    BY <1>4, <2>1 DEF Fresh, ServeIsRest
  <2>5. OneCall'
    BY <1>1, <1>4, <2>1, <2>3, SameBuf DEF Fresh, OneCall, Asking, InFrame
  <2>6. ReadExactly'
    BY <1>1, <1>4, SameBuf DEF Fresh
  <2>7. Asks'
    BY <1>1, <1>4, <2>3 DEF Fresh, Asks, AskSum
  <2>8. AsksEnd'
    <3>1. ASSUME NEW k \in 1..Len(up'), up'[k][1] = "cks", Begun' \/ Led(up', k)
          PROVE  k = Len(up') /\ state' # "TX_ISSUE"
      BY <1>1, <1>4, <2>3, <3>1, SameBuf DEF Fresh, AsksEnd
    <3>2. ~(Framed' /\ (buf[Len(buf)][1] = "cks")')
      BY <1>1, <1>4, <2>1, SameBuf DEF Fresh, AsksEnd
    <3> QED
      BY <3>1, <3>2 DEF AsksEnd
  <2>9. Answers'
    BY <1>1, <1>4, <2>1 DEF Fresh, Answers, InFrame
  <2>10. ServeIsRest' /\ ServedFresh'
    BY <1>1, <2>4 DEF ServeIsRest, ServedFresh
  <2> QED
    BY <2>5, <2>6, <2>7, <2>8, <2>9, <2>10 DEF Fresh
<1>5. ASSUME Fresh, LoseDown
      PROVE  Fresh'
  <2>1. down # <<>> /\ down \in Seq(CheckedTokens) /\ up' = up
    BY <1>5 DEF LoseDown, IInv, LineTypes
  <2>2. PICK d \in {0, 1} : Dropped(down, down', d)
    BY <1>3, <1>5, <2>1 DEF LoseDown
  <2>3. state # "SERVE"
    BY <1>5, <2>1 DEF Fresh, ServeIsRest
  <2> QED
    BY <1>1, <1>5, <2>1, <2>2, <2>3, DownDrops DEF InFrame
<1> QED
  BY <1>2, <1>4, <1>5 DEF FInv, LineFails

LEMMA NothingLeft ==
  ASSUME NEW s \in Seq(CheckedTokens), Len(s) = 0
  PROVE  s = <<>>
OBVIOUS

\* The sum of a frame begins with its head.
LEMMA SumSplits ==
  ASSUME NEW S, NEW head, NEW payload \in Seq(S)
  PROVE  /\ (<<head>> \o payload)[1] = head
         /\ \A k \in 1..Len(payload) : (<<head>> \o payload)[k + 1] = payload[k]
OBVIOUS

\* A checksum that is accepted is that of the answer to this fetch.
LEMMA AcceptFresh ==
  ASSUME IInv, Fresh, down # <<>>, state = "RX_CKSUM", Accepted(Head(down))
  PROVE  /\ up = <<>> /\ buf = <<>> /\ Tail(down) = <<>>
         /\ \E image \in Images : image >= asked /\ sec_buf = SectorData(image, fill)
<1> DEFINE token == Head(down)
<1>1. token = down[1] /\ 1 \in 1..Len(down) /\ down \in Seq(CheckedTokens)
  BY DEF IInv, LineTypes
<1>2. token = <<"cks", acc>>
  BY DEF Accepted
<1>3. /\ r_head = <<"ok", SectorLen>> /\ Stored(SectorLen) /\ SectorLen \in Nat
      /\ acc \in Seq(CheckedTokens) /\ sec_buf \in [1..SectorLen -> CheckedTokens]
  BY ConstantsAssumption DEF Accepted, IInv, Parsed, ParserTypes
<1>4. PICK verdict \in Statuses, payload \in Seq(Tokens) : SumOf(token, verdict, payload)
  BY <1>1, <1>2 DEF IInv, LineTypes, Sums
<1>5. acc = << <<"head", verdict, Len(payload)>> >> \o payload
  BY <1>2, <1>4 DEF SumOf
<1>6. acc[1] = <<"head", verdict, Len(payload)>>
  BY <1>5
<1>7. verdict = "ok"
  BY <1>3, <1>6 DEF Stored, HeadRead
<1>8. GoodSum(token) /\ InFrame
  BY <1>2, <1>6, <1>7 DEF GoodSum, InFrame
<1>9. up = <<>> /\ buf = <<>> /\ 1 = Len(down) /\ FreshSum(down[1])
  BY <1>1, <1>8 DEF Fresh, Answers
<1>10. Tail(down) = <<>>
  <2>1. Tail(down) \in Seq(CheckedTokens) /\ Len(Tail(down)) = 0
    BY <1>1, <1>9
  <2> QED
    BY <2>1, NothingLeft
<1>11. PICK image \in Images :
         /\ image >= asked
         /\ token = <<"cks", << <<"head", "ok", SectorLen>> >> \o SectorData(image, fill)>>
  BY <1>1, <1>9 DEF FreshSum
<1> DEFINE data  == SectorData(image, fill)
           bytes == {<<"data", image, fill, k>> : k \in 1..SectorLen}
<1>12. data \in [1..SectorLen -> bytes]
  BY DEF SectorData
<1> DEFINE head == <<"head", "ok", SectorLen>>
           sum  == <<head>> \o data
<1>13. token = <<"cks", sum>>
  BY <1>11
<1> HIDE DEF data, head, bytes
<1>14. data \in Seq(bytes) /\ Len(data) = SectorLen
  BY <1>12, ConstantsAssumption
<1>15. \A k \in 1..SectorLen : acc[k + 1] = data[k]
  <2>1. \A k \in 1..SectorLen : sum[k + 1] = data[k]
    BY <1>14, SumSplits
  <2> HIDE DEF sum
  <2>2. acc = sum
    BY <1>2, <1>13
  <2> QED
    BY <2>1, <2>2
<1>16. \A k \in 1..SectorLen : sec_buf[k] = data[k]
  BY <1>3, <1>15 DEF Stored
<1>17. sec_buf = data
  BY <1>3, <1>12, <1>16
<1> QED
  BY <1>9, <1>10, <1>11, <1>17 DEF data

LEMMA ReceiveFresh == IInv /\ IInv' /\ FInv /\ Receive => FInv'
<1> SUFFICES ASSUME IInv, IInv', FInv, Receive PROVE FInv'
  OBVIOUS
<1>1. /\ down # <<>> /\ down' = Tail(down) /\ down \in Seq(CheckedTokens)
      /\ UNCHANGED <<fill, asked, up, buf, mounted, mounts, stalls, resets>>
  BY DEF Receive, host, faults, IInv, LineTypes
<1>2. MountsAscend' /\ (Punctual' <=> Punctual)
  BY <1>1 DEF FInv, MountsAscend, Punctual
<1>3. Dropped(down, down', 1) /\ Head(down) = down[1]
  BY <1>1, TailDropped
<1> SUFFICES ASSUME Fresh PROVE Fresh'
  BY <1>2 DEF FInv
<1>4. state # "SERVE"
  BY <1>1 DEF Fresh, ServeIsRest
<1>5. CASE TakeChecksum(Head(down))
  <2>1. state = "RX_CKSUM" /\ sec_buf' = sec_buf
    BY <1>5 DEF TakeChecksum
  <2>2. ASSUME Accepted(Head(down)), loaded' = fill, state' = "SERVE"
        PROVE  Fresh'
    <3>1. /\ up' = <<>> /\ buf' = <<>> /\ down' = <<>>
          /\ \E image \in Images : image >= asked' /\ sec_buf' = SectorData(image, fill')
      BY <1>1, <2>1, <2>2, AcceptFresh
    <3>2. OneCall'
      BY <2>2, <3>1 DEF OneCall, OneMagic, HasMagic, Asking, InFrame, Begun
    <3>3. ReadExactly' /\ Asks' /\ Answers'
      BY <3>1 DEF ReadExactly, Asks, Answers
    <3>4. ~Framed'
      BY <3>1 DEF Framed, Headed
    <3>5. AsksEnd' /\ ServeIsRest' /\ ServedFresh'
      BY <1>1, <2>2, <3>1, <3>4 DEF AsksEnd, ServeIsRest, ServedFresh
    <3> QED
      BY <3>2, <3>3, <3>5 DEF Fresh
  <2>3. ASSUME state' = "TX_ISSUE", tx_idx' = 1
        PROVE  Fresh'
    <3>1. ~HasMagic(up) /\ ~HasMagic(down) /\ ~Begun
      BY <2>1 DEF Fresh, OneCall, InFrame
    <3>2. ~HasMagic(up') /\ ~HasMagic(down') /\ ~Begun' /\ OneMagic(down') /\ OneMagic(up')
      BY <1>1, <1>3, <3>1, DroppedKeeps, SameBuf DEF IInv, LineTypes, Fresh, OneCall
    <3>3. OneCall'
      BY <2>3, <3>2 DEF OneCall, InFrame
    <3>4. ReadExactly' /\ Asks'
      BY <1>1, SameBuf DEF Fresh, Asks, AskSum
    <3>5. \A k \in 1..Len(up') : ~Led(up', k)
      BY <1>1, <3>2 DEF Led, HasMagic, IInv, LineTypes
    <3>6. \A k \in 1..Len(down') : ~Led(down', k)
      <4>1. Len(down') \in Nat
        BY DEF IInv, LineTypes
      <4>2. \A k \in 1..Len(down') : \A j \in 1..k : j \in 1..Len(down')
        BY <4>1
      <4> QED
        BY <3>2, <4>2 DEF Led, HasMagic
    <3>7. ~Framed'
      BY <3>2 DEF Framed, Headed, Begun
    <3>8. AsksEnd' /\ Answers'
      BY <2>3, <3>2, <3>5, <3>6, <3>7 DEF AsksEnd, Answers, InFrame
    <3>9. ServeIsRest' /\ ServedFresh'
      BY <2>3 DEF ServeIsRest, ServedFresh
    <3> QED
      BY <3>3, <3>4, <3>8, <3>9 DEF Fresh
  <2> QED
    BY <1>5, <2>2, <2>3 DEF TakeChecksum, ReIssue
<1>6. CASE ~TakeChecksum(Head(down))
  <2>1. /\ state' # "SERVE" /\ (state' = "TX_ISSUE" <=> state = "TX_ISSUE")
        /\ InFrame' => InFrame \/ down[1] = Magic
        /\ tx_idx' = tx_idx
    <3>1. CASE ~Receiving /\ UNCHANGED <<state, loaded, parser>>
      BY <1>4, <3>1 DEF InFrame, parser
    <3>2. CASE TakeMagic(Head(down)) \/ TakeCmd(Head(down))
      BY <1>3, <3>2 DEF TakeMagic, TakeCmd, InFrame
    <3>3. CASE TakeHead(Head(down)) \/ TakeData(Head(down))
      BY <3>3 DEF TakeHead, TakeData, InFrame
    <3> QED
      BY <1>6, <3>1, <3>2, <3>3 DEF Receive
  <2> QED
    BY <1>1, <1>3, <2>1, DownDrops
<1> QED
  BY <1>5, <1>6

-----------------------------------------------------------------------------
(* The steps of the PC. *)

\* What the PC has read, token by token.
BufShaped ==
  /\ Len(buf) \in Nat /\ (buf = <<>> <=> Len(buf) = 0)
  /\ Begun <=> Len(buf) >= 1 /\ buf[1] = Magic
  /\ Garbage <=> Len(buf) >= 1 /\ buf[1] # Magic
  /\ Headed <=> Len(buf) >= 2 /\ buf[1] = Magic
  /\ Headed => Announced \in Nat

LEMMA BufShape == IInv => BufShaped
<1> SUFFICES ASSUME IInv PROVE BufShaped
  OBVIOUS
<1>1. Len(buf) \in Nat /\ (buf = <<>> <=> Len(buf) = 0) /\ (buf # <<>> => Head(buf) = buf[1])
  BY NothingLeft DEF IInv, LineTypes
<1>2. ASSUME Headed
      PROVE  Announced \in Nat
  <2>1. buf[2] \in CheckedTokens
    BY <1>2 DEF IInv, LineTypes, Headed
  <2>2. buf[2][1] = "len" => buf[2][2] \in Nat
    BY <2>1, ConstantsAssumption DEF CheckedTokens, Tokens, TooLong, Magic, Cmd, Text, Junk
  <2> QED
    BY <2>2, ConstantsAssumption DEF Announced, TooLong
<1> QED
  BY <1>1, <1>2 DEF Begun, Garbage, Headed, BufShaped

LEMMA BufShapeNext == IInv' => BufShaped'
BY BufShape, PTL

\* The PC reads on, but never past the frame it is in.
LEMMA ReadsFresh == IInv /\ IInv' /\ FInv /\ HostReads => FInv'
<1> SUFFICES ASSUME IInv, IInv', FInv, HostReads PROVE FInv'
  OBVIOUS
<1>1. /\ Idle /\ up # <<>> /\ buf' = Append(buf, Head(up))
      /\ up \in Seq(CheckedTokens) /\ up' \in Seq(CheckedTokens)
      /\ buf \in Seq(CheckedTokens)
      /\ UNCHANGED <<state, fill, loaded, asked, tx_idx, sec_buf, down, mounted, mounts,
                     stalls, resets>>
  BY DEF HostReads, drive, parser, faults, IInv, LineTypes
<1>2. MountsAscend' /\ (Punctual' <=> Punctual)
  BY <1>1 DEF FInv, MountsAscend, Punctual
<1> SUFFICES ASSUME Fresh PROVE Fresh'
  BY <1>2 DEF FInv
<1> DEFINE n == Len(buf)
<1>3. Dropped(up, up', 1) /\ Head(up) = up[1] /\ Len(up) \in Nat \ {0} /\ Len(up') = Len(up) - 1
  BY <1>1, TailDropped DEF HostReads, Dropped
<1>4. /\ HasMagic(up') => HasMagic(up)
      /\ OneMagic(up) => OneMagic(up')
      /\ OneMagic(up) /\ up[1] = Magic => ~HasMagic(up')
      /\ \A k \in 1..Len(up') : up'[k][1] = "cks" =>
           /\ k + 1 \in 1..Len(up) /\ up[k + 1] = up'[k]
           /\ Led(up', k) => Led(up, k + 1)
           /\ k + 1 = Len(up) => k = Len(up')
  BY <1>1, <1>3, DroppedKeeps
<1>5. /\ n \in Nat /\ Len(buf') = n + 1 /\ buf'[n + 1] = up[1]
      /\ \A k \in 1..n : buf'[k] = buf[k]
  BY <1>1, <1>3
<1>6. up[1] = Magic => HasMagic(up)
  BY <1>3 DEF HasMagic
<1>7. Begun' <=> Begun \/ (n = 0 /\ up[1] = Magic)
  <2>1. n # 0 => buf'[1] = buf[1] /\ (Begun \/ Garbage)
    BY <1>5, BufShape, BufShapeNext DEF BufShaped
  <2>2. Begun' <=> buf'[1] = Magic
    BY <1>5, BufShape, BufShapeNext DEF BufShaped
  <2>3. ~Garbage
    BY <1>1 DEF Idle
  <2> QED
    BY <1>5, <2>1, <2>2, <2>3, BufShape, BufShapeNext DEF BufShaped
<1>8. ~(Begun' /\ HasMagic(up'))
  BY <1>4, <1>7 DEF Fresh, OneCall
<1>9. OneCall'
  <2>1. ~(Begun' /\ Asking)
    BY <1>1, <1>6, <1>7 DEF Fresh, OneCall
  <2>2. InFrame \/ HasMagic(down) => ~Begun'
    BY <1>6, <1>7 DEF Fresh, OneCall
  <2>3. (Asking' <=> Asking) /\ (InFrame' <=> InFrame)
    BY <1>1 DEF Asking, InFrame
  <2> QED
    BY <1>1, <1>4, <1>8, <2>1, <2>2, <2>3 DEF Fresh, OneCall
<1>10. ReadExactly'
  <2>1. CASE n = 0
    BY <1>5, <2>1 DEF ReadExactly
  <2>2. CASE n # 0
    <3>1. Headed'
      BY <1>1, <1>5, <2>2, BufShape, BufShapeNext DEF BufShaped, Idle
    <3>2. Announced' \in Nat
      BY <3>1, BufShapeNext DEF BufShaped
    <3>3. CASE n = 1
      <4>1. Len(buf') = 2
        BY <1>5, <3>3
      <4>2. 2 <= 3 + Announced'
        <5>1. \A a \in Nat : 2 <= 3 + a
          OBVIOUS
        <5> QED
          BY <3>2, <5>1
      <4> QED
        BY <3>1, <4>1, <4>2 DEF ReadExactly
    <3>4. CASE n # 1
      <4>1. buf'[2] = buf[2] /\ Headed
        <5>1. n >= 2 /\ 2 \in 1..n
          <6>1. \A m \in Nat : m # 0 /\ m # 1 => m >= 2 /\ 2 \in 1..m
            OBVIOUS
          <6>2. n \in Nat
            BY <1>5
          <6> QED
            BY <2>2, <3>4, <6>1, <6>2
        <5>2. Headed
          BY <1>1, <5>1, BufShape DEF BufShaped, Idle
        <5> QED
          BY <1>5, <5>1, <5>2
      <4>2. Announced' = Announced
        BY <4>1 DEF Announced
      <4>3. ~Implausible /\ ~Framed
        BY <1>1 DEF Idle
      <4>4. n < 3 + Announced
        BY <1>5, <3>2, <4>1, <4>2, <4>3 DEF Framed
      <4>5. ~Implausible'
        BY <4>1, <4>2, <4>3 DEF Implausible
      <4> QED
        BY <1>5, <3>1, <3>2, <4>2, <4>4, <4>5 DEF ReadExactly
    <3> QED
      BY <3>3, <3>4
  <2> QED
    BY <2>1, <2>2
<1>11. Asks'
  <2>1. \A k \in 1..Len(buf') : k \in 1..n \/ k = n + 1
    BY <1>5
  <2>2. 1 \in 1..Len(up)
    BY <1>3
  <2>3. /\ \A k \in 1..Len(up') : AskSum(up'[k])
        /\ \A k \in 1..Len(buf') : AskSum(buf'[k])
    BY <1>4, <1>5, <2>1, <2>2 DEF Fresh, Asks, AskSum
  <2> QED
    BY <1>1, <2>3 DEF Asks, AskSum
<1>12. AsksEnd'
  <2>1. ASSUME NEW k \in 1..Len(up), up[k][1] = "cks", Begun' \/ Led(up, k)
        PROVE  k = Len(up) /\ state # "TX_ISSUE"
    <3>1. 1 \in 1..k
      BY <1>3
    <3>2. up[1] = Magic => Led(up, k)
      BY <3>1 DEF Led
    <3> QED
      BY <1>7, <2>1, <3>2 DEF Fresh, AsksEnd
  <2>2. ASSUME NEW k \in 1..Len(up'), up'[k][1] = "cks", Begun' \/ Led(up', k)
        PROVE  k = Len(up') /\ state # "TX_ISSUE"
    <3>1. k + 1 \in 1..Len(up) /\ up[k + 1][1] = "cks" /\ (Begun' \/ Led(up, k + 1))
      BY <1>4, <2>2
    <3> QED
      BY <1>4, <2>1, <2>2, <3>1
  <2>3. ASSUME Framed', buf'[Len(buf')][1] = "cks"
        PROVE  up' = <<>> /\ state # "TX_ISSUE"
    <3>1. Begun' /\ up[1][1] = "cks" /\ 1 \in 1..Len(up)
      BY <1>3, <1>5, <2>3, BufShape, BufShapeNext DEF BufShaped, Framed, Headed, Begun
    <3>2. 1 = Len(up) /\ state # "TX_ISSUE"
      BY <2>1, <3>1
    <3> QED
      BY <1>1, <1>3, <3>2, NothingLeft
  <2> QED
    BY <1>1, <2>2, <2>3 DEF AsksEnd
<1>13. Answers'
  BY <1>1 DEF Fresh, Answers, InFrame
<1>14. ServeIsRest' /\ ServedFresh'
  BY <1>1 DEF Fresh, ServeIsRest, ServedFresh
<1> QED
  BY <1>9, <1>10, <1>11, <1>12, <1>13, <1>14 DEF Fresh

\* A line the PC drops, with or without an answer in text, and a magic it gives up.
LEMMA DropsFresh == IInv /\ IInv' /\ FInv /\ (HostResyncs \/ HostDropsMagic) => FInv'
<1> SUFFICES ASSUME IInv, IInv', FInv, HostResyncs \/ HostDropsMagic PROVE FInv'
  OBVIOUS
<1>1. /\ buf' = Tail(buf) /\ buf \in Seq(CheckedTokens) /\ down \in Seq(CheckedTokens)
      /\ UNCHANGED <<state, fill, loaded, asked, tx_idx, sec_buf, up, mounted, mounts,
                     stalls, resets>>
  BY DEF HostResyncs, HostDropsMagic, drive, parser, faults, IInv, LineTypes
<1>2. MountsAscend' /\ (Punctual' <=> Punctual)
  BY <1>1 DEF FInv, MountsAscend, Punctual
<1> SUFFICES ASSUME Fresh PROVE Fresh'
  BY <1>2 DEF FInv
<1>3. /\ Len(buf) \in {1, 2} /\ Len(buf') = Len(buf) - 1
      /\ \A k \in 1..Len(buf') : buf'[k] = buf[k + 1] /\ buf'[k] # Magic
  <2>1. Len(buf) \in {1, 2} /\ (Len(buf) = 2 => buf[2] # Magic)
    <3>1. CASE Garbage
      <4>1. Len(buf) \in Nat /\ Len(buf) >= 1 /\ ~Headed
        BY <3>1, BufShape DEF BufShaped
      <4>2. Len(buf) <= 1
        BY <4>1 DEF Fresh, ReadExactly
      <4>3. \A m \in Nat : m >= 1 /\ m <= 1 => m = 1
        OBVIOUS
      <4>4. Len(buf) = 1
        BY <4>1, <4>2, <4>3
      <4> QED
        BY <4>4
    <3>2. CASE Implausible
      <4>1. Len(buf) = 2
        BY <3>2, BufShape, BufShapeNext DEF BufShaped, Fresh, ReadExactly, Implausible
      <4>2. Announced = TooLong
        BY <3>2 DEF Implausible
      <4>3. buf[2] # Magic
        BY <4>2, ConstantsAssumption DEF Announced, TooLong, Magic
      <4> QED
        BY <4>1, <4>3
    <3> QED
      BY <3>1, <3>2 DEF HostResyncs, HostDropsMagic
  <2>2. Len(buf') = Len(buf) - 1 /\ \A k \in 1..Len(buf') : buf'[k] = buf[k + 1]
    BY <1>1, <2>1
  <2>3. \A k \in 1..Len(buf') : k = 1 /\ Len(buf) = 2
    BY <2>1, <2>2
  <2> QED
    BY <2>1, <2>2, <2>3
<1>4. ~Begun' /\ ~Framed' /\ ReadExactly' /\ buf # <<>>
  <2>1. ~Begun' /\ ~Headed'
    BY <1>3, BufShape, BufShapeNext DEF BufShaped
  <2> QED
    BY <1>3, <2>1, BufShape, BufShapeNext DEF BufShaped, Framed, ReadExactly
<1>5. /\ Len(down) \in Nat /\ Len(down') \in Nat /\ Len(down') >= Len(down)
      /\ \A k \in 1..Len(down) : down'[k] = down[k]
      /\ \A k \in 1..Len(down') : k \in 1..Len(down) \/ down'[k] = Text
  <2>1. down' = down \/ down' = down \o <<>> \/ down' = down \o <<Text>>
    BY DEF HostResyncs, HostDropsMagic
  <2>2. down \o <<>> = down
    BY <1>1
  <2>3. CASE down' = down
    BY <1>1, <2>3
  <2>4. CASE down' = down \o <<Text>>
    <3>1. down' = Append(down, Text)
      BY <1>1, <2>4
    <3> QED
      BY <1>1, <3>1
  <2> QED
    BY <2>1, <2>2, <2>3, <2>4
<1>6. Text # Magic /\ Text[1] # "cks"
  BY DEF Text, Magic
<1>7. HasMagic(down') => HasMagic(down)
  BY <1>5, <1>6 DEF HasMagic
<1>8. OneMagic(down')
  <2>1. \A k \in 1..Len(down') : down'[k] = Magic => k \in 1..Len(down) /\ down[k] = Magic
    BY <1>5, <1>6
  <2> QED
    BY <2>1 DEF Fresh, OneCall, OneMagic
<1>9. OneCall'
  BY <1>1, <1>4, <1>7, <1>8 DEF Fresh, OneCall, Asking, InFrame
<1>10. Asks'
  <2>1. \A k \in 1..Len(buf') : k + 1 \in 1..Len(buf)
    BY <1>3
  <2> QED
    BY <1>1, <1>3, <2>1 DEF Fresh, Asks, AskSum
<1>11. AsksEnd'
  BY <1>1, <1>4 DEF Fresh, AsksEnd
<1>12. Answers'
  <2> SUFFICES ASSUME NEW k \in 1..Len(down'), GoodSum(down'[k]), InFrame \/ Led(down', k)
               PROVE  FALSE
    BY <1>1 DEF Answers, InFrame
  <2>1. k \in 1..Len(down) /\ down'[k] = down[k]
    BY <1>5, <1>6 DEF GoodSum
  <2>2. Led(down', k) => Led(down, k)
    <3>1. \A j \in 1..k : j \in 1..Len(down)
      BY <1>5, <2>1
    <3> QED
      BY <1>5, <3>1 DEF Led
  <2> QED
    BY <1>4, <2>1, <2>2 DEF Fresh, Answers
<1>13. ServeIsRest' /\ ServedFresh'
  BY <1>1, <1>4 DEF Fresh, ServeIsRest, ServedFresh
<1> QED
  BY <1>4, <1>9, <1>10, <1>11, <1>12, <1>13 DEF Fresh

\* A frame of the PC has one magic, first, and one checksum, last.
LEMMA ResponseEnds ==
  ASSUME NEW cmd \in {Cmd, Junk}, NEW verdict \in Statuses, NEW payload \in Seq(Tokens),
         \A k \in 1..Len(payload) : payload[k] # Magic /\ payload[k][1] # "cks"
  PROVE  LET frame == Response(cmd, verdict, payload)
             head  == <<"head", verdict, Len(payload)>>
         IN  /\ frame \in Seq({Magic, cmd, head} \cup Tokens \cup {<<"cks", <<head>> \o payload>>})
             /\ Len(frame) = Len(payload) + 4
             /\ \A k \in 1..Len(frame) : frame[k] = Magic => k = 1
             /\ \A k \in 1..Len(frame) : frame[k][1] = "cks" =>
                  k = Len(frame) /\ frame[k] = <<"cks", <<head>> \o payload>>
<1> DEFINE head  == <<"head", verdict, Len(payload)>>
           front == <<Magic, cmd, head>>
           cks   == <<"cks", <<head>> \o payload>>
           all   == {Magic, cmd, head} \cup Tokens \cup {cks}
           frame == Response(cmd, verdict, payload)
<1>1. frame = (front \o payload) \o <<cks>>
  BY DEF Response
<1>2. cks[1] = "cks" /\ cks # Magic
  BY DEF Magic
<1>3. /\ front \in Seq(all) /\ Len(front) = 3 /\ front[1] = Magic
      /\ \A k \in {2, 3} : front[k] # Magic
      /\ \A k \in {1, 2, 3} : front[k][1] # "cks"
  BY DEF Magic, Cmd, Junk
<1> HIDE DEF front, cks, head, frame
<1>4. payload \in Seq(all) /\ <<cks>> \in Seq(all) /\ Len(<<cks>>) = 1 /\ <<cks>>[1] = cks
  OBVIOUS
<1> HIDE DEF all
<1> DEFINE left == front \o payload
<1>5. /\ left \in Seq(all) /\ Len(left) = Len(payload) + 3 /\ Len(payload) \in Nat
      /\ \A k \in 1..3 : left[k] = front[k]
      /\ \A k \in 1..Len(payload) : left[k + 3] = payload[k]
  <2>1. front \in Seq(all) /\ payload \in Seq(all)
    BY <1>3, <1>4
  <2>2. left \in Seq(all) /\ Len(left) = Len(front) + Len(payload)
    BY <2>1
  <2>3. \A k \in 1..Len(front) : left[k] = front[k]
    BY <2>1
  <2>4. \A k \in 1..Len(payload) : left[k + Len(front)] = payload[k]
    BY <2>1
  <2> HIDE DEF left
  <2> QED
    BY <1>3, <2>1, <2>2, <2>3, <2>4
<1> HIDE DEF left
<1>6. /\ frame \in Seq(all) /\ Len(frame) = Len(payload) + 4
      /\ \A k \in 1..Len(left) : frame[k] = left[k]
      /\ frame[Len(left) + 1] = cks
  BY <1>1, <1>4, <1>5 DEF left
<1>7. ASSUME NEW k \in 1..Len(frame)
      PROVE  /\ frame[k] = Magic => k = 1
             /\ frame[k][1] = "cks" => k = Len(frame) /\ frame[k] = cks
  <2>1. CASE k \in 1..3
    <3>1. frame[k] = front[k]
      BY <1>5, <1>6, <2>1
    <3> QED
      BY <1>3, <2>1, <3>1
  <2>2. CASE k \in 4..Len(left)
    <3>1. k - 3 \in 1..Len(payload) /\ (k - 3) + 3 = k /\ k \in 1..Len(left)
      BY <1>5, <2>2
    <3>2. frame[k] = payload[k - 3]
      BY <1>5, <1>6, <3>1
    <3> QED
      BY <3>1, <3>2
  <2>3. CASE k = Len(left) + 1
    <3>1. frame[k] = cks /\ k = Len(frame)
      BY <1>5, <1>6, <2>3
    <3> QED
      BY <1>2, <3>1
  <2> QED
    BY <1>5, <1>6, <2>1, <2>2, <2>3
<1> QED
  BY <1>6, <1>7 DEF frame, all, cks, head

\* What the PC sends for a frame it has read.
Frame(answer) ==
  /\ answer \in Seq(CheckedTokens) /\ Len(answer) >= 1
  /\ \A k \in 1..Len(answer) : answer[k] = Magic => k = 1
  /\ \A k \in 1..Len(answer) : GoodSum(answer[k]) => k = Len(answer)

\* An error is no good answer.
LEMMA ErrorEnds ==
  ASSUME NEW cmd \in {Cmd, Junk}
  PROVE  LET answer == Response(cmd, "error", <<Text>>)
         IN  Frame(answer) /\ \A k \in 1..Len(answer) : ~GoodSum(answer[k])
<1> DEFINE text == <<Text>>
           head == <<"head", "error", Len(text)>>
           sum  == <<head>> \o text
           answer == Response(cmd, "error", text)
<1>1. text \in Seq(Tokens) /\ Len(text) = 1 /\ text[1] = Text
  BY DEF Tokens
<1>2. Text # Magic /\ Text[1] # "cks" /\ "error" \in Statuses
  BY DEF Text, Magic, Statuses
<1> HIDE DEF text
<1>3. \A k \in 1..Len(text) : text[k] # Magic /\ text[k][1] # "cks"
  BY <1>1, <1>2
<1>4. 1 <= SectorLen + 1
  BY ConstantsAssumption
<1>5. answer \in Seq(CheckedTokens)
  BY <1>1, <1>2, <1>3, <1>4, ResponseTokens
<1>6. sum[1] = head
  BY <1>1, SumSplits
<1> HIDE DEF sum
<1>7. ~GoodSum(<<"cks", sum>>)
  BY <1>6 DEF GoodSum
<1>8. /\ Len(answer) = Len(text) + 4
      /\ \A k \in 1..Len(answer) : answer[k] = Magic => k = 1
      /\ \A k \in 1..Len(answer) : answer[k][1] = "cks" => answer[k] = <<"cks", sum>>
  BY <1>1, <1>2, <1>3, ResponseEnds DEF sum
<1> HIDE DEF answer
<1>9. \A k \in 1..Len(answer) : ~GoodSum(answer[k])
  BY <1>7, <1>8 DEF GoodSum
<1>10. Frame(answer)
  BY <1>1, <1>5, <1>8, <1>9 DEF Frame
<1> QED
  BY <1>9, <1>10 DEF answer, text

\* A good answer is to the fetch, and of the image that is in the drive.
LEMMA AnswerEnds ==
  ASSUME IInv, MountsAscend
  PROVE  /\ Frame(Answer(fill))
         /\ \A k \in 1..Len(Answer(fill)) : GoodSum(Answer(fill)[k]) => FreshSum(Answer(fill)[k])
<1>1. CASE mounted # 0 /\ fill \in Sectors
  <2> DEFINE data   == SectorData(mounted, fill)
             head   == <<"head", "ok", Len(data)>>
             sum    == <<head>> \o data
             answer == Response(Cmd, "ok", data)
  <2>1. Answer(fill) = answer
    BY <1>1 DEF Answer
  <2>2. mounted \in Images /\ mounted >= asked
    BY <1>1, ConstantsAssumption DEF IInv, CountTypes, FetchTypes, Images, MountsAscend
  <2>3. \A k \in 1..SectorLen : <<"data", mounted, fill, k>> \in Tokens
    BY <1>1, <2>2 DEF Tokens, Addresses
  <2>4. data \in Seq(Tokens) /\ Len(data) = SectorLen
    BY <2>3, ConstantsAssumption DEF SectorData
  <2>5. \A k \in 1..SectorLen : data[k] # Magic /\ data[k][1] # "cks"
    BY DEF SectorData, Magic
  <2>6. \E image \in Images, b \in Sectors : data = SectorData(image, b)
    BY <1>1, <2>2
  <2> HIDE DEF data
  <2>7. "ok" \in Statuses /\ SectorLen <= SectorLen + 1
    BY ConstantsAssumption DEF Statuses
  <2>8. \A k \in 1..Len(data) : data[k] # Magic /\ data[k][1] # "cks"
    BY <2>4, <2>5
  <2>9. answer \in Seq(CheckedTokens)
    BY <2>4, <2>6, <2>7, <2>8, ResponseTokens
  <2>10. /\ Len(answer) = Len(data) + 4
         /\ \A k \in 1..Len(answer) : answer[k] = Magic => k = 1
         /\ \A k \in 1..Len(answer) : answer[k][1] = "cks" =>
              k = Len(answer) /\ answer[k] = <<"cks", sum>>
    BY <2>4, <2>7, <2>8, ResponseEnds
  <2>11. FreshSum(<<"cks", sum>>)
    BY <1>1, <2>2, <2>4 DEF FreshSum, data
  <2> HIDE DEF sum, answer
  <2>12. Len(answer) >= 1
    BY <2>4, <2>10, ConstantsAssumption
  <2>13. Frame(answer)
    BY <2>9, <2>10, <2>12 DEF Frame, GoodSum
  <2>14. \A k \in 1..Len(answer) : GoodSum(answer[k]) => FreshSum(answer[k])
    BY <2>10, <2>11 DEF GoodSum
  <2> QED
    BY <2>1, <2>13, <2>14
<1>2. CASE ~(mounted # 0 /\ fill \in Sectors)
  <2>1. Answer(fill) = Response(Cmd, "error", <<Text>>)
    BY <1>2 DEF Answer
  <2> QED
    BY <2>1, ErrorEnds
<1> QED
  BY <1>1, <1>2

\* What the PC answers is the only thing under way that can come to be an answer.
LEMMA AnswersFresh == IInv /\ IInv' /\ FInv /\ HostAnswers => FInv'
<1> SUFFICES ASSUME IInv, IInv', FInv, HostAnswers PROVE FInv'
  OBVIOUS
<1>1. /\ Framed
      /\ UNCHANGED <<state, fill, loaded, asked, tx_idx, sec_buf, up, mounted, mounts,
                     stalls, resets>>
  BY DEF HostAnswers, drive, parser, faults
<1>2. MountsAscend' /\ (Punctual' <=> Punctual)
  BY <1>1 DEF FInv, MountsAscend, Punctual
<1> SUFFICES ASSUME Fresh PROVE Fresh'
  BY <1>2 DEF FInv
<1> DEFINE size    == 3 + Announced
           covered == SubSeq(buf, 2, size - 1)
<1>3. /\ Announced \in Nat /\ Len(buf) \in Nat /\ Len(buf) = size /\ Headed /\ Begun
      /\ buf \in Seq(CheckedTokens)
  <2>1. Headed /\ ~Implausible /\ Len(buf) >= 3 + Announced
    BY <1>1 DEF Framed
  <2>2. Announced \in Nat /\ Len(buf) \in Nat /\ Begun /\ Len(buf) >= 2
    BY <2>1, BufShape DEF BufShaped
  <2>3. Len(buf) <= 3 + Announced
    <3>1. \A a, m \in Nat : m >= 3 + a => ~(m <= 1)
      OBVIOUS
    <3>2. ~(Len(buf) <= 1)
      BY <2>1, <2>2, <3>1
    <3> QED
      BY <3>2 DEF Fresh, ReadExactly
  <2>4. \A a, m \in Nat : m >= 3 + a /\ m <= 3 + a => m = 3 + a
    OBVIOUS
  <2> QED
    BY <2>1, <2>2, <2>3, <2>4 DEF IInv, LineTypes
<1>4. buf' = <<>>
  <2>1. buf' = SubSeq(buf, size + 1, Len(buf)) /\ size + 1 > Len(buf)
    BY <1>3 DEF HostAnswers
  <2> QED
    BY <1>3, <2>1
<1>5. /\ ~HasMagic(up) /\ ~HasMagic(down) /\ ~InFrame /\ ~Asking
  BY <1>1, <1>3 DEF Fresh, OneCall, Idle
<1>6. \E answer :
        /\ down' = down \o answer /\ Frame(answer)
        /\ \A k \in 1..Len(answer) : GoodSum(answer[k]) =>
             up = <<>> /\ state # "TX_ISSUE" /\ FreshSum(answer[k])
  <2>1. CASE buf[size] = <<"cks", covered>>
    <3>1. down' = down \o Answer(covered[2][2])
      BY <2>1 DEF HostAnswers
    <3>2. buf[size][1] = "cks" /\ size = Len(buf) /\ size \in 1..Len(buf)
      BY <1>3, <2>1
    <3>3. up = <<>> /\ state # "TX_ISSUE"
      BY <1>1, <3>2 DEF Fresh, AsksEnd
    <3>4. buf[size] = Request(fill)[4]
      BY <3>2 DEF Fresh, Asks, AskSum
    <3>5. covered = << <<"len", 1>>, <<"address", fill>> >>
      <4> HIDE DEF covered
      <4> QED
        BY <2>1, <3>4 DEF Request
    <3>6. covered[2][2] = fill
      <4> HIDE DEF covered
      <4> QED
        BY <3>5
    <3>7. down' = down \o Answer(fill)
      BY <3>1, <3>6
    <3> QED
      BY <3>3, <3>7, AnswerEnds DEF FInv
  <2>2. CASE buf[size] # <<"cks", covered>>
    <3>1. \E cmd \in {Cmd, Junk} : down' = down \o Response(cmd, "error", <<Text>>)
      BY <2>2 DEF HostAnswers
    <3> QED
      BY <3>1, ErrorEnds
  <2> QED
    BY <2>1, <2>2
<1> PICK answer :
      /\ down' = down \o answer /\ Frame(answer)
      /\ \A k \in 1..Len(answer) : GoodSum(answer[k]) =>
           up = <<>> /\ state # "TX_ISSUE" /\ FreshSum(answer[k])
  BY <1>6
<1>7. /\ Len(down) \in Nat /\ Len(answer) \in Nat /\ Len(down') = Len(down) + Len(answer)
      /\ \A k \in 1..Len(down) : down'[k] = down[k]
      /\ \A k \in 1..Len(down') : k \in 1..Len(down)
           \/ (k - Len(down) \in 1..Len(answer) /\ down'[k] = answer[k - Len(down)])
  BY DEF IInv, LineTypes, Frame
<1>8. \A k \in 1..Len(down') : down'[k] = Magic => k - Len(down) = 1
  BY <1>5, <1>7 DEF HasMagic, Frame
<1>9. OneMagic(down')
  BY <1>7, <1>8 DEF OneMagic
<1>10. ~Begun' /\ ~Framed' /\ ReadExactly' /\ buf # <<>>
  BY <1>3, <1>4 DEF Begun, Framed, Headed, ReadExactly
<1>11. OneCall'
  BY <1>1, <1>5, <1>9, <1>10 DEF Fresh, OneCall, Asking, InFrame
<1>12. Asks'
  BY <1>1, <1>4 DEF Fresh, Asks, AskSum
<1>13. AsksEnd'
  <2>1. \A k \in 1..Len(up) : ~Led(up, k)
    BY <1>5 DEF Led, HasMagic, IInv, LineTypes
  <2> QED
    BY <1>1, <1>10, <2>1 DEF AsksEnd
<1>14. Answers'
  <2> SUFFICES ASSUME NEW k \in 1..Len(down'), GoodSum(down'[k]), InFrame \/ Led(down', k)
               PROVE  up = <<>> /\ state # "TX_ISSUE" /\ k = Len(down') /\ FreshSum(down[k])'
    BY <1>1, <1>4 DEF Answers, InFrame
  <2>1. ~(k \in 1..Len(down))
    <3> SUFFICES ASSUME k \in 1..Len(down) PROVE ~Led(down', k)
      BY <1>5
    <3>1. \A j \in 1..k : j \in 1..Len(down)
      BY <1>7
    <3> QED
      BY <1>5, <1>7, <3>1 DEF Led, HasMagic
  <2>2. k - Len(down) \in 1..Len(answer) /\ down'[k] = answer[k - Len(down)]
    BY <1>7, <2>1
  <2>3. up = <<>> /\ state # "TX_ISSUE" /\ FreshSum(down'[k]) /\ k - Len(down) = Len(answer)
    BY <2>2 DEF Frame
  <2>4. k = Len(down')
    BY <1>7, <2>3
  <2> QED
    BY <1>1, <2>3, <2>4 DEF FreshSum
<1>15. ServeIsRest' /\ ServedFresh'
  BY <1>1, <1>10 DEF Fresh, ServeIsRest, ServedFresh
<1> QED
  BY <1>10, <1>11, <1>12, <1>13, <1>14, <1>15 DEF Fresh

LEMMA FreshStep == IInv /\ FInv /\ [Next]_vars => FInv'
<1> SUFFICES ASSUME IInv, FInv, [Next]_vars PROVE FInv'
  OBVIOUS
<1>1. IInv'
  BY StepHolds
<1>2. CASE UNCHANGED vars
  <2>1. UNCHANGED <<state, fill, loaded, asked, tx_idx, sec_buf, up, down, buf, mounted, mounts,
                    stalls, resets>>
    BY <1>2 DEF vars, drive, parser, host, faults
  <2>2. Fresh => Fresh'
    BY <2>1, SameFresh
  <2> QED
    BY <2>1, <2>2 DEF FInv, MountsAscend, Punctual
<1>3. CASE Serve
  BY <1>3, FetchFresh DEF Serve
<1>4. CASE ZoneCrossing
  BY <1>4, FetchFresh DEF ZoneCrossing
<1>5. CASE HostMoves
  BY <1>1, <1>5, ReadsFresh, DropsFresh, AnswersFresh DEF HostMoves
<1>6. CASE Issue \/ Receive \/ Watchdog \/ Reset
  BY <1>1, <1>6, IssueFresh, ReceiveFresh, WatchdogFresh, ResetFresh
<1>7. CASE UserMoves \/ HeadMoves \/ LineFails
  BY <1>1, <1>7, UserFresh, LineFresh
<1> QED
  BY <1>2, <1>3, <1>4, <1>5, <1>6, <1>7 DEF Next, FpgaMoves

\* While no answer was later than the watchdog and the board was not reset,
\* what the drive reads is the sector under the head, of an image that was in
\* the drive at or after the moment its fetch began, whatever the line lost or
\* changed: frames do not name their sector, so this rests on one request and
\* one answer being under way at a time.
THEOREM NeverStale == Spec => []AnswerIsFresh
<1>1. Init => FInv
  BY InitFresh
<1>2. IInv /\ FInv /\ [Next]_vars => FInv'
  BY FreshStep
<1>3. IInv /\ FInv => AnswerIsFresh
  <2> SUFFICES ASSUME IInv, FInv PROVE AnswerIsFresh
    OBVIOUS
  <2>1. WholeSector
    BY ConstantsAssumption DEF IInv, FetchTypes, Served, Whole, WholeSector, Valid
  <2>2. ASSUME Punctual, Valid
        PROVE  \E image \in Images : image >= asked /\ sec_buf = SectorData(image, wanted)
    <3>1. state = "SERVE" /\ loaded = wanted /\ loaded # NoSector
      BY <2>2, ConstantsAssumption DEF Valid, IInv, FetchTypes
    <3> QED
      BY <2>2, <3>1 DEF FInv, Fresh, ServedFresh
  <2> QED
    BY <2>1, <2>2 DEF AnswerIsFresh
<1> QED
  BY <1>1, <1>2, <1>3, Invariant, PTL DEF Spec

\* The loader has the port from its start to its end.
LoaderHasPort == child = "sending" => port = "hook"

\* An upload, from the button to its event.
HookLife ==
  /\ hook = "running" => busy /\ ~worker
  /\ hook = "posted" => child \in {"ok", "failed"}
  /\ hook = "none" /\ window # "closed" => child = "none"
  /\ window = "closed" => hook = "none" /\ events = <<>>

\* The event that ends it is in the queue once at most, and only then.
DoneOnce ==
  /\ \A i \in 1 .. Len(events) : events[i] = "hook_done" => hook = "posted"
  /\ \A i, k \in 1 .. Len(events) :
       events[i] = "hook_done" /\ events[k] = "hook_done" => i = k

\* The launcher's display, once every process that runs is one whose error was shown.
Settled ==
  (\A j \in Jobs : job[j] \in {"new", "over", "adrift"}) => ~stop /\ shown # "Running"

PortInv == PortHasOwner /\ LoaderHasPort /\ HookLife /\ DoneOnce

DeskInv == DeskTypeOK /\ PortInv /\ StreamHasTimer /\ Settled

USE JobsAssumption, AppAssumption

-----------------------------------------------------------------------------
(* The queue of events. *)

\* An event behind the others.
LEMMA Queued ==
  ASSUME NEW S, NEW q \in Seq(S), NEW e \in S
  PROVE  /\ Append(q, e) \in Seq(S)
         /\ Len(Append(q, e)) = Len(q) + 1
         /\ \A i \in 1 .. Len(q) : Append(q, e)[i] = q[i]
         /\ Append(q, e)[Len(q) + 1] = e
OBVIOUS

LEMMA Emptied == ASSUME NEW S PROVE <<>> \in Seq(S)
OBVIOUS

\* The first event taken.
LEMMA Taken ==
  ASSUME NEW S, NEW q \in Seq(S), q # <<>>
  PROVE  /\ Tail(q) \in Seq(S) /\ Head(q) = q[1] /\ Head(q) \in S
         /\ Len(q) >= 1 /\ Len(Tail(q)) = Len(q) - 1
         /\ \A i \in 1 .. Len(Tail(q)) : Tail(q)[i] = q[i + 1]
OBVIOUS

-----------------------------------------------------------------------------
(* Types: of the drive's window, then of the launcher. *)

LEMMA LinkKept == ASSUME DeskTypeOK, AppNext PROVE LinkTypes'
<1> USE DEF DeskTypeOK, LinkTypes, link
<1>1. CASE Connect
  BY <1>1 DEF Connect, Connected
<1>2. CASE Disconnect \/ SendHook \/ SendNoHook
  BY <1>2 DEF Disconnect, SendHook, SendNoHook, Disconnected, StopWorker
<1>3. CASE ThreadDies \/ LateEnds \/ LoaderOpens \/ LoaderEnds
  BY <1>3 DEF ThreadDies, LateEnds, LoaderOpens, LoaderEnds
<1>4. CASE PollEvent
  BY <1>4 DEF PollEvent, HookDone, Connected
<1>5. CASE CloseEnds
  BY <1>5 DEF CloseEnds
<1>6. CASE \/ Progress \/ RemoteMount \/ HookPosts \/ OrphanEnds \/ PollBegins \/ PollEnds
           \/ SectorIdle \/ ChangeDisk \/ CloseBegins \/ Start
  BY <1>6 DEF Progress, RemoteMount, HookPosts, OrphanEnds, PollBegins, PollEnds,
              SectorIdle, ChangeDisk, CloseBegins, Start
<1> QED
  BY <1>1, <1>2, <1>3, <1>4, <1>5, <1>6 DEF AppNext

LEMMA HookKept == ASSUME DeskTypeOK, AppNext PROVE HookTypes'
<1> USE DEF DeskTypeOK, HookTypes, sending
<1>1. CASE SendHook
  BY <1>1 DEF SendHook
<1>2. CASE LoaderOpens \/ LoaderEnds \/ HookPosts \/ OrphanEnds
  BY <1>2 DEF LoaderOpens, LoaderEnds, HookPosts, OrphanEnds
<1>3. CASE PollEvent
  BY <1>3 DEF PollEvent, HookDone
<1>4. CASE CloseEnds
  BY <1>4 DEF CloseEnds
<1>5. CASE Connect \/ Disconnect \/ SendNoHook \/ ThreadDies \/ LateEnds
  BY <1>5 DEF Connect, Disconnect, SendNoHook, ThreadDies, LateEnds
<1>6. CASE \/ Progress \/ RemoteMount \/ PollBegins \/ PollEnds
           \/ SectorIdle \/ ChangeDisk \/ CloseBegins \/ Start
  BY <1>6 DEF Progress, RemoteMount, PollBegins, PollEnds, SectorIdle, ChangeDisk,
              CloseBegins, Start
<1> QED
  BY <1>1, <1>2, <1>3, <1>4, <1>5, <1>6 DEF AppNext

LEMMA ShowKept == ASSUME DeskTypeOK, AppNext PROVE ShowTypes'
<1> USE DEF DeskTypeOK, ShowTypes, transfer
<1>1. CASE Connect \/ Disconnect \/ SendHook \/ SendNoHook
  BY <1>1 DEF Connect, Connected, Disconnect, SendHook, SendNoHook, Disconnected
<1>2. CASE Progress \/ RemoteMount \/ HookPosts
  <2>1. PICK e \in {"progress", "sector", "mounted", "hook_done"} : events' = Append(events, e)
    BY <1>2 DEF Progress, RemoteMount, HookPosts
  <2>2. events' \in Seq({"progress", "sector", "mounted", "hook_done"})
    <3> HIDE DEF ShowTypes
    <3>1. events \in Seq({"progress", "sector", "mounted", "hook_done"})
      BY DEF ShowTypes
    <3> QED
      BY <2>1, <3>1, Queued
  <2> QED
    BY <1>2, <2>2 DEF Progress, RemoteMount, HookPosts
<1>3. CASE PollEvent
  <2>1. events' \in Seq({"progress", "sector", "mounted", "hook_done"}) /\ window' = window
    BY <1>3, Taken DEF PollEvent
  <2> QED
    BY <1>3, <2>1 DEF PollEvent, HookDone, Connected, ShowSector, ShowPhase
<1>4. CASE ThreadDies \/ LateEnds \/ LoaderOpens \/ LoaderEnds \/ OrphanEnds
  BY <1>4 DEF ThreadDies, LateEnds, LoaderOpens, LoaderEnds, OrphanEnds
<1>5. CASE PollBegins \/ PollEnds \/ SectorIdle \/ ChangeDisk
  BY <1>5 DEF PollBegins, PollEnds, SectorIdle, ChangeDisk
<1>6. CASE CloseBegins \/ Start
  BY <1>6 DEF CloseBegins, Start
<1>7. CASE CloseEnds
  <2>1. events' = <<>> /\ window' = "closed" /\ UNCHANGED <<status, stream, timer>>
    BY <1>7 DEF CloseEnds
  <2>2. events' \in Seq({"progress", "sector", "mounted", "hook_done"})
    BY <2>1, Emptied
  <2> QED
    BY <2>1, <2>2
<1> QED
  BY <1>1, <1>2, <1>3, <1>4, <1>5, <1>6, <1>7 DEF AppNext

LEMMA KeptKept == ASSUME DeskTypeOK, AppNext PROVE KeptTypes'
<1> USE DEF DeskTypeOK, KeptTypes, kept
<1>1. CASE Connect \/ Disconnect \/ SendHook \/ SendNoHook
  BY <1>1 DEF Connect, Connected, Disconnect, SendHook, SendNoHook
<1>2. CASE Progress \/ RemoteMount \/ HookPosts
  BY <1>2 DEF Progress, RemoteMount, HookPosts
<1>3. CASE PollEvent
  BY <1>3 DEF PollEvent, HookDone, Connected
<1>4. CASE ThreadDies \/ LateEnds \/ LoaderOpens \/ LoaderEnds \/ OrphanEnds
  BY <1>4 DEF ThreadDies, LateEnds, LoaderOpens, LoaderEnds, OrphanEnds
<1>5. CASE PollBegins \/ PollEnds \/ SectorIdle \/ ChangeDisk
  BY <1>5 DEF PollBegins, PollEnds, SectorIdle, ChangeDisk
<1>6. CASE CloseBegins \/ CloseEnds \/ Start
  BY <1>6 DEF CloseBegins, CloseEnds, Start
<1> QED
  BY <1>1, <1>2, <1>3, <1>4, <1>5, <1>6 DEF AppNext

\* The launcher: its own variables, and of the drive's only the port.
LEMMA RunKept == ASSUME DeskTypeOK, RunNext PROVE RunTypes' /\ port' \in {"none", "app", "hook"} \cup Jobs
<1> USE DEF DeskTypeOK, LinkTypes, RunTypes, runVars
<1>1. CASE Stop
  BY <1>1 DEF Stop, Busy, Over
<1>2. ASSUME NEW j \in Jobs, Run(j) \/ Popen(j) \/ PopenFails(j) \/ ReadFails(j) \/ OpensPort(j)
      PROVE  RunTypes' /\ port' \in {"none", "app", "hook"} \cup Jobs
  BY <1>2 DEF Run, Popen, PopenFails, ReadFails, OpensPort
<1>3. ASSUME NEW j \in Jobs, Ends(j) \/ Finish(j) \/ ShowError(j)
      PROVE  RunTypes' /\ port' \in {"none", "app", "hook"} \cup Jobs
  BY <1>3 DEF Ends, Over, Finish, ShowError
<1> QED
  BY <1>1, <1>2, <1>3 DEF RunNext

LEMMA TypeStep == ASSUME DeskTypeOK, [DeskNext]_deskVars PROVE DeskTypeOK'
<1>1. CASE AppNext /\ UNCHANGED runVars
  <2>1. RunTypes'
    BY <1>1 DEF DeskTypeOK, RunTypes, runVars
  <2> QED
    BY <1>1, <2>1, LinkKept, HookKept, ShowKept, KeptKept DEF DeskTypeOK
<1>2. CASE RunNext /\ UNCHANGED appVars
  <2>1. LinkTypes'
    BY <1>2, RunKept DEF DeskTypeOK, LinkTypes, appVars, link
  <2>2. HookTypes' /\ KeptTypes'
    BY <1>2 DEF DeskTypeOK, HookTypes, KeptTypes, appVars, sending, kept
  <2>3. ShowTypes'
    BY <1>2 DEF DeskTypeOK, ShowTypes, appVars, transfer
  <2> QED
    BY <1>2, <2>1, <2>2, <2>3, RunKept DEF DeskTypeOK
<1>3. CASE UNCHANGED deskVars
  <2>1. UNCHANGED <<port, appVars, runVars>>
    BY <1>3 DEF deskVars
  <2>2. LinkTypes' /\ HookTypes' /\ KeptTypes'
    BY <2>1 DEF DeskTypeOK, LinkTypes, HookTypes, KeptTypes, appVars, link, sending, kept
  <2>3. ShowTypes' /\ RunTypes'
    BY <2>1 DEF DeskTypeOK, ShowTypes, RunTypes, appVars, transfer, runVars
  <2> QED
    BY <2>2, <2>3 DEF DeskTypeOK
<1> QED
  BY <1>1, <1>2, <1>3 DEF DeskNext

-----------------------------------------------------------------------------
(* The port and the life of an upload. *)

\* The end of an upload is only handled after the loader ended.
LEMMA DoneIsPosted ==
  ASSUME DeskTypeOK, PortInv, PollEvent, Head(events) = "hook_done"
  PROVE  hook = "posted" /\ child \in {"ok", "failed"}
<1>1. events # <<>> /\ events \in Seq({"progress", "sector", "mounted", "hook_done"})
  BY DEF PollEvent, DeskTypeOK, ShowTypes
<1>2. 1 \in 1 .. Len(events) /\ events[1] = "hook_done"
  BY <1>1, Taken
<1>3. hook = "posted"
  BY <1>2 DEF PortInv, DoneOnce
<1> QED
  BY <1>3 DEF PortInv, HookLife

LEMMA OwnerKept ==
  ASSUME DeskTypeOK, PortInv, AppNext, UNCHANGED runVars
  PROVE  PortHasOwner' /\ LoaderHasPort'
<1> USE DEF PortHasOwner, LoaderHasPort, link, sending
<1>0. /\ port = "app" <=> worker
      /\ port = "hook" <=> child = "sending"
      /\ \A j \in Jobs : port = j => Alive(j)
      /\ job' = job /\ (\A j \in Jobs : Alive(j)' <=> Alive(j)) /\ worker \in BOOLEAN
      /\ hook = "none" /\ window # "closed" => child = "none"
  BY DEF PortInv, HookLife, runVars, DeskTypeOK, LinkTypes, Alive
<1>1. CASE Connect
  BY <1>0, <1>1 DEF Connect, Connected
<1>2. CASE Disconnect \/ SendHook \/ SendNoHook
  BY <1>0, <1>2 DEF Disconnect, SendHook, SendNoHook, Disconnected, StopWorker
<1>3. CASE LoaderOpens \/ LoaderEnds
  BY <1>0, <1>3 DEF LoaderOpens, LoaderEnds
<1>4. CASE PollEvent
  <2>1. CASE Head(events) = "hook_done"
    BY <1>0, <1>4, <2>1, DoneIsPosted DEF PollEvent, HookDone, Connected
  <2>2. CASE Head(events) # "hook_done"
    BY <1>0, <1>4, <2>2 DEF PollEvent
  <2> QED
    BY <2>1, <2>2
<1>5. CASE CloseEnds
  BY <1>0, <1>5 DEF CloseEnds
<1>6. CASE ThreadDies \/ LateEnds \/ Progress \/ RemoteMount \/ HookPosts \/ OrphanEnds
  BY <1>0, <1>6 DEF ThreadDies, LateEnds, Progress, RemoteMount, HookPosts, OrphanEnds
<1>7. CASE PollBegins \/ PollEnds \/ SectorIdle \/ ChangeDisk \/ CloseBegins \/ Start
  BY <1>0, <1>7 DEF PollBegins, PollEnds, SectorIdle, ChangeDisk, CloseBegins, Start
<1> QED
  BY <1>1, <1>2, <1>3, <1>4, <1>5, <1>6, <1>7 DEF AppNext

LEMMA LifeKept ==
  ASSUME DeskTypeOK, PortInv, AppNext
  PROVE  HookLife'
<1> USE DEF HookLife, link, sending
<1>0. /\ HookLife /\ worker \in BOOLEAN
      /\ hook \in {"none", "running", "posted"}
      /\ child \in {"none", "starting", "sending", "ok", "failed"}
  BY DEF PortInv, DeskTypeOK, LinkTypes, HookTypes
<1>1. CASE Connect \/ Disconnect \/ SendHook \/ SendNoHook
  BY <1>0, <1>1 DEF Connect, Connected, Disconnect, SendHook, SendNoHook, Disconnected, StopWorker
<1>2. CASE LoaderOpens \/ LoaderEnds \/ OrphanEnds
  BY <1>0, <1>2 DEF LoaderOpens, LoaderEnds, OrphanEnds
<1>3. CASE Progress \/ RemoteMount \/ HookPosts
  BY <1>0, <1>3 DEF Progress, RemoteMount, HookPosts, Serving
<1>4. CASE PollEvent
  <2>1. CASE Head(events) = "hook_done"
    BY <1>0, <1>4, <2>1 DEF PollEvent, HookDone
  <2>2. CASE Head(events) # "hook_done"
    BY <1>0, <1>4, <2>2 DEF PollEvent
  <2> QED
    BY <2>1, <2>2
<1>5. CASE CloseEnds \/ Start
  BY <1>0, <1>5 DEF CloseEnds, Start
<1>6. CASE ThreadDies \/ LateEnds \/ PollBegins \/ PollEnds \/ SectorIdle \/ ChangeDisk \/ CloseBegins
  BY <1>0, <1>6 DEF ThreadDies, LateEnds, PollBegins, PollEnds, SectorIdle, ChangeDisk, CloseBegins
<1> QED
  BY <1>1, <1>2, <1>3, <1>4, <1>5, <1>6 DEF AppNext

LEMMA DoneKept ==
  ASSUME DeskTypeOK, PortInv, AppNext
  PROVE  DoneOnce'
<1> USE DEF DoneOnce, sending
<1>0. /\ DoneOnce /\ events \in Seq({"progress", "sector", "mounted", "hook_done"})
      /\ hook = "running" => \A i \in 1 .. Len(events) : events[i] # "hook_done"
      /\ hook = "none" => \A i \in 1 .. Len(events) : events[i] # "hook_done"
  BY DEF PortInv, DeskTypeOK, ShowTypes
<1>1. CASE events' = events /\ (hook' = hook \/ hook = "none")
  BY <1>0, <1>1
<1>2. CASE Progress \/ RemoteMount
  <2>1. PICK e \in {"progress", "sector", "mounted"} : events' = Append(events, e)
    BY <1>2 DEF Progress, RemoteMount
  <2>2. hook' = hook
    BY <1>2 DEF Progress, RemoteMount
  <2> QED
    BY <1>0, <2>1, <2>2, Queued
<1>3. CASE HookPosts
  <2>1. events' = Append(events, "hook_done") /\ hook = "running" /\ hook' = "posted"
    BY <1>3 DEF HookPosts
  <2> QED
    BY <1>0, <2>1, Queued
<1>4. CASE PollEvent
  <2>1. /\ Head(events) = events[1] /\ Len(events) >= 1 /\ events' = Tail(events)
        /\ Len(events') = Len(events) - 1
        /\ \A i \in 1 .. Len(events') : events'[i] = events[i + 1]
    BY <1>0, <1>4, Taken DEF PollEvent
  <2>2. \A i \in 1 .. Len(events') : i + 1 \in 1 .. Len(events) /\ i + 1 # 1
    BY <1>0, <2>1
  <2>3. CASE Head(events) = "hook_done"
    <3>1. \A i \in 1 .. Len(events') : events'[i] # "hook_done"
      BY <1>0, <2>1, <2>2, <2>3
    <3> QED
      BY <3>1
  <2>4. CASE Head(events) # "hook_done"
    <3>1. hook' = hook
      BY <1>4, <2>4 DEF PollEvent
    <3> QED
      BY <1>0, <2>1, <2>2, <3>1
  <2> QED
    BY <2>3, <2>4
<1>5. CASE CloseEnds
  BY <1>5 DEF CloseEnds
<1>6. CASE \/ Connect \/ Disconnect \/ SendHook \/ SendNoHook \/ ThreadDies \/ LateEnds
           \/ LoaderOpens \/ LoaderEnds \/ OrphanEnds
  BY <1>1, <1>6 DEF Connect, Disconnect, SendHook, SendNoHook, ThreadDies, LateEnds,
                    LoaderOpens, LoaderEnds, OrphanEnds
<1>7. CASE PollBegins \/ PollEnds \/ SectorIdle \/ ChangeDisk \/ CloseBegins \/ Start
  BY <1>1, <1>7 DEF PollBegins, PollEnds, SectorIdle, ChangeDisk, CloseBegins, Start
<1> QED
  BY <1>2, <1>3, <1>4, <1>5, <1>6, <1>7 DEF AppNext

\* The launcher gets the port only while nobody has it.
LEMMA PortRun ==
  ASSUME DeskTypeOK, PortInv, RunNext, UNCHANGED appVars
  PROVE  PortInv'
<1> USE DEF PortHasOwner, LoaderHasPort
<1>0. /\ port = "app" <=> worker
      /\ port = "hook" <=> child = "sending"
      /\ \A j \in Jobs : port = j => Alive(j)
      /\ worker' = worker /\ child' = child
      /\ job \in [Jobs -> {"new", "starting", "running", "unread", "adrift", "ended", "failed", "over"}]
      /\ proc \in Jobs \cup {"none"}
  BY DEF PortInv, appVars, link, sending, DeskTypeOK, RunTypes
<1>1. HookLife' /\ DoneOnce'
  BY DEF PortInv, HookLife, DoneOnce, appVars, link, sending
<1>2. CASE Stop
  BY <1>0, <1>1, <1>2 DEF Stop, Busy, Over, Alive, PortInv
<1>3. ASSUME NEW j \in Jobs, Run(j) \/ Popen(j) \/ PopenFails(j) \/ ReadFails(j)
      PROVE  PortInv'
  BY <1>0, <1>1, <1>3 DEF Run, Popen, PopenFails, ReadFails, Alive, PortInv
<1>4. ASSUME NEW j \in Jobs, OpensPort(j) \/ Ends(j)
      PROVE  PortInv'
  BY <1>0, <1>1, <1>4 DEF OpensPort, Ends, Over, Alive, PortInv, runVars
<1>5. ASSUME NEW j \in Jobs, Finish(j) \/ ShowError(j)
      PROVE  PortInv'
  BY <1>0, <1>1, <1>5 DEF Finish, ShowError, Alive, PortInv
<1> QED
  BY <1>2, <1>3, <1>4, <1>5 DEF RunNext

-----------------------------------------------------------------------------
(* What the window shows and keeps, and what the launcher shows. *)

LEMMA TimerKept ==
  ASSUME StreamHasTimer, AppNext
  PROVE  StreamHasTimer'
<1> USE DEF StreamHasTimer, transfer
<1>1. CASE Connect \/ Disconnect \/ SendHook \/ SendNoHook
  BY <1>1 DEF Connect, Disconnect, SendHook, SendNoHook, Disconnected
<1>2. CASE PollEvent
  BY <1>2 DEF PollEvent, HookDone, ShowSector, ShowPhase
<1>3. CASE Progress \/ RemoteMount \/ HookPosts \/ ThreadDies \/ LateEnds \/ LoaderOpens
           \/ LoaderEnds \/ OrphanEnds
  BY <1>3 DEF Progress, RemoteMount, HookPosts, ThreadDies, LateEnds, LoaderOpens, LoaderEnds,
              OrphanEnds
<1>4. CASE PollBegins \/ PollEnds \/ SectorIdle \/ ChangeDisk \/ CloseBegins \/ CloseEnds \/ Start
  BY <1>4 DEF PollBegins, PollEnds, SectorIdle, ChangeDisk, CloseBegins, CloseEnds, Start
<1> QED
  BY <1>1, <1>2, <1>3, <1>4 DEF AppNext

LEMMA SettleKept ==
  ASSUME DeskTypeOK, Settled, RunNext
  PROVE  Settled'
<1> USE DEF Settled
<1>0. /\ job \in [Jobs -> {"new", "starting", "running", "unread", "adrift", "ended", "failed", "over"}]
      /\ proc \in Jobs \cup {"none"} /\ stop \in BOOLEAN
  BY DEF DeskTypeOK, RunTypes
<1>1. CASE Stop
  <2>1. CASE Busy
    BY <1>0, <1>1, <2>1 DEF Stop
  <2>2. CASE ~Busy
    BY <1>0, <1>1, <2>2 DEF Stop
  <2> QED
    BY <2>1, <2>2
<1>2. ASSUME NEW j \in Jobs, Run(j) \/ Popen(j) \/ PopenFails(j) \/ ReadFails(j)
      PROVE  Settled'
  <2>1. job'[j] \notin {"new", "over", "adrift"}
    BY <1>0, <1>2 DEF Run, Popen, PopenFails, ReadFails
  <2> QED
    BY <2>1
<1>3. ASSUME NEW j \in Jobs, OpensPort(j)
      PROVE  Settled'
  BY <1>3 DEF OpensPort, runVars
<1>4. ASSUME NEW j \in Jobs, Ends(j)
      PROVE  Settled'
  <2>1. CASE job[j] = "adrift"
    BY <1>0, <1>4, <2>1 DEF Ends, Over
  <2>2. CASE job[j] # "adrift"
    <3>1. job'[j] \in {"ended", "failed"}
      BY <1>0, <1>4, <2>2 DEF Ends, Over, Alive
    <3> QED
      BY <3>1
  <2> QED
    BY <2>1, <2>2
<1>5. ASSUME NEW j \in Jobs, Finish(j) \/ ShowError(j)
      PROVE  Settled'
  BY <1>5 DEF Finish, ShowError
<1> QED
  BY <1>1, <1>2, <1>3, <1>4, <1>5 DEF RunNext

-----------------------------------------------------------------------------
(* The invariant. *)

LEMMA Initially == DeskInit => DeskInv
<1> SUFFICES ASSUME DeskInit PROVE DeskInv
  OBVIOUS
<1>1. DeskTypeOK
  <2>1. LinkTypes /\ HookTypes /\ KeptTypes /\ RunTypes
    BY DEF DeskInit, AppInit, RunInit, LinkTypes, HookTypes, KeptTypes, RunTypes
  <2>2. ShowTypes
    BY Emptied DEF DeskInit, AppInit, ShowTypes
  <2> QED
    BY <2>1, <2>2 DEF DeskTypeOK
<1>2. PortHasOwner /\ LoaderHasPort
  BY DEF DeskInit, AppInit, PortHasOwner, LoaderHasPort
<1>3. HookLife /\ DoneOnce
  BY DEF DeskInit, AppInit, HookLife, DoneOnce
<1>4. StreamHasTimer /\ Settled
  BY DEF DeskInit, AppInit, RunInit, StreamHasTimer, Settled
<1> QED
  BY <1>1, <1>2, <1>3, <1>4 DEF DeskInv, PortInv

LEMMA Step == DeskInv /\ [DeskNext]_deskVars => DeskInv'
<1> SUFFICES ASSUME DeskInv, [DeskNext]_deskVars PROVE DeskInv'
  OBVIOUS
<1>1. DeskTypeOK'
  BY TypeStep DEF DeskInv
<1>2. CASE AppNext /\ UNCHANGED runVars
  <2>1. PortInv'
    BY <1>2, OwnerKept, LifeKept, DoneKept DEF DeskInv, PortInv
  <2>2. Settled'
    BY <1>2 DEF DeskInv, Settled, runVars
  <2> QED
    BY <1>1, <1>2, <2>1, <2>2, TimerKept DEF DeskInv
<1>3. CASE RunNext /\ UNCHANGED appVars
  <2>1. PortInv'
    BY <1>3, PortRun DEF DeskInv
  <2>2. StreamHasTimer'
    BY <1>3 DEF DeskInv, StreamHasTimer, appVars, transfer
  <2> QED
    BY <1>1, <1>3, <2>1, <2>2, SettleKept DEF DeskInv
<1>4. CASE UNCHANGED deskVars
  <2>1. UNCHANGED <<port, appVars, runVars>>
    BY <1>4 DEF deskVars
  <2>2. (PortHasOwner /\ LoaderHasPort)'
    BY <2>1 DEF DeskInv, PortInv, PortHasOwner, LoaderHasPort, Alive, appVars, runVars, link, sending
  <2>3. HookLife' /\ DoneOnce'
    BY <2>1 DEF DeskInv, PortInv, HookLife, DoneOnce, appVars, link, sending
  <2>4. StreamHasTimer' /\ Settled'
    BY <2>1 DEF DeskInv, StreamHasTimer, Settled, appVars, runVars, transfer
  <2> QED
    BY <1>1, <2>2, <2>3, <2>4 DEF DeskInv, PortInv
<1> QED
  BY <1>2, <1>3, <1>4 DEF DeskNext

LEMMA Invariance == DeskSpec => []DeskInv
  BY Initially, Step, PTL DEF DeskSpec

\* Every variable of the two windows keeps its type: a port has one owner, and
\* the status line only says what the code can say.
THEOREM DeskTypeCorrect == DeskSpec => []DeskTypeOK
<1>1. DeskInv => DeskTypeOK
  BY DEF DeskInv
<1> QED
  BY <1>1, Invariance, PTL

\* The port is handed over cleanly between the drive, its loader and the tools,
\* through dying threads, closed windows and killed tools.
THEOREM PortSafety == DeskSpec => []PortHandedOver
<1>1. DeskInv => PortHandedOver
  BY DEF DeskInv, PortInv, HookLife, PortHasOwner, PortHandedOver, LoaderFindsPort
<1> QED
  BY <1>1, Invariance, PTL

\* The display of a stream always has the timer that will end it.
THEOREM DisplayStops == DeskSpec => []StreamHasTimer
<1>1. DeskInv => StreamHasTimer
  BY DEF DeskInv
<1> QED
  BY <1>1, Invariance, PTL

\* A launcher without a tool says so, whatever its tools did.
THEOREM LauncherIdles == DeskSpec => []LauncherSettles
<1>1. DeskInv => LauncherSettles
  BY DEF DeskInv, Settled, LauncherSettles
<1> QED
  BY <1>1, Invariance, PTL
=============================================================================
