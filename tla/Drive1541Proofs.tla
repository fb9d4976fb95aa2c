------------------------- MODULE Drive1541Proofs -------------------------
(***************************************************************************)
(* Theorems about Drive1541, for any disks, lengths of files, LOADs,       *)
(* changes and faults: a LOAD that succeeds stored a whole file, and one   *)
(* that fails has a cause.  The answers on their way are a stream that the *)
(* hook may be in the middle of, and many LOADs behind; the invariant says *)
(* how the stream goes on from each block, up to the channel it is of.     *)
(***************************************************************************)
EXTENDS Drive1541, SequenceTheorems, FiniteSetTheorems, TLAPS

-----------------------------------------------------------------------------
(* Parts. *)

\* Of which disks a file is opened: its entry's and its data's.
Files == {f \in Disks \X Disks : FileLen[f[1]] > 0}

Plains ==
  {Magic, Cks} \cup ({"cmd"} \X {"open", "read", "close"})
  \cup ({"status"} \X {"ok", "eof", "error"}) \cup ({"len"} \X Nat)
  \cup ({"text", "junk"} \X (Nat \ {0}))
Blocks == {"data"} \X (1..CHUNK_SIZE) \X Files \X Nat
Part   == Plains \cup Blocks

Open == <<"cmd", "open">>
Ok   == <<"status", "ok">>
Eof  == <<"status", "eof">>

IsData(p) == p[1] = "data"
Filled(p) == p[1] \in {"text", "data"}

\* What a frame may end with, also one whose checksum was damaged.
Closing(p) == p[1] \in {"cks", "junk", "text", "data"} \/ p = <<"len", 0>>

\* Part p may come after part q.
Follows(q, p) ==
  /\ p[1] = "magic" => Closing(q)
  /\ p[1] = "cmd" => q = Magic
  /\ p[1] = "status" => q[1] = "cmd"
  /\ p[1] = "len" => q[1] = "status" /\ (p[2] = 0 <=> q[2] = "eof")
  /\ Filled(p) => q = <<"len", p[2]>>
  /\ p[1] \in {"cks", "junk"} => Filled(q) \/ q = <<"len", 0>>

LEMMA PlainParts ==
  ASSUME NEW p \in Part
  PROVE  /\ IsData(p) => p \in Blocks
         /\ ~IsData(p) => p \in Plains /\ p = <<p[1], p[2]>>
<1>1. CASE p \in Blocks
  BY <1>1 DEF Blocks, IsData
<1>2. CASE p \in Plains
  BY <1>2 DEF Plains, IsData, Magic, Cks
<1> QED
  BY <1>1, <1>2 DEF Part

LEMMA BlockParts ==
  ASSUME NEW p \in Part, IsData(p)
  PROVE  /\ p[2] \in 1..CHUNK_SIZE /\ p[3] \in Files /\ p[4] \in Nat
         /\ p = <<"data", p[2], p[3], p[4]>>
BY PlainParts DEF Blocks, IsData

LEMMA PartKinds ==
  ASSUME NEW p \in Plains
  PROVE  /\ p[1] \in {"magic", "cks", "cmd", "status", "len", "text", "junk"}
         /\ p[1] = "magic" => p = Magic
         /\ p[1] = "cks" => p = Cks
         /\ p[1] = "cmd" => p[2] \in {"open", "read", "close"}
         /\ p[1] = "status" => p[2] \in {"ok", "eof", "error"}
         /\ p[1] = "len" => p[2] \in Nat
         /\ p[1] \in {"text", "junk"} => p[2] \in Nat \ {0}
BY DEF Plains, Magic, Cks

LEMMA SizeIsPositive ==
  ASSUME NEW p \in Part
  PROVE  Size(p) \in Nat \ {0}
<1>1. CASE IsData(p)
  BY <1>1, BlockParts DEF Size, IsData, CHUNK_SIZE
<1>2. CASE ~IsData(p)
  BY <1>2, PlainParts, PartKinds DEF Size, IsData
<1> QED
  BY <1>1, <1>2

LEMMA JunkParts ==
  ASSUME NEW n \in Nat
  PROVE  /\ n = 0 => Junk(n) = <<>>
         /\ n # 0 => Junk(n) = << <<"junk", n>> >> /\ <<"junk", n>> \in Part
BY DEF Junk, Part, Plains

-----------------------------------------------------------------------------
(* Streams of parts. *)

Linked(s) == \A k \in 2..Len(s) : s[k - 1][1] = "junk" \/ Follows(s[k - 1], s[k])

\* The data of a file comes in good answers to READ, text in all others.
PayloadsFit(s) ==
  \A k \in 4..Len(s) : Filled(s[k]) /\ s[k - 1][1] = "len" /\ s[k - 3][1] = "cmd" =>
    (IsData(s[k]) <=> (s[k - 3] = <<"cmd", "read">> /\ s[k - 2] = Ok))

EndsInFrameEnd(s) == s # <<>> => Closing(s[Len(s)])

Framed(s) == s \in Seq(Part) /\ Linked(s) /\ PayloadsFit(s) /\ EndsInFrameEnd(s)

\* A block that is not full is its file's last.
ShortIsLast(p) == p[2] < CHUNK_SIZE => p[4] + p[2] = FileLen[p[3][1]]
ShortAreLast(s) == \A k \in 1..Len(s) : IsData(s[k]) => ShortIsLast(s[k])

Mark(p) == IsData(p) \/ p = Open
Clear(s, i, k) == \A n \in 1..Len(s) : i < n /\ n < k => ~Mark(s[n])

\* After place i the stream, and the channel c behind it, go on at pos of file f.
Goes(s, c, i, f, pos) ==
  /\ \A k \in 1..Len(s) : i < k /\ Clear(s, i, k) =>
       /\ IsData(s[k]) => s[k][3] = f /\ s[k][4] = pos
       /\ (s[k] = Eof => pos = FileLen[f[1]])
  /\ Clear(s, i, Len(s) + 1) => c = <<>> \/ c = <<f, pos>>

\* From each block they go on where it ends, and from each OPEN at the begin of a file.
FromBlock(s, c, j) == IsData(s[j]) => Goes(s, c, j, s[j][3], s[j][4] + s[j][2])
FromOpen(s, c, j) ==
  s[j] = Open /\ j < Len(s) /\ s[j + 1] = Ok => \E f \in Files : Goes(s, c, j, f, 0)

Chained(s, c) ==
  ShortAreLast(s) /\ \A j \in 1..Len(s) : FromBlock(s, c, j) /\ FromOpen(s, c, j)

\* s without its first n parts.
Suffix(s, t, n) ==
  /\ s \in Seq(Part) /\ t \in Seq(Part) /\ n \in 0..Len(s)
  /\ Len(t) = Len(s) - n /\ \A k \in 1..Len(t) : t[k] = s[k + n]

LEMMA SuffixAt ==
  ASSUME NEW s, NEW t, NEW n, Suffix(s, t, n), NEW k \in 1..Len(t)
  PROVE  \E l \in 1..Len(s) :
           /\ l = k + n /\ t[k] = s[l] /\ (k < Len(t) => l < Len(s) /\ t[k + 1] = s[l + 1])
           /\ \A e \in 0..3 : k > e => l - e \in 1..Len(s) /\ t[k - e] = s[l - e]
<1>0. n \in Nat /\ Len(s) \in Nat /\ Len(t) \in Nat
  BY LenProperties DEF Suffix
<1> DEFINE l == k + n
<1>1. l \in 1..Len(s) /\ l \in Nat /\ t[k] = s[l]
  BY <1>0 DEF Suffix
<1>2. ASSUME k < Len(t)
      PROVE  l < Len(s) /\ t[k + 1] = s[l + 1]
  <2>1. k + 1 \in 1..Len(t) /\ k + 1 + n = l + 1 /\ l < Len(s)
    BY <1>0, <1>2 DEF Suffix
  <2>2. t[k + 1] = s[k + 1 + n]
    BY <2>1 DEF Suffix
  <2> HIDE DEF l
  <2> QED
    BY <2>1, <2>2
<1>3. ASSUME NEW e \in 0..3, k > e
      PROVE  l - e \in 1..Len(s) /\ t[k - e] = s[l - e]
  <2>1. k - e \in 1..Len(t) /\ k - e + n = l - e /\ l - e \in 1..Len(s)
    BY <1>0, <1>3 DEF Suffix
  <2>2. t[k - e] = s[k - e + n]
    BY <2>1 DEF Suffix
  <2> HIDE DEF l
  <2> QED
    BY <2>1, <2>2
<1> HIDE DEF l
<1>4. l = k + n
  BY DEF l
<1> QED
  BY <1>1, <1>2, <1>3, <1>4

LEMMA SuffixFramed ==
  ASSUME NEW s, NEW t, NEW n, Suffix(s, t, n), Framed(s)
  PROVE  Framed(t)
<1>0. \A k \in 1..Len(t) : \E l \in 1..Len(s) :
        /\ l = k + n /\ t[k] = s[l] /\ (k < Len(t) => l < Len(s) /\ t[k + 1] = s[l + 1])
        /\ \A e \in 0..3 : k > e => l - e \in 1..Len(s) /\ t[k - e] = s[l - e]
  BY SuffixAt
<1>1. Linked(t)
  <2> SUFFICES ASSUME NEW k \in 2..Len(t)
               PROVE  t[k - 1][1] = "junk" \/ Follows(t[k - 1], t[k])
    BY DEF Linked
  <2>0. n \in Nat /\ k \in 1..Len(t) /\ k > 1 /\ 1 \in 0..3
    BY LenProperties DEF Suffix
  <2>1. PICK l \in 1..Len(s) : l = k + n /\ t[k] = s[l] /\ t[k - 1] = s[l - 1]
    BY <2>0, SuffixAt
  <2>2. l \in 2..Len(s)
    BY <2>0, <2>1
  <2> QED
    BY <2>1, <2>2 DEF Framed, Linked
<1>2. PayloadsFit(t)
  <2> SUFFICES ASSUME NEW k \in 4..Len(t), Filled(t[k]), t[k - 1][1] = "len", t[k - 3][1] = "cmd"
               PROVE  IsData(t[k]) <=> (t[k - 3] = <<"cmd", "read">> /\ t[k - 2] = Ok)
    BY DEF PayloadsFit
  <2>0. n \in Nat /\ k \in 1..Len(t) /\ k > 1 /\ k > 2 /\ k > 3
    BY LenProperties DEF Suffix
  <2>1. PICK l \in 1..Len(s) :
           /\ l = k + n /\ t[k] = s[l] /\ (k < Len(t) => l < Len(s) /\ t[k + 1] = s[l + 1])
           /\ \A e \in 0..3 : k > e => l - e \in 1..Len(s) /\ t[k - e] = s[l - e]
    BY <1>0, <2>0
  <2>2. /\ t[k - 1] = s[l - 1] /\ t[k - 2] = s[l - 2] /\ t[k - 3] = s[l - 3]
        /\ 1 \in 0..3 /\ 2 \in 0..3 /\ 3 \in 0..3
    BY <2>0, <2>1
  <2>3. l \in 4..Len(s)
    BY <2>0, <2>1
  <2>4. Filled(s[l]) /\ s[l - 1][1] = "len" /\ s[l - 3][1] = "cmd" =>
          (IsData(s[l]) <=> (s[l - 3] = <<"cmd", "read">> /\ s[l - 2] = Ok))
    BY <2>3 DEF Framed, PayloadsFit
  <2> QED
    BY <2>1, <2>2, <2>4
<1>3. EndsInFrameEnd(t)
  <2> SUFFICES ASSUME t # <<>> PROVE Closing(t[Len(t)])
    BY DEF EndsInFrameEnd
  <2>1. Len(t) \in Nat \ {0}
    BY EmptySeq, LenProperties DEF Suffix
  <2>2. t[Len(t)] = s[Len(s)] /\ s # <<>>
    BY <2>1 DEF Suffix
  <2> QED
    BY <2>2 DEF Framed, EndsInFrameEnd
<1> QED
  BY <1>1, <1>2, <1>3 DEF Framed, Suffix

LEMMA SuffixGoes ==
  ASSUME NEW s, NEW t, NEW n, Suffix(s, t, n), NEW c, NEW i \in 0..Len(s), NEW f, NEW pos,
         Goes(s, c, i, f, pos), \A m \in 1..n : i < m => ~Mark(s[m])
  PROVE  Goes(t, c, IF i > n THEN i - n ELSE 0, f, pos)
<1> DEFINE j == IF i > n THEN i - n ELSE 0
<1>0. n \in Nat /\ Len(s) \in Nat /\ Len(t) \in Nat /\ j \in Nat
  BY LenProperties DEF Suffix
<1>1. ASSUME NEW k \in 1..(Len(t) + 1), j < k, Clear(t, j, k)
      PROVE  k + n \in 1..(Len(s) + 1) /\ i < k + n /\ Clear(s, i, k + n)
  <2>1. ASSUME NEW m \in 1..Len(s), i < m, m < k + n, m > n
        PROVE  ~Mark(s[m])
    <3>1. m - n \in 1..Len(t) /\ j < m - n /\ m - n < k
      BY <1>0, <2>1 DEF Suffix
    <3>2. t[m - n] = s[m - n + n]
      BY <3>1 DEF Suffix
    <3>3. m - n + n = m
      BY <1>0
    <3> QED
      BY <1>1, <3>1, <3>2, <3>3 DEF Clear
  <2>2. ASSUME NEW m \in 1..Len(s), i < m, ~(m > n)
        PROVE  ~Mark(s[m])
    BY <1>0, <2>2
  <2>3. Clear(s, i, k + n)
    BY <2>1, <2>2 DEF Clear
  <2> QED
    BY <1>0, <1>1, <2>3 DEF Suffix
<1>2. ASSUME NEW k \in 1..Len(t), j < k, Clear(t, j, k)
      PROVE  /\ IsData(t[k]) => t[k][3] = f /\ t[k][4] = pos
             /\ t[k] = Eof => pos = FileLen[f[1]]
  <2>1. k + n \in 1..Len(s) /\ t[k] = s[k + n] /\ k \in 1..(Len(t) + 1)
    BY <1>0 DEF Suffix
  <2>2. i < k + n /\ Clear(s, i, k + n)
    BY <1>1, <1>2, <2>1
  <2> QED
    BY <2>1, <2>2 DEF Goes
<1>3. ASSUME Clear(t, j, Len(t) + 1)
      PROVE  c = <<>> \/ c = <<f, pos>>
  <2>1. CASE j < Len(t) + 1
    <3>1. Clear(s, i, Len(t) + 1 + n)
      BY <1>0, <1>1, <1>3, <2>1
    <3>2. Len(t) + 1 + n = Len(s) + 1
      BY <1>0 DEF Suffix
    <3> QED
      BY <3>1, <3>2 DEF Goes
  <2>2. CASE ~(j < Len(t) + 1)
    BY <1>0, <2>2 DEF Suffix
  <2> QED
    BY <2>1, <2>2
<1> QED
  BY <1>2, <1>3 DEF Goes

LEMMA SuffixChained ==
  ASSUME NEW s, NEW t, NEW n, Suffix(s, t, n), NEW c, Chained(s, c)
  PROVE  Chained(t, c)
<1>0. n \in Nat /\ Len(s) \in Nat /\ Len(t) \in Nat
  BY LenProperties DEF Suffix
<1>1. ShortAreLast(t)
  <2> SUFFICES ASSUME NEW k \in 1..Len(t), IsData(t[k]) PROVE ShortIsLast(t[k])
    BY DEF ShortAreLast
  <2>1. k + n \in 1..Len(s) /\ t[k] = s[k + n]
    BY <1>0 DEF Suffix
  <2> QED
    BY <2>1 DEF Chained, ShortAreLast
<1> SUFFICES ASSUME NEW j \in 1..Len(t) PROVE FromBlock(t, c, j) /\ FromOpen(t, c, j)
  BY <1>1 DEF Chained
<1>2. PICK l \in 1..Len(s) :
        l = j + n /\ t[j] = s[l] /\ (j < Len(t) => l < Len(s) /\ t[j + 1] = s[l + 1])
  BY SuffixAt
<1>3. ASSUME NEW f, NEW pos, Goes(s, c, l, f, pos)
      PROVE  Goes(t, c, j, f, pos)
  <2>1. l \in 0..Len(s) /\ l > n /\ l - n = j /\ \A m \in 1..n : ~(l < m)
    BY <1>0, <1>2
  <2>2. Goes(t, c, IF l > n THEN l - n ELSE 0, f, pos)
    BY <1>3, <2>1, SuffixGoes
  <2> QED
    BY <2>1, <2>2
<1>4. FromBlock(s, c, l) /\ FromOpen(s, c, l)
  BY DEF Chained
<1>5. FromBlock(t, c, j)
  BY <1>2, <1>3, <1>4 DEF FromBlock
<1>6. FromOpen(t, c, j)
  BY <1>2, <1>3, <1>4 DEF FromOpen
<1> QED
  BY <1>5, <1>6

\* s behind what is left of a part.
Junked(s, t) ==
  /\ s \in Seq(Part) /\ t \in Seq(Part) /\ Len(t) = Len(s) + 1
  /\ t[1][1] = "junk" /\ Suffix(t, s, 1)

LEMMA JunkedFramed ==
  ASSUME NEW s, NEW t, Junked(s, t), Framed(s)
  PROVE  Framed(t)
<1>0. Len(s) \in Nat /\ Len(t) = Len(s) + 1
  BY LenProperties DEF Junked
<1>1. \A k \in 2..Len(t) : k - 1 \in 1..Len(s) /\ t[k] = s[k - 1]
  <2> SUFFICES ASSUME NEW k \in 2..Len(t) PROVE k - 1 \in 1..Len(s) /\ t[k] = s[k - 1]
    OBVIOUS
  <2>1. k - 1 \in 1..Len(s) /\ k - 1 + 1 = k
    BY <1>0
  <2>2. s[k - 1] = t[k - 1 + 1]
    BY <2>1 DEF Junked, Suffix
  <2> QED
    BY <2>1, <2>2
<1>2. Linked(t)
  <2> SUFFICES ASSUME NEW k \in 2..Len(t), t[k - 1][1] # "junk"
               PROVE  Follows(t[k - 1], t[k])
    BY DEF Linked
  <2>1. k # 2
    BY DEF Junked
  <2>2. PICK l \in Nat : l = k - 1
    BY <1>0
  <2>3. l \in 2..Len(s) /\ l \in 2..Len(t)
    BY <1>0, <2>1, <2>2
  <2>4. t[l] = s[l - 1] /\ t[k] = s[l]
    BY <1>1, <2>2, <2>3
  <2> QED
    BY <2>2, <2>3, <2>4 DEF Framed, Linked
<1>3. PayloadsFit(t)
  <2> SUFFICES ASSUME NEW k \in 4..Len(t), Filled(t[k]), t[k - 1][1] = "len", t[k - 3][1] = "cmd"
               PROVE  IsData(t[k]) <=> (t[k - 3] = <<"cmd", "read">> /\ t[k - 2] = Ok)
    BY DEF PayloadsFit
  <2>1. PICK l \in Nat : l = k - 1
    BY <1>0
  <2>2. /\ l \in 2..Len(t) /\ l - 1 \in 2..Len(t) /\ k \in 2..Len(t) /\ k - 1 = l
        /\ k - 2 = l - 1 /\ k - 3 = l - 2 /\ (l - 1) - 1 = l - 2 /\ (l - 2) - 1 = l - 3
    BY <1>0, <2>1
  <2>3. t[k] = s[l] /\ t[k - 1] = s[l - 1] /\ t[k - 2] = s[l - 2]
    BY <1>1, <2>2
  <2>4. k # 4
    BY DEF Junked
  <2>5. l \in 4..Len(s) /\ k - 3 \in 2..Len(t)
    BY <1>0, <2>1, <2>4
  <2>6. t[k - 3] = s[l - 3]
    BY <1>1, <2>2, <2>5
  <2> QED
    BY <2>2, <2>3, <2>5, <2>6 DEF Framed, PayloadsFit
<1>4. EndsInFrameEnd(t)
  <2>1. CASE s = <<>>
    BY <1>0, <2>1 DEF Junked, EndsInFrameEnd, Closing
  <2>2. CASE s # <<>>
    <3>1. Len(s) \in 1..Len(s) /\ Len(s) + 1 = Len(t)
      BY <1>0, <2>2, EmptySeq, LenProperties DEF Junked
    <3>2. s[Len(s)] = t[Len(s) + 1]
      BY <3>1 DEF Junked, Suffix
    <3> QED
      BY <2>2, <3>1, <3>2 DEF EndsInFrameEnd, Framed
  <2> QED
    BY <2>1, <2>2
<1> QED
  BY <1>2, <1>3, <1>4 DEF Framed, Junked

LEMMA JunkedGoes ==
  ASSUME NEW s, NEW t, Junked(s, t), NEW c, NEW i \in 1..Len(s), NEW f, NEW pos,
         Goes(s, c, i, f, pos)
  PROVE  Goes(t, c, i + 1, f, pos)
<1>0. Len(s) \in Nat /\ Len(t) = Len(s) + 1 /\ i \in Nat
  BY LenProperties DEF Junked
<1>1. \A k \in 1..Len(s) : s[k] = t[k + 1]
  BY DEF Junked, Suffix
<1>2. ASSUME NEW k \in 1..(Len(s) + 1), Clear(t, i + 1, k + 1)
      PROVE  Clear(s, i, k)
  <2> SUFFICES ASSUME NEW n \in 1..Len(s), i < n, n < k PROVE ~Mark(s[n])
    BY DEF Clear
  <2>1. n + 1 \in 1..Len(t) /\ i + 1 < n + 1 /\ n + 1 < k + 1
    BY <1>0
  <2>2. ~Mark(t[n + 1])
    BY <1>2, <2>1 DEF Clear
  <2> QED
    BY <1>1, <2>2
<1>3. ASSUME NEW k \in 1..Len(t), i + 1 < k, Clear(t, i + 1, k)
      PROVE  /\ IsData(t[k]) => t[k][3] = f /\ t[k][4] = pos
             /\ t[k] = Eof => pos = FileLen[f[1]]
  <2>1. PICK l \in 1..Len(s) : k = l + 1 /\ i < l
    <3>1. k - 1 \in 1..Len(s) /\ k = (k - 1) + 1 /\ i < k - 1
      BY <1>0, <1>3
    <3> QED
      BY <3>1
  <2>2. t[k] = s[l] /\ Clear(s, i, l)
    BY <1>0, <1>1, <1>2, <1>3, <2>1
  <2> QED
    BY <2>1, <2>2 DEF Goes
<1>4. ASSUME Clear(t, i + 1, Len(t) + 1)
      PROVE  c = <<>> \/ c = <<f, pos>>
  <2>1. Clear(s, i, Len(s) + 1)
    BY <1>0, <1>2, <1>4
  <2> QED
    BY <2>1 DEF Goes
<1> QED
  BY <1>3, <1>4 DEF Goes

LEMMA JunkedChained ==
  ASSUME NEW s, NEW t, Junked(s, t), NEW c, Chained(s, c)
  PROVE  Chained(t, c)
<1>0. Len(s) \in Nat /\ Len(t) = Len(s) + 1
  BY LenProperties DEF Junked
<1>1. \A k \in 1..Len(s) : s[k] = t[k + 1]
  BY DEF Junked, Suffix
<1>2. ~IsData(t[1]) /\ t[1] # Open
  BY DEF Junked, IsData, Open
<1>3. ASSUME NEW j \in 1..Len(t), j # 1
      PROVE  \E l \in 1..Len(s) : /\ j = l + 1 /\ t[j] = s[l]
                                  /\ (j < Len(t) => l < Len(s) /\ t[j + 1] = s[l + 1])
  <2>1. PICK l \in 1..Len(s) : j = l + 1
    <3>1. j - 1 \in 1..Len(s) /\ j = (j - 1) + 1
      BY <1>0, <1>3
    <3> QED
      BY <3>1
  <2>2. j < Len(t) => l < Len(s) /\ l + 1 \in 1..Len(s) /\ j + 1 = (l + 1) + 1
    BY <1>0, <2>1
  <2>3. t[j] = s[l] /\ (j < Len(t) => t[j + 1] = s[l + 1])
    BY <1>1, <2>1, <2>2
  <2> QED
    BY <2>1, <2>2, <2>3
<1>4. ShortAreLast(t)
  <2> SUFFICES ASSUME NEW j \in 1..Len(t), IsData(t[j]) PROVE ShortIsLast(t[j])
    BY DEF ShortAreLast
  <2>1. PICK l \in 1..Len(s) : t[j] = s[l]
    BY <1>2, <1>3
  <2> QED
    BY <2>1 DEF Chained, ShortAreLast
<1> SUFFICES ASSUME NEW j \in 1..Len(t) PROVE FromBlock(t, c, j) /\ FromOpen(t, c, j)
  BY <1>4 DEF Chained
<1>5. CASE j = 1
  BY <1>2, <1>5 DEF FromBlock, FromOpen
<1>6. CASE j # 1
  <2>1. PICK l \in 1..Len(s) : /\ j = l + 1 /\ t[j] = s[l]
                               /\ (j < Len(t) => l < Len(s) /\ t[j + 1] = s[l + 1])
    BY <1>3, <1>6
  <2>2. \A f, pos : Goes(s, c, l, f, pos) => Goes(t, c, j, f, pos)
    BY <2>1, JunkedGoes
  <2>3. FromBlock(s, c, l) /\ FromOpen(s, c, l)
    BY DEF Chained
  <2> QED
    BY <2>1, <2>2, <2>3 DEF FromBlock, FromOpen
<1> QED
  BY <1>5, <1>6

\* s with the checksum at m damaged.
Spoiled(s, t, m) ==
  /\ s \in Seq(Part) /\ t \in Seq(Part) /\ Len(t) = Len(s)
  /\ m \in 1..Len(s) /\ s[m] = Cks /\ t[m] = <<"junk", 1>>
  /\ \A k \in 1..Len(s) : k # m => t[k] = s[k]

LEMMA SpoiledFramed ==
  ASSUME NEW s, NEW t, NEW m, Spoiled(s, t, m), Framed(s)
  PROVE  Framed(t)
<1>0. Len(s) \in Nat /\ Len(t) = Len(s) /\ m \in Nat
  BY LenProperties DEF Spoiled
<1>1. ASSUME NEW k \in 1..Len(t)
      PROVE  t[k] = s[k] \/ (t[k][1] = "junk" /\ s[k][1] = "cks")
  BY DEF Spoiled, Cks
<1>2. Linked(t)
  <2> SUFFICES ASSUME NEW k \in 2..Len(t), t[k - 1][1] # "junk"
               PROVE  Follows(t[k - 1], t[k])
    BY DEF Linked
  <2>1. k - 1 \in 1..Len(t) /\ k \in 1..Len(t) /\ k \in 2..Len(s)
    BY <1>0
  <2>2. t[k - 1] = s[k - 1]
    BY <1>1, <2>1
  <2>3. Follows(s[k - 1], s[k])
    BY <2>1, <2>2 DEF Framed, Linked
  <2> QED
    BY <1>1, <2>1, <2>2, <2>3 DEF Follows, Filled
<1>3. PayloadsFit(t)
  <2> SUFFICES ASSUME NEW k \in 4..Len(t), Filled(t[k]), t[k - 1][1] = "len", t[k - 3][1] = "cmd"
               PROVE  IsData(t[k]) <=> (t[k - 3] = <<"cmd", "read">> /\ t[k - 2] = Ok)
    BY DEF PayloadsFit
  <2>1. /\ k \in 4..Len(s) /\ k \in 1..Len(t) /\ k - 1 \in 1..Len(t)
        /\ k - 2 \in 1..Len(t) /\ k - 3 \in 1..Len(t) /\ k - 1 \in 2..Len(s) /\ (k - 1) - 1 = k - 2
    BY <1>0
  <2>2. t[k] = s[k] /\ t[k - 1] = s[k - 1] /\ t[k - 3] = s[k - 3]
    BY <1>1, <2>1 DEF Filled
  <2>3. s[k - 2][1] # "cks"
    BY <2>1, <2>2 DEF Framed, Linked, Follows
  <2>4. t[k - 2] = s[k - 2]
    BY <1>1, <2>1, <2>3
  <2> QED
    BY <2>1, <2>2, <2>4 DEF Framed, PayloadsFit
<1>4. EndsInFrameEnd(t)
  <2>1. Len(t) \in 1..Len(t) /\ s # <<>>
    BY <1>0 DEF Spoiled
  <2> QED
    BY <1>0, <1>1, <2>1 DEF EndsInFrameEnd, Framed, Closing
<1> QED
  BY <1>2, <1>3, <1>4 DEF Framed, Spoiled

LEMMA SpoiledGoes ==
  ASSUME NEW s, NEW t, NEW m, Spoiled(s, t, m), NEW c, NEW i, NEW f, NEW pos,
         Goes(s, c, i, f, pos)
  PROVE  Goes(t, c, i, f, pos)
<1>1. ASSUME NEW k \in 1..Len(t)
      PROVE  /\ Mark(t[k]) <=> Mark(s[k])
             /\ Mark(t[k]) \/ t[k] = Eof => t[k] = s[k]
  BY DEF Spoiled, Cks, Mark, IsData, Open, Eof
<1>2. \A k : Clear(t, i, k) => Clear(s, i, k)
  BY <1>1 DEF Clear, Spoiled
<1> QED
  BY <1>1, <1>2 DEF Goes, Spoiled, Mark

LEMMA SpoiledChained ==
  ASSUME NEW s, NEW t, NEW m, Spoiled(s, t, m), NEW c, Chained(s, c)
  PROVE  Chained(t, c)
<1>0. Len(s) \in Nat /\ Len(t) = Len(s) /\ m \in Nat
  BY LenProperties DEF Spoiled
<1>1. ASSUME NEW k \in 1..Len(t)
      PROVE  IsData(t[k]) \/ t[k] = Open \/ t[k] = Ok => t[k] = s[k]
  BY DEF Spoiled, Cks, IsData, Open, Ok
<1>2. ShortAreLast(t)
  BY <1>0, <1>1 DEF Chained, ShortAreLast
<1> SUFFICES ASSUME NEW j \in 1..Len(t) PROVE FromBlock(t, c, j) /\ FromOpen(t, c, j)
  BY <1>2 DEF Chained
<1>3. FromBlock(s, c, j) /\ FromOpen(s, c, j)
  BY <1>0 DEF Chained
<1>4. FromBlock(t, c, j)
  BY <1>0, <1>1, <1>3, SpoiledGoes DEF FromBlock
<1>5. j < Len(t) => j + 1 \in 1..Len(t)
  BY <1>0
<1>6. FromOpen(t, c, j)
  BY <1>0, <1>1, <1>3, <1>5, SpoiledGoes DEF FromOpen
<1> QED
  BY <1>4, <1>6

\* s without the checksum at m.
Lost(s, t, m) ==
  /\ s \in Seq(Part) /\ t \in Seq(Part) /\ Len(t) = Len(s) - 1
  /\ m \in 1..Len(s) /\ s[m] = Cks
  /\ \A k \in 1..Len(t) : t[k] = s[IF k < m THEN k ELSE k + 1]

\* What follows a checksum is the begin of a frame.
LEMMA MagicFollows ==
  ASSUME NEW s, Framed(s), NEW k \in 2..Len(s), s[k - 1] = Cks
  PROVE  s[k] = Magic
<1>1. s[k] \in Part /\ Follows(Cks, s[k])
  BY SMTT(30) DEF Framed, Linked, Cks
<1>2. ~Filled(s[k]) /\ s[k][1] \notin {"cmd", "status", "len", "cks", "junk"}
  BY <1>1 DEF Follows, Filled, Cks, Magic
<1> QED
  BY <1>1, <1>2, PlainParts, PartKinds DEF Filled, IsData

LEMMA LostFramed ==
  ASSUME NEW s, NEW t, NEW m, Lost(s, t, m), Framed(s)
  PROVE  Framed(t)
<1>0. Len(s) \in Nat /\ Len(t) = Len(s) - 1 /\ m \in 1..Len(s) /\ m \in Nat
  BY LenProperties DEF Lost
<1>1. \A k \in 1..Len(t) : k < m => t[k] = s[k]
  BY DEF Lost
<1>2. \A k \in 1..Len(t) : k >= m => t[k] = s[k + 1]
  BY <1>0 DEF Lost
<1>3. m \in 1..Len(t) => t[m] = Magic
  <2> SUFFICES ASSUME m \in 1..Len(t) PROVE t[m] = Magic
    OBVIOUS
  <2>1. m + 1 \in 2..Len(s) /\ (m + 1) - 1 = m /\ m >= m
    BY <1>0
  <2>2. s[m + 1] = Magic
    BY <2>1, MagicFollows DEF Lost
  <2> QED
    BY <1>2, <2>1, <2>2
<1>4. Linked(t)
  <2> SUFFICES ASSUME NEW k \in 2..Len(t), t[k - 1][1] # "junk"
               PROVE  Follows(t[k - 1], t[k])
    BY DEF Linked
  <2>1. k \in 1..Len(t) /\ k - 1 \in 1..Len(t) /\ k \in 2..Len(s)
    BY <1>0
  <2>2. CASE k < m
    <3>1. t[k] = s[k] /\ t[k - 1] = s[k - 1]
      BY <1>0, <1>1, <2>1, <2>2
    <3> QED
      BY <2>1, <3>1 DEF Framed, Linked
  <2>3. CASE k = m
    <3>1. t[k] = Magic /\ t[k - 1] = s[k - 1]
      BY <1>0, <1>1, <1>3, <2>1, <2>3
    <3>2. Follows(s[k - 1], Cks)
      BY <2>1, <2>3, <3>1 DEF Framed, Linked, Lost
    <3>3. Closing(s[k - 1])
      BY <3>2 DEF Follows, Cks, Closing, Filled
    <3> QED
      BY <3>1, <3>3 DEF Follows, Magic, Filled
  <2>4. CASE k > m
    <3>1. k + 1 \in 2..Len(s) /\ (k + 1) - 1 = k /\ (k - 1) + 1 = k
      BY <1>0, <2>1
    <3>2. t[k] = s[k + 1] /\ t[k - 1] = s[k]
      BY <1>0, <1>2, <2>1, <2>4, <3>1
    <3> QED
      BY <3>1, <3>2 DEF Framed, Linked
  <2> QED
    BY <1>0, <2>2, <2>3, <2>4
<1>5. PayloadsFit(t)
  <2> SUFFICES ASSUME NEW k \in 4..Len(t), Filled(t[k]), t[k - 1][1] = "len", t[k - 3][1] = "cmd"
               PROVE  IsData(t[k]) <=> (t[k - 3] = <<"cmd", "read">> /\ t[k - 2] = Ok)
    BY DEF PayloadsFit
  <2>1. k \in 1..Len(t) /\ k - 1 \in 1..Len(t) /\ k - 2 \in 1..Len(t) /\ k - 3 \in 1..Len(t)
    BY <1>0
  <2>2. k - 1 \in 2..Len(t) /\ (k - 1) - 1 = k - 2
    BY <1>0
  <2>3. t[k - 2][1] = "junk" \/ t[k - 2][1] = "status"
    BY <1>4, <2>2 DEF Linked, Follows
  <2>4. k # m /\ k - 1 # m /\ k - 2 # m /\ k - 3 # m
    BY <1>3, <2>1, <2>3 DEF Magic, Filled
  <2>5. CASE k < m
    <3>1. t[k] = s[k] /\ t[k - 1] = s[k - 1] /\ t[k - 2] = s[k - 2] /\ t[k - 3] = s[k - 3]
      BY <1>0, <1>1, <2>1, <2>5, SMTT(30)
    <3>2. k \in 4..Len(s)
      BY <1>0
    <3> QED
      BY <3>1, <3>2 DEF Framed, PayloadsFit
  <2>6. CASE k - 3 > m
    <3>1. PICK l \in 4..Len(s) : l = k + 1
      BY <1>0
    <3>2. /\ (k - 1) + 1 = l - 1 /\ (k - 2) + 1 = l - 2 /\ (k - 3) + 1 = l - 3
          /\ k >= m /\ k - 1 >= m /\ k - 2 >= m /\ k - 3 >= m
      BY <1>0, <2>6, <3>1
    <3>3. t[k] = s[l] /\ t[k - 1] = s[l - 1] /\ t[k - 2] = s[l - 2] /\ t[k - 3] = s[l - 3]
      BY <1>2, <2>1, <3>1, <3>2
    <3> QED
      BY <3>1, <3>3 DEF Framed, PayloadsFit
  <2> QED
    BY <1>0, <2>4, <2>5, <2>6
<1>6. EndsInFrameEnd(t)
  <2> SUFFICES ASSUME t # <<>> PROVE Closing(t[Len(t)])
    BY DEF EndsInFrameEnd
  <2>1. Len(t) \in 1..Len(t) /\ Len(t) + 1 = Len(s) /\ s # <<>> /\ Len(s) > 1
    BY <1>0, EmptySeq, LenProperties DEF Lost
  <2>2. CASE Len(t) >= m
    BY <1>2, <2>1, <2>2 DEF EndsInFrameEnd, Framed
  <2>3. CASE Len(t) < m
    <3>1. m = Len(s) /\ m - 1 = Len(t) /\ m \in 2..Len(s)
      BY <1>0, <2>1, <2>3
    <3>2. t[Len(t)] = s[m - 1]
      BY <1>1, <2>1, <2>3, <3>1
    <3>3. s[m - 1][1] = "junk" \/ Follows(s[m - 1], Cks)
      BY <3>1 DEF Framed, Linked, Lost
    <3> QED
      BY <3>2, <3>3 DEF Follows, Cks, Closing, Filled
  <2> QED
    BY <1>0, <2>2, <2>3
<1> QED
  BY <1>4, <1>5, <1>6 DEF Framed, Lost

\* Where place i of the longer stream is in the shorter.
Closer(i, m) == IF i < m THEN i ELSE i - 1

LEMMA LostGoes ==
  ASSUME NEW s, NEW t, NEW m, Lost(s, t, m), NEW c, NEW i \in 0..Len(s), i # m,
         NEW f, NEW pos, Goes(s, c, i, f, pos)
  PROVE  Goes(t, c, Closer(i, m), f, pos)
<1> DEFINE j == Closer(i, m)
<1>0. /\ Len(s) \in Nat /\ Len(t) = Len(s) - 1 /\ m \in 1..Len(s) /\ m \in Nat
      /\ i \in Nat /\ j \in Nat /\ (i < m => j = i) /\ (i > m => i = j + 1)
  BY LenProperties DEF Lost, Closer
<1> HIDE DEF j
<1>1. \A k \in 1..Len(t) : k < m => t[k] = s[k]
  BY DEF Lost
<1>2. \A k \in 1..Len(t) : k >= m => t[k] = s[k + 1]
  BY <1>0 DEF Lost
<1>3. ~Mark(s[m])
  BY DEF Lost, Mark, IsData, Cks, Open
<1>4. ASSUME NEW k \in 1..(Len(t) + 1), Clear(t, j, k), NEW l \in 1..(Len(s) + 1),
             (l = k /\ k < m) \/ (l = k + 1 /\ k >= m)
      PROVE  Clear(s, i, l)
  <2> SUFFICES ASSUME NEW n \in 1..Len(s), i < n, n < l PROVE ~Mark(s[n])
    BY DEF Clear
  <2>1. CASE n < m
    <3>1. n \in 1..Len(t) /\ j < n /\ n < k
      BY <1>0, <1>4, <2>1
    <3> QED
      BY <1>1, <1>4, <2>1, <3>1 DEF Clear
  <2>2. CASE n = m
    BY <1>3, <2>2
  <2>3. CASE n > m
    <3>1. PICK q \in Nat : n = q + 1
      BY <1>0, <2>3
    <3>2. q \in 1..Len(t) /\ q >= m /\ j < q /\ q < k
      BY <1>0, <1>4, <2>3, <3>1
    <3>3. ~Mark(t[q])
      BY <1>4, <3>2 DEF Clear
    <3> QED
      BY <1>2, <3>1, <3>2, <3>3
  <2> QED
    BY <1>0, <2>1, <2>2, <2>3
<1>5. ASSUME NEW k \in 1..Len(t), j < k, Clear(t, j, k)
      PROVE  /\ IsData(t[k]) => t[k][3] = f /\ t[k][4] = pos
             /\ t[k] = Eof => pos = FileLen[f[1]]
  <2>1. PICK l \in 1..Len(s) :
          t[k] = s[l] /\ i < l /\ ((l = k /\ k < m) \/ (l = k + 1 /\ k >= m))
    <3>1. CASE k < m
      <4>1. k \in 1..Len(s) /\ i < k /\ t[k] = s[k]
        BY <1>0, <1>1, <1>5, <3>1
      <4> QED
        BY <3>1, <4>1
    <3>2. CASE k >= m
      <4>1. k + 1 \in 1..Len(s) /\ i < k + 1 /\ t[k] = s[k + 1]
        BY <1>0, <1>2, <1>5, <3>2
      <4> QED
        BY <3>2, <4>1
    <3> QED
      BY <1>0, <3>1, <3>2
  <2>2. Clear(s, i, l)
    BY <1>0, <1>4, <1>5, <2>1
  <2> QED
    BY <2>1, <2>2 DEF Goes
<1>6. ASSUME Clear(t, j, Len(t) + 1)
      PROVE  c = <<>> \/ c = <<f, pos>>
  <2>1. /\ Len(t) + 1 \in 1..(Len(t) + 1) /\ Len(s) + 1 \in 1..(Len(s) + 1)
        /\ Len(s) + 1 = (Len(t) + 1) + 1 /\ Len(t) + 1 >= m
    BY <1>0
  <2>2. Clear(s, i, Len(s) + 1)
    BY <1>4, <1>6, <2>1
  <2> QED
    BY <2>2 DEF Goes
<1> QED
  BY <1>5, <1>6 DEF Goes, j

LEMMA LostChained ==
  ASSUME NEW s, NEW t, NEW m, Lost(s, t, m), Framed(s), NEW c, Chained(s, c)
  PROVE  Chained(t, c)
<1>0. Len(s) \in Nat /\ Len(t) = Len(s) - 1 /\ m \in 1..Len(s) /\ m \in Nat
  BY LenProperties DEF Lost
<1>1. \A k \in 1..Len(t) : k < m => t[k] = s[k]
  BY DEF Lost
<1>2. \A k \in 1..Len(t) : k >= m => t[k] = s[k + 1]
  BY <1>0 DEF Lost
<1>3. ASSUME NEW j \in 1..Len(t)
      PROVE  \E l \in 1..Len(s) : t[j] = s[l] /\ l # m /\ Closer(l, m) = j
  <2>1. CASE j < m
    BY <1>0, <1>1, <2>1 DEF Closer
  <2>2. CASE j >= m
    <3>1. j + 1 \in 1..Len(s) /\ t[j] = s[j + 1] /\ j + 1 # m /\ Closer(j + 1, m) = j
      BY <1>0, <1>2, <2>2 DEF Closer
    <3> QED
      BY <3>1
  <2> QED
    BY <1>0, <2>1, <2>2
<1>4. ShortAreLast(t)
  BY <1>3 DEF Chained, ShortAreLast
<1> SUFFICES ASSUME NEW j \in 1..Len(t) PROVE FromBlock(t, c, j) /\ FromOpen(t, c, j)
  BY <1>4 DEF Chained
<1>5. PICK l \in 1..Len(s) : t[j] = s[l] /\ l # m /\ Closer(l, m) = j
  BY <1>3
<1>6. FromBlock(s, c, l) /\ FromOpen(s, c, l)
  BY DEF Chained
<1>7. \A f, pos : Goes(s, c, l, f, pos) => Goes(t, c, j, f, pos)
  <2>1. l \in 0..Len(s)
    BY <1>0
  <2> QED
    BY <1>5, <2>1, LostGoes
<1>8. ASSUME t[j] = Open, j < Len(t), t[j + 1] = Ok
      PROVE  l < Len(s) /\ s[l + 1] = Ok
  <2>1. CASE l > m
    <3>1. l = j + 1 /\ j + 1 \in 1..Len(t) /\ j + 1 >= m /\ l < Len(s) /\ (j + 1) + 1 = l + 1
      BY <1>0, <1>5, <1>8, <2>1 DEF Closer
    <3> QED
      BY <1>2, <1>8, <3>1
  <2>2. CASE l < m
    <3>1. l = j /\ j + 1 \in 1..Len(t) /\ l < Len(s)
      BY <1>0, <1>5, <1>8, <2>2 DEF Closer
    <3>2. j + 1 # m
      <4> SUFFICES ASSUME j + 1 = m PROVE FALSE
        OBVIOUS
      <4>1. m \in 2..Len(s) /\ m - 1 = l
        BY <1>0, <3>1
      <4>2. Follows(s[l], Cks) \/ s[l][1] = "junk"
        BY <4>1 DEF Framed, Linked, Lost
      <4> QED
        BY <1>5, <1>8, <4>2 DEF Follows, Cks, Open, Filled
    <3>3. j + 1 < m
      BY <1>0, <2>2, <3>1, <3>2
    <3> QED
      BY <1>1, <1>8, <3>1, <3>3
  <2> QED
    BY <1>0, <1>5, <2>1, <2>2
<1> QED
  BY <1>5, <1>6, <1>7, <1>8 DEF FromBlock, FromOpen

\* s and behind it an answer with payload p, or the answer at the end of a file.
Answered(s, t, cmd, st, p) ==
  /\ s \in Seq(Part) /\ t \in Seq(Part) /\ Len(t) = Len(s) + 6
  /\ \A k \in 1..Len(s) : t[k] = s[k]
  /\ t[Len(s) + 1] = Magic /\ t[Len(s) + 2] = <<"cmd", cmd>>
  /\ t[Len(s) + 3] = <<"status", st>> /\ t[Len(s) + 4] = <<"len", p[2]>>
  /\ t[Len(s) + 5] = p /\ t[Len(s) + 6] = Cks
  /\ st \in {"ok", "error"} /\ p \in Part /\ Filled(p)
  /\ (IsData(p) <=> (cmd = "read" /\ st = "ok"))

Ended(s, t) ==
  /\ s \in Seq(Part) /\ t \in Seq(Part) /\ Len(t) = Len(s) + 5
  /\ \A k \in 1..Len(s) : t[k] = s[k]
  /\ t[Len(s) + 1] = Magic /\ t[Len(s) + 2] = <<"cmd", "read">>
  /\ t[Len(s) + 3] = Eof /\ t[Len(s) + 4] = <<"len", 0>> /\ t[Len(s) + 5] = Cks

\* What the channel c before and d after an answer have to do with it.
Serves(c, d, cmd, st, p) ==
  /\ IsData(p) => c = <<p[3], p[4]>> /\ d = <<p[3], p[4] + p[2]>> /\ ShortIsLast(p)
  /\ cmd = "open" /\ st = "ok" => \E f \in Files : d = <<f, 0>>
  /\ ~IsData(p) /\ cmd # "open" => d = c \/ d = <<>>

LEMMA PairsAreNotEmpty ==
  ASSUME NEW a, NEW b
  PROVE  <<a, b>> # <<>>
OBVIOUS

LEMMA FilledParts ==
  ASSUME NEW p \in Part, Filled(p)
  PROVE  p[2] \in Nat \ {0} /\ p[1] \notin {"magic", "cks", "cmd", "status", "len", "junk"}
<1>1. CASE IsData(p)
  BY <1>1, BlockParts DEF IsData, CHUNK_SIZE
<1>2. CASE ~IsData(p)
  BY <1>2, PlainParts, PartKinds DEF IsData, Filled
<1> QED
  BY <1>1, <1>2

LEMMA AnsweredFramed ==
  ASSUME NEW s, NEW t, NEW cmd, NEW st, NEW p, Answered(s, t, cmd, st, p), Framed(s)
  PROVE  Framed(t)
<1>0. PICK n \in Nat : n = Len(s) /\ Len(t) = n + 6
  BY LenProperties DEF Answered
<1>1. /\ \A k \in 1..n : t[k] = s[k]
      /\ t[n + 1] = Magic /\ t[n + 2] = <<"cmd", cmd>> /\ t[n + 3] = <<"status", st>>
      /\ t[n + 4] = <<"len", p[2]>> /\ t[n + 5] = p /\ t[n + 6] = Cks
      /\ st \in {"ok", "error"} /\ Filled(p) /\ (IsData(p) <=> (cmd = "read" /\ st = "ok"))
  BY <1>0 DEF Answered
<1>2. p[2] \in Nat \ {0} /\ p[1] \notin {"magic", "cks", "cmd", "status", "len", "junk"}
  BY FilledParts DEF Answered
<1>3. Linked(t)
  <2> SUFFICES ASSUME NEW k \in 2..Len(t), t[k - 1][1] # "junk"
               PROVE  Follows(t[k - 1], t[k])
    BY DEF Linked
  <2>1. CASE k <= n
    <3>1. k \in 2..Len(s) /\ t[k] = s[k] /\ t[k - 1] = s[k - 1]
      BY <1>0, <1>1, <2>1
    <3> QED
      BY <3>1 DEF Framed, Linked
  <2>2. CASE k = n + 1
    <3>1. n \in 1..n /\ k - 1 = n /\ s # <<>>
      BY <1>0, <2>2, EmptySeq
    <3>2. t[k - 1] = s[n] /\ t[k] = Magic
      BY <1>1, <2>2, <3>1
    <3>3. Closing(s[n])
      BY <1>0, <3>1 DEF Framed, EndsInFrameEnd
    <3> QED
      BY <3>2, <3>3 DEF Follows, Magic, Filled
  <2>3. CASE k = n + 2
    <3>1. t[k - 1] = Magic /\ t[k] = <<"cmd", cmd>>
      BY <1>0, <1>1, <2>3
    <3> QED
      BY <3>1 DEF Follows, Filled
  <2>4. CASE k = n + 3
    <3>1. t[k - 1] = <<"cmd", cmd>> /\ t[k] = <<"status", st>>
      BY <1>0, <1>1, <2>4
    <3> QED
      BY <3>1 DEF Follows, Filled
  <2>5. CASE k = n + 4
    <3>1. t[k - 1] = <<"status", st>> /\ t[k] = <<"len", p[2]>>
      BY <1>0, <1>1, <2>5
    <3> QED
      BY <1>1, <1>2, <3>1 DEF Follows, Filled
  <2>6. CASE k = n + 5
    <3>1. t[k - 1] = <<"len", p[2]>> /\ t[k] = p
      BY <1>0, <1>1, <2>6
    <3> QED
      BY <1>1, <1>2, <3>1 DEF Follows, Filled
  <2>7. CASE k = n + 6
    <3>1. t[k - 1] = p /\ t[k] = Cks
      BY <1>0, <1>1, <2>7
    <3> QED
      BY <1>1, <3>1 DEF Follows, Filled, Cks
  <2> QED
    BY <1>0, <2>1, <2>2, <2>3, <2>4, <2>5, <2>6, <2>7
<1>4. PayloadsFit(t)
  <2> SUFFICES ASSUME NEW k \in 4..Len(t), Filled(t[k]), t[k - 1][1] = "len", t[k - 3][1] = "cmd"
               PROVE  IsData(t[k]) <=> (t[k - 3] = <<"cmd", "read">> /\ t[k - 2] = Ok)
    BY DEF PayloadsFit
  <2>1. CASE k <= n
    <3>1. /\ k \in 4..Len(s) /\ t[k] = s[k] /\ t[k - 1] = s[k - 1]
          /\ t[k - 2] = s[k - 2] /\ t[k - 3] = s[k - 3]
      <4>1. /\ k \in 4..Len(s) /\ k \in 1..n /\ k - 1 \in 1..n
            /\ k - 2 \in 1..n /\ k - 3 \in 1..n
        BY <1>0, <2>1
      <4>2. \A j \in 1..n : t[j] = s[j]
        BY <1>1
      <4> QED
        BY ONLY <4>1, <4>2
    <3> QED
      BY <3>1 DEF Framed, PayloadsFit
  <2>2. CASE k = n + 5
    <3>1. /\ t[k] = p /\ t[k - 2] = <<"status", st>> /\ t[k - 3] = <<"cmd", cmd>>
      BY <1>0, <1>1, <2>2
    <3> QED
      BY <1>1, <3>1 DEF Ok
  <2>3. CASE k > n /\ k # n + 5
    <3>1. k = n + 1 \/ k = n + 2 \/ k = n + 3 \/ k = n + 4 \/ k = n + 6
      BY <1>0, <2>3, SMTT(30)
    <3>2. t[k] \in {Magic, <<"cmd", cmd>>, <<"status", st>>, <<"len", p[2]>>, Cks}
      BY <1>1, <3>1
    <3>3. ~Filled(t[k])
      BY <3>2 DEF Filled, Magic, Cks
    <3> QED
      BY <3>3
  <2> QED
    BY <1>0, <2>1, <2>2, <2>3
<1>5. EndsInFrameEnd(t)
  BY <1>0, <1>1 DEF EndsInFrameEnd, Closing, Cks
<1> QED
  BY <1>3, <1>4, <1>5 DEF Framed, Answered

LEMMA AnsweredGoes ==
  ASSUME NEW s, NEW t, NEW cmd, NEW st, NEW p, Answered(s, t, cmd, st, p),
         NEW c, NEW d, Serves(c, d, cmd, st, p),
         NEW i \in 0..Len(s), NEW f, NEW pos, Goes(s, c, i, f, pos)
  PROVE  Goes(t, d, i, f, pos)
<1>0. PICK n \in Nat : n = Len(s) /\ Len(t) = n + 6
  BY LenProperties DEF Answered
<1>1. /\ \A k \in 1..n : t[k] = s[k]
      /\ t[n + 1] = Magic /\ t[n + 2] = <<"cmd", cmd>> /\ t[n + 3] = <<"status", st>>
      /\ t[n + 4] = <<"len", p[2]>> /\ t[n + 5] = p /\ t[n + 6] = Cks
      /\ st \in {"ok", "error"} /\ Filled(p) /\ (IsData(p) <=> (cmd = "read" /\ st = "ok"))
  BY <1>0 DEF Answered
<1>2. ASSUME NEW k \in 1..Len(t), k > n, IsData(t[k]) \/ t[k] = Eof
      PROVE  k = n + 5 /\ IsData(p) /\ t[k] = p /\ t[k] # Eof
  <2>1. CASE k = n + 5
    BY <1>1, <1>2, <2>1 DEF Filled, Eof, IsData
  <2>2. CASE k # n + 5
    <3>1. k = n + 1 \/ k = n + 2 \/ k = n + 3 \/ k = n + 4 \/ k = n + 6
      BY <1>0, <1>2, <2>2
    <3> QED
      BY <1>1, <1>2, <3>1 DEF IsData, Eof, Magic, Cks
  <2> QED
    BY <2>1, <2>2
<1>3. ASSUME NEW k, k \in 1..(n + 1), NEW l, l \in 1..(Len(t) + 1), k <= l, Clear(t, i, l)
      PROVE  Clear(s, i, k)
  <2> SUFFICES ASSUME NEW m \in 1..Len(s), i < m, m < k PROVE ~Mark(s[m])
    BY DEF Clear
  <2>1. m \in 1..Len(t) /\ m < l /\ t[m] = s[m]
    BY <1>0, <1>1, <1>3
  <2> QED
    BY <1>3, <2>1 DEF Clear
<1>4. ASSUME NEW l, l \in 1..(Len(t) + 1), n < l, Clear(t, i, l)
      PROVE  c = <<>> \/ c = <<f, pos>>
  <2>1. n + 1 \in 1..(n + 1) /\ n + 1 <= l
    BY <1>0, <1>4
  <2>2. Clear(s, i, n + 1)
    BY <1>3, <1>4, <2>1
  <2> QED
    BY <1>0, <2>2 DEF Goes
<1>5. ASSUME NEW k \in 1..Len(t), i < k, Clear(t, i, k)
      PROVE  /\ IsData(t[k]) => t[k][3] = f /\ t[k][4] = pos
             /\ t[k] = Eof => pos = FileLen[f[1]]
  <2>1. CASE k <= n
    <3>1. k \in 1..Len(s) /\ k \in 1..(n + 1) /\ k \in 1..(Len(t) + 1) /\ k <= k /\ t[k] = s[k]
      BY <1>0, <1>1, <2>1
    <3>2. Clear(s, i, k)
      BY <1>3, <1>5, <3>1
    <3> QED
      BY <1>5, <3>1, <3>2 DEF Goes
  <2>2. CASE k > n /\ (IsData(t[k]) \/ t[k] = Eof)
    <3>1. IsData(p) /\ t[k] = p /\ t[k] # Eof
      BY <1>2, <2>2
    <3>2. c = <<f, pos>>
      <4>1. k \in 1..(Len(t) + 1) /\ n < k
        BY <1>0, <2>2
      <4>2. c = <<>> \/ c = <<f, pos>>
        BY <1>4, <1>5, <4>1
      <4>3. c = <<p[3], p[4]>>
        BY <3>1 DEF Serves
      <4> QED
        BY <4>2, <4>3, PairsAreNotEmpty
    <3>3. c = <<p[3], p[4]>>
      BY <3>1 DEF Serves
    <3>4. p[3] = f /\ p[4] = pos
      BY <3>2, <3>3
    <3> QED
      BY <3>1, <3>4
  <2> QED
    BY <1>0, <2>1, <2>2
<1>6. ASSUME Clear(t, i, Len(t) + 1)
      PROVE  d = <<>> \/ d = <<f, pos>>
  <2>0. \A m \in 1..Len(t) : i < m => ~Mark(t[m])
    BY <1>6, <1>0 DEF Clear
  <2>1. ~IsData(p)
    <3>1. n + 5 \in 1..Len(t) /\ i < n + 5
      BY <1>0
    <3> QED
      BY <1>1, <2>0, <3>1 DEF Mark
  <2>2. cmd # "open"
    <3>1. n + 2 \in 1..Len(t) /\ i < n + 2
      BY <1>0
    <3> QED
      BY <1>1, <2>0, <3>1 DEF Mark, Open
  <2>3. c = <<>> \/ c = <<f, pos>>
    <3>1. Len(t) + 1 \in 1..(Len(t) + 1) /\ n < Len(t) + 1
      BY <1>0
    <3> QED
      BY <1>4, <1>6, <3>1
  <2> QED
    BY <2>1, <2>2, <2>3 DEF Serves
<1> QED
  BY <1>5, <1>6 DEF Goes

LEMMA AnsweredChained ==
  ASSUME NEW s, NEW t, NEW cmd, NEW st, NEW p, Answered(s, t, cmd, st, p),
         NEW c, NEW d, Serves(c, d, cmd, st, p), Chained(s, c)
  PROVE  Chained(t, d)
<1>0. PICK n \in Nat : n = Len(s) /\ Len(t) = n + 6
  BY LenProperties DEF Answered
<1>1. /\ \A k \in 1..n : t[k] = s[k]
      /\ t[n + 1] = Magic /\ t[n + 2] = <<"cmd", cmd>> /\ t[n + 3] = <<"status", st>>
      /\ t[n + 4] = <<"len", p[2]>> /\ t[n + 5] = p /\ t[n + 6] = Cks
      /\ st \in {"ok", "error"} /\ Filled(p) /\ (IsData(p) <=> (cmd = "read" /\ st = "ok"))
  BY <1>0 DEF Answered
<1>2. ASSUME NEW j \in 1..Len(t), ~(j <= n)
      PROVE  /\ IsData(t[j]) => j = n + 5 /\ t[j] = p /\ IsData(p)
             /\ t[j] = Open => j = n + 2 /\ cmd = "open"
  <2>1. j = n + 1 \/ j = n + 2 \/ j = n + 3 \/ j = n + 4 \/ j = n + 5 \/ j = n + 6
    BY <1>0, <1>2
  <2> QED
    BY <1>1, <2>1 DEF IsData, Filled, Open, Magic, Cks
<1>3. ShortAreLast(t)
  <2> SUFFICES ASSUME NEW j \in 1..Len(t), IsData(t[j]) PROVE ShortIsLast(t[j])
    BY DEF ShortAreLast
  <2>1. CASE j <= n
    <3>1. j \in 1..Len(s) /\ t[j] = s[j]
      BY <1>0, <1>1, <2>1
    <3> QED
      BY <3>1 DEF Chained, ShortAreLast
  <2>2. CASE ~(j <= n)
    BY <1>2, <2>2 DEF Serves
  <2> QED
    BY <2>1, <2>2
<1> SUFFICES ASSUME NEW j \in 1..Len(t) PROVE FromBlock(t, d, j) /\ FromOpen(t, d, j)
  BY <1>3 DEF Chained
<1>4. CASE j <= n
  <2>1. j \in 1..Len(s) /\ j \in 0..Len(s) /\ t[j] = s[j]
    BY <1>0, <1>1, <1>4
  <2>2. \A f, pos : Goes(s, c, j, f, pos) => Goes(t, d, j, f, pos)
    BY <2>1, AnsweredGoes
  <2>3. FromBlock(s, c, j) /\ FromOpen(s, c, j)
    BY <2>1 DEF Chained
  <2>4. t[j + 1] = Ok => j < Len(s) /\ s[j + 1] = Ok
    <3>1. CASE j = n
      BY <1>1, <3>1 DEF Magic, Ok
    <3>2. CASE j # n
      <4>1. j + 1 \in 1..n /\ j < Len(s)
        BY <1>0, <1>4, <3>2
      <4> QED
        BY <1>1, <4>1
    <3> QED
      BY <3>1, <3>2
  <2>5. FromBlock(t, d, j)
    BY <2>1, <2>2, <2>3 DEF FromBlock
  <2>6. FromOpen(t, d, j)
    BY <2>1, <2>2, <2>3, <2>4 DEF FromOpen
  <2> QED
    BY <2>5, <2>6
<1>5. CASE ~(j <= n)
  <2>1. FromBlock(t, d, j)
    <3> SUFFICES ASSUME IsData(t[j]) PROVE Goes(t, d, j, t[j][3], t[j][4] + t[j][2])
      BY DEF FromBlock
    <3>1. j = n + 5 /\ t[j] = p /\ IsData(p)
      BY <1>2, <1>5
    <3>2. d = <<t[j][3], t[j][4] + t[j][2]>>
      BY <3>1 DEF Serves
    <3>3. \A k \in 1..Len(t) : j < k => ~IsData(t[k]) /\ t[k] # Eof
      <4> SUFFICES ASSUME NEW k \in 1..Len(t), j < k PROVE ~IsData(t[k]) /\ t[k] # Eof
        OBVIOUS
      <4>1. k = n + 6
        BY <1>0, <3>1
      <4> QED
        BY <1>1, <4>1 DEF IsData, Eof, Cks
    <3> QED
      BY <3>2, <3>3 DEF Goes
  <2>2. FromOpen(t, d, j)
    <3> SUFFICES ASSUME t[j] = Open, t[j + 1] = Ok PROVE \E f \in Files : Goes(t, d, j, f, 0)
      BY DEF FromOpen
    <3>1. j = n + 2 /\ cmd = "open"
      BY <1>2, <1>5
    <3>2. st = "ok"
      BY <1>0, <1>1, <3>1 DEF Ok
    <3>3. PICK f \in Files : d = <<f, 0>>
      BY <3>1, <3>2 DEF Serves
    <3>4. \A k \in 1..Len(t) : j < k => ~IsData(t[k]) /\ t[k] # Eof
      <4> SUFFICES ASSUME NEW k \in 1..Len(t), j < k PROVE ~IsData(t[k]) /\ t[k] # Eof
        OBVIOUS
      <4>1. k = n + 3 \/ k = n + 4 \/ k = n + 5 \/ k = n + 6
        BY <1>0, <3>1
      <4> QED
        BY <1>1, <3>1, <3>2, <4>1 DEF IsData, Eof, Cks, Filled
    <3> QED
      BY <3>3, <3>4 DEF Goes
  <2> QED
    BY <2>1, <2>2
<1> QED
  BY <1>4, <1>5

LEMMA EndedFramed ==
  ASSUME NEW s, NEW t, Ended(s, t), Framed(s)
  PROVE  Framed(t)
<1>0. PICK n \in Nat : n = Len(s) /\ Len(t) = n + 5
  BY LenProperties DEF Ended
<1>1. /\ \A k \in 1..n : t[k] = s[k]
      /\ t[n + 1] = Magic /\ t[n + 2] = <<"cmd", "read">> /\ t[n + 3] = Eof
      /\ t[n + 4] = <<"len", 0>> /\ t[n + 5] = Cks
  BY <1>0 DEF Ended
<1>2. Linked(t)
  <2> SUFFICES ASSUME NEW k \in 2..Len(t), t[k - 1][1] # "junk"
               PROVE  Follows(t[k - 1], t[k])
    BY DEF Linked
  <2>1. CASE k <= n
    <3>1. k \in 2..Len(s) /\ t[k] = s[k] /\ t[k - 1] = s[k - 1]
      BY <1>0, <1>1, <2>1
    <3> QED
      BY <3>1 DEF Framed, Linked
  <2>2. CASE k = n + 1
    <3>1. n \in 1..n /\ k - 1 = n /\ s # <<>>
      BY <1>0, <2>2, EmptySeq
    <3>2. t[k - 1] = s[n] /\ t[k] = Magic
      BY <1>1, <2>2, <3>1
    <3>3. Closing(s[n])
      BY <1>0, <3>1 DEF Framed, EndsInFrameEnd
    <3> QED
      BY <3>2, <3>3 DEF Follows, Magic, Filled
  <2>3. CASE k = n + 2
    <3>1. t[k - 1] = Magic /\ t[k] = <<"cmd", "read">>
      BY <1>0, <1>1, <2>3
    <3> QED
      BY <3>1 DEF Follows, Filled
  <2>4. CASE k = n + 3
    <3>1. t[k - 1] = <<"cmd", "read">> /\ t[k] = Eof
      BY <1>0, <1>1, <2>4
    <3> QED
      BY <3>1 DEF Follows, Filled, Eof
  <2>5. CASE k = n + 4
    <3>1. t[k - 1] = Eof /\ t[k] = <<"len", 0>>
      BY <1>0, <1>1, <2>5
    <3> QED
      BY <3>1 DEF Follows, Filled, Eof
  <2>6. CASE k = n + 5
    <3>1. t[k - 1] = <<"len", 0>> /\ t[k] = Cks
      BY <1>0, <1>1, <2>6
    <3> QED
      BY <3>1 DEF Follows, Filled, Cks
  <2> QED
    BY <1>0, <2>1, <2>2, <2>3, <2>4, <2>5, <2>6
<1>3. PayloadsFit(t)
  <2> SUFFICES ASSUME NEW k \in 4..Len(t), Filled(t[k]), t[k - 1][1] = "len", t[k - 3][1] = "cmd"
               PROVE  IsData(t[k]) <=> (t[k - 3] = <<"cmd", "read">> /\ t[k - 2] = Ok)
    BY DEF PayloadsFit
  <2>1. CASE k <= n
    <3>1. /\ k \in 4..Len(s) /\ t[k] = s[k] /\ t[k - 1] = s[k - 1]
          /\ t[k - 2] = s[k - 2] /\ t[k - 3] = s[k - 3]
      <4>1. /\ k \in 4..Len(s) /\ k \in 1..n /\ k - 1 \in 1..n
            /\ k - 2 \in 1..n /\ k - 3 \in 1..n
        BY <1>0, <2>1
      <4>2. \A j \in 1..n : t[j] = s[j]
        BY <1>1
      <4> QED
        BY ONLY <4>1, <4>2
    <3> QED
      BY <3>1 DEF Framed, PayloadsFit
  <2>2. CASE k > n
    <3>1. k = n + 1 \/ k = n + 2 \/ k = n + 3 \/ k = n + 4 \/ k = n + 5
      BY <1>0, <2>2
    <3>2. t[k] \in {Magic, <<"cmd", "read">>, Eof, <<"len", 0>>, Cks}
      BY <1>1, <3>1
    <3>3. ~Filled(t[k])
      BY <3>2 DEF Filled, Magic, Cks, Eof
    <3> QED
      BY <3>3
  <2> QED
    BY <1>0, <2>1, <2>2
<1>4. EndsInFrameEnd(t)
  BY <1>0, <1>1 DEF EndsInFrameEnd, Closing, Cks
<1> QED
  BY <1>2, <1>3, <1>4 DEF Framed, Ended

LEMMA EndedGoes ==
  ASSUME NEW s, NEW t, Ended(s, t), NEW g \in Files, NEW c, c = <<g, FileLen[g[1]]>>,
         NEW i \in 0..Len(s), NEW f, NEW pos, Goes(s, c, i, f, pos)
  PROVE  Goes(t, c, i, f, pos)
<1>0. PICK n \in Nat : n = Len(s) /\ Len(t) = n + 5
  BY LenProperties DEF Ended
<1>1. /\ \A k \in 1..n : t[k] = s[k]
      /\ t[n + 1] = Magic /\ t[n + 2] = <<"cmd", "read">> /\ t[n + 3] = Eof
      /\ t[n + 4] = <<"len", 0>> /\ t[n + 5] = Cks
  BY <1>0 DEF Ended
<1>2. ASSUME NEW k \in 1..Len(t), k > n
      PROVE  ~IsData(t[k])
  <2>0. k \in Nat /\ k <= n + 5 /\ k > n
    BY <1>0, <1>2
  <2>1. k = n + 1 \/ k = n + 2 \/ k = n + 3 \/ k = n + 4 \/ k = n + 5
    BY <1>0, <2>0
  <2>2. t[k] \in {Magic, <<"cmd", "read">>, Eof, <<"len", 0>>, Cks}
    BY <1>1, <2>1
  <2> QED
    BY <2>2 DEF IsData, Magic, Cks, Eof
<1>3. ASSUME NEW k, k \in 1..(n + 1), NEW l, l \in 1..(Len(t) + 1), k <= l, Clear(t, i, l)
      PROVE  Clear(s, i, k)
  <2> SUFFICES ASSUME NEW m \in 1..Len(s), i < m, m < k PROVE ~Mark(s[m])
    BY DEF Clear
  <2>1. m \in 1..Len(t) /\ m < l /\ t[m] = s[m]
    BY <1>0, <1>1, <1>3
  <2> QED
    BY <1>3, <2>1 DEF Clear
<1>4. ASSUME NEW l, l \in 1..(Len(t) + 1), n < l, Clear(t, i, l)
      PROVE  g = f /\ FileLen[g[1]] = pos
  <2>1. n + 1 \in 1..(n + 1) /\ n + 1 <= l
    BY <1>0, <1>4
  <2>2. Clear(s, i, n + 1)
    BY <1>3, <1>4, <2>1
  <2>3. c = <<>> \/ c = <<f, pos>>
    BY <1>0, <2>2 DEF Goes
  <2>4. <<g, FileLen[g[1]]>> = <<f, pos>>
    BY <2>3, PairsAreNotEmpty
  <2> QED
    BY <2>4
<1>5. ASSUME NEW k \in 1..Len(t), i < k, Clear(t, i, k)
      PROVE  /\ IsData(t[k]) => t[k][3] = f /\ t[k][4] = pos
             /\ t[k] = Eof => pos = FileLen[f[1]]
  <2>1. CASE k <= n
    <3>1. k \in 1..Len(s) /\ k \in 1..(n + 1) /\ k \in 1..(Len(t) + 1) /\ k <= k /\ t[k] = s[k]
      BY <1>0, <1>1, <2>1
    <3>2. Clear(s, i, k)
      BY <1>3, <1>5, <3>1
    <3> QED
      BY <1>5, <3>1, <3>2 DEF Goes
  <2>2. CASE k > n
    <3>1. k \in 1..(Len(t) + 1) /\ n < k
      BY <1>0, <2>2
    <3> QED
      BY <1>2, <1>4, <1>5, <2>2, <3>1
  <2> QED
    BY <1>0, <2>1, <2>2
<1>6. ASSUME Clear(t, i, Len(t) + 1)
      PROVE  c = <<>> \/ c = <<f, pos>>
  <2>1. Len(t) + 1 \in 1..(Len(t) + 1) /\ n < Len(t) + 1
    BY <1>0
  <2> QED
    BY <1>4, <1>6, <2>1
<1> QED
  BY <1>5, <1>6 DEF Goes

LEMMA EndedChained ==
  ASSUME NEW s, NEW t, Ended(s, t), NEW g \in Files, NEW c, c = <<g, FileLen[g[1]]>>,
         Chained(s, c)
  PROVE  Chained(t, c)
<1>0. PICK n \in Nat : n = Len(s) /\ Len(t) = n + 5
  BY LenProperties DEF Ended
<1>1. /\ \A k \in 1..n : t[k] = s[k]
      /\ t[n + 1] = Magic /\ t[n + 2] = <<"cmd", "read">> /\ t[n + 3] = Eof
      /\ t[n + 4] = <<"len", 0>> /\ t[n + 5] = Cks
  BY <1>0 DEF Ended
<1>2. ASSUME NEW j \in 1..Len(t), ~(j <= n)
      PROVE  ~IsData(t[j]) /\ t[j] # Open
  <2>1. j = n + 1 \/ j = n + 2 \/ j = n + 3 \/ j = n + 4 \/ j = n + 5
    BY <1>0, <1>2
  <2>2. t[j] \in {Magic, <<"cmd", "read">>, Eof, <<"len", 0>>, Cks}
    BY <1>1, <2>1
  <2> QED
    BY <2>2 DEF IsData, Open, Magic, Cks, Eof
<1>3. ShortAreLast(t)
  <2> SUFFICES ASSUME NEW j \in 1..Len(t), IsData(t[j]) PROVE ShortIsLast(t[j])
    BY DEF ShortAreLast
  <2>1. j \in 1..Len(s) /\ t[j] = s[j]
    BY <1>0, <1>1, <1>2
  <2> QED
    BY <2>1 DEF Chained, ShortAreLast
<1> SUFFICES ASSUME NEW j \in 1..Len(t) PROVE FromBlock(t, c, j) /\ FromOpen(t, c, j)
  BY <1>3 DEF Chained
<1>4. CASE j <= n
  <2>1. j \in 1..Len(s) /\ j \in 0..Len(s) /\ t[j] = s[j]
    BY <1>0, <1>1, <1>4
  <2>2. \A f, pos : Goes(s, c, j, f, pos) => Goes(t, c, j, f, pos)
    BY <2>1, EndedGoes
  <2>3. FromBlock(s, c, j) /\ FromOpen(s, c, j)
    BY <2>1 DEF Chained
  <2>4. t[j + 1] = Ok => j < Len(s) /\ s[j + 1] = Ok
    <3>1. CASE j = n
      BY <1>1, <3>1 DEF Magic, Ok
    <3>2. CASE j # n
      <4>1. j + 1 \in 1..n /\ j < Len(s)
        BY <1>0, <1>4, <3>2
      <4> QED
        BY <1>1, <4>1
    <3> QED
      BY <3>1, <3>2
  <2>5. FromBlock(t, c, j)
    BY <2>1, <2>2, <2>3 DEF FromBlock
  <2>6. FromOpen(t, c, j)
    BY <2>1, <2>2, <2>3, <2>4 DEF FromOpen
  <2> QED
    BY <2>5, <2>6
<1>5. CASE ~(j <= n)
  BY <1>2, <1>5 DEF FromBlock, FromOpen
<1> QED
  BY <1>4, <1>5

\* A channel that was cleared goes on anywhere.
LEMMA ClearedGoes ==
  ASSUME NEW s, NEW c, NEW i, NEW f, NEW pos, Goes(s, c, i, f, pos)
  PROVE  Goes(s, <<>>, i, f, pos)
BY DEF Goes

LEMMA ClearedChained ==
  ASSUME NEW s, NEW c, Chained(s, c)
  PROVE  Chained(s, <<>>)
<1>1. \A j \in 1..Len(s) : FromBlock(s, c, j) /\ FromOpen(s, c, j)
  BY DEF Chained
<1>2. \A j \in 1..Len(s) : FromBlock(s, <<>>, j) /\ FromOpen(s, <<>>, j)
  BY <1>1, ClearedGoes DEF FromBlock, FromOpen
<1> QED
  BY <1>2 DEF Chained

-----------------------------------------------------------------------------
(* The invariant. *)

\* What the hook has taken of the answer it is reading.
Payload ==
  IF head[2] = 0 THEN <<>>
  ELSE IF phase = "read" THEN <<memory[Len(memory)]>> ELSE << <<"text", head[2]>> >>

Taken ==
  IF phase = "idle" \/ parse = "magic" THEN <<>>
  ELSE IF parse = "cmd" THEN <<Magic>>
  ELSE IF parse = "status" THEN <<Magic, <<"cmd", Expected>> >>
  ELSE IF parse = "len" THEN <<Magic, <<"cmd", Expected>>, <<"status", head[1]>> >>
  ELSE IF parse = "payload"
    THEN <<Magic, <<"cmd", Expected>>, <<"status", head[1]>>, <<"len", head[2]>> >>
  ELSE <<Magic, <<"cmd", Expected>>, <<"status", head[1]>>, <<"len", head[2]>> >> \o Payload

\* That, and all that is still to come.
Stream == Taken \o (fifo \o down)

HookTypes ==
  /\ phase \in {"idle", "open", "read", "closing", "failing"}
  /\ parse \in {"magic", "cmd", "status", "len", "payload", "cks"}
  /\ resync \in 1..RESYNC /\ result \in {"none", "ok", "error"}
  /\ head \in {"ok", "eof", "error"} \X Nat
  /\ memory \in Seq(Part)

LineTypes == up \in Seq({"open", "read", "close"}) /\ down \in Seq(Part) /\ fifo \in Seq(Part)

ServerTypes ==
  /\ worker \in {"idle", "found", "loaded"}
  /\ worker = "found" => entry \in Disks /\ FileLen[entry] > 0
  /\ worker = "loaded" => file \in Files
  /\ channel # <<>> =>
       /\ channel = <<channel[1], channel[2]>>
       /\ channel[1] \in Files /\ channel[2] \in 0..FileLen[channel[1][1]]
  /\ {next, mounted, entries} \subseteq Disks \cup {0}

\* A LOAD stores nothing before it has opened its file, and has no result before its end.
Opening == (phase = "open" => memory = <<>>) /\ (phase # "idle" => result = "none")

\* The blocks in memory are one file's, from its begin and without a gap.
InOrder(f) ==
  \A k \in 1..Len(memory) :
    IsData(memory[k]) /\ memory[k][3] = f /\ memory[k][4] = End(k - 1)

Opens(s) == s # <<>> => s[1] = Magic

\* While the hook reads, what comes next goes on where the memory ends; when it
\* has taken a block, memory ends with that.
Reading ==
  phase = "read" => \E f \in Files :
    /\ InOrder(f)
    /\ parse = "magic" => Opens(Stream)
    /\ parse \in {"len", "payload", "cks"} => head[1] \in {"ok", "eof"}
    /\ parse # "cks" \/ head[2] = 0 => Goes(Stream, channel, 0, f, End(Len(memory)))
    /\ parse = "cks" =>
         /\ memory # <<>> /\ (head[2] = 0 => head[1] = "eof")
         /\ head[2] # 0 => memory[Len(memory)][2] = head[2]

Finished == phase = "closing" \/ result = "ok" => \E f \in Files : Whole(f)

LInv ==
  /\ HookTypes /\ LineTypes /\ ServerTypes /\ Opening
  /\ Framed(Stream) /\ Chained(Stream, channel) /\ Reading /\ Finished

-----------------------------------------------------------------------------
(* The stream under the hook. *)

LEMMA EmptyStream ==
  ASSUME NEW c
  PROVE  Framed(<<>>) /\ Chained(<<>>, c)
BY DEF Framed, Linked, PayloadsFit, EndsInFrameEnd, Chained, ShortAreLast

LEMMA TakenType ==
  ASSUME HookTypes, phase = "read" /\ parse = "cks" /\ head[2] # 0 => memory # <<>>
  PROVE  Taken \in Seq(Part)
<1>0. CASE phase = "idle"
  BY <1>0 DEF Taken
<1> SUFFICES ASSUME phase # "idle" PROVE Taken \in Seq(Part)
  BY <1>0
<1>1. /\ Magic \in Part /\ <<"cmd", Expected>> \in Part
      /\ <<"status", head[1]>> \in Part /\ <<"len", head[2]>> \in Part
  <2>1. head[1] \in {"ok", "eof", "error"} /\ head[2] \in Nat
    BY DEF HookTypes
  <2>2. Expected \in {"open", "read", "close"}
    BY DEF HookTypes, Expected
  <2>3. Magic \in Part
    BY DEF Part, Plains
  <2>4. <<"cmd", Expected>> \in Part
    BY <2>2 DEF Part, Plains
  <2>5. <<"status", head[1]>> \in Part
    BY <2>1 DEF Part, Plains
  <2>6. <<"len", head[2]>> \in Part
    BY <2>1 DEF Part, Plains
  <2> QED
    BY <2>3, <2>4, <2>5, <2>6
<1>2. parse = "cks" => Payload \in Seq(Part)
  <2>1. CASE head[2] = 0
    BY <2>1 DEF Payload
  <2>2. CASE head[2] # 0 /\ phase = "read"
    <3> SUFFICES ASSUME parse = "cks" PROVE Payload \in Seq(Part)
      OBVIOUS
    <3>1. memory[Len(memory)] \in Part
      BY <2>2 DEF HookTypes
    <3> QED
      BY <2>2, <3>1 DEF Payload
  <2>3. CASE head[2] # 0 /\ phase # "read"
    <3>1. <<"text", head[2]>> \in Part
      BY <2>3 DEF HookTypes, Part, Plains
    <3> QED
      BY <2>3, <3>1 DEF Payload
  <2> QED
    BY <2>1, <2>2, <2>3
<1> DEFINE h == <<Magic, <<"cmd", Expected>>, <<"status", head[1]>>, <<"len", head[2]>> >>
<1>3. /\ <<Magic>> \in Seq(Part) /\ <<Magic, <<"cmd", Expected>> >> \in Seq(Part)
      /\ <<Magic, <<"cmd", Expected>>, <<"status", head[1]>> >> \in Seq(Part)
      /\ h \in Seq(Part)
  <2> HIDE DEF Expected, Part
  <2> QED
    BY <1>1
<1>4. parse = "cks" => h \o Payload \in Seq(Part)
  <2> HIDE DEF h
  <2> QED
    BY <1>2, <1>3, ConcatProperties
<1>5. parse \in {"magic", "cmd", "status", "len", "payload", "cks"}
  BY DEF HookTypes
<1> HIDE DEF Expected, Part
<1> QED
  BY <1>3, <1>4, <1>5 DEF Taken

\* The next part in the FIFO is the one of the stream behind what is taken.
LEMMA NextPart ==
  ASSUME NEW u \in Seq(Part), NEW v \in Seq(Part), v # <<>>, NEW w \in Seq(Part)
  PROVE  /\ Tail(v) \o w \in Seq(Part) /\ Head(v) \in Part
         /\ u \o (v \o w) = Append(u, Head(v)) \o (Tail(v) \o w)
         /\ Suffix(u \o (v \o w), Tail(v) \o w, Len(u) + 1)
         /\ (u \o (v \o w))[Len(u) + 1] = Head(v)
<1>1. Head(v) \in Part /\ Tail(v) \in Seq(Part) /\ v = <<Head(v)>> \o Tail(v) /\ Len(v) > 0
  <2>1. v = <<Head(v)>> \o Tail(v)
    OBVIOUS
  <2> QED
    BY <2>1
<1> DEFINE a == Head(v)  b == Tail(v)
<1> HIDE DEF a, b
<1>2. a \in Part /\ b \in Seq(Part) /\ v = <<a>> \o b
  BY <1>1 DEF a, b
<1>3. b \o w \in Seq(Part)
  BY <1>2
<1>4. Append(u, a) = u \o <<a>>
  BY <1>2
<1>5. v \o w = <<a>> \o (b \o w)
  BY <1>2
<1> DEFINE x == b \o w
<1>6. x \in Seq(Part)
  BY <1>3
<1> HIDE DEF x
<1>7. u \o (<<a>> \o x) = (u \o <<a>>) \o x
  BY <1>2, <1>6, SMTT(30)
<1>8. /\ (u \o (<<a>> \o x)) \in Seq(Part) /\ Len(u \o (<<a>> \o x)) = Len(u) + 1 + Len(x)
      /\ (u \o (<<a>> \o x))[Len(u) + 1] = a
      /\ \A k \in 1..Len(x) : x[k] = (u \o (<<a>> \o x))[k + (Len(u) + 1)]
  BY <1>2, <1>6
<1>9. Suffix(u \o (<<a>> \o x), x, Len(u) + 1)
  <2> DEFINE y == u \o (<<a>> \o x)
  <2>1. y \in Seq(Part) /\ Len(y) = Len(u) + 1 + Len(x) /\ \A k \in 1..Len(x) : x[k] = y[k + (Len(u) + 1)]
    BY <1>8
  <2> HIDE DEF y
  <2>2. Len(u) \in Nat /\ Len(x) \in Nat
    BY <1>6
  <2>3. Suffix(y, x, Len(u) + 1)
    BY <1>6, <2>1, <2>2 DEF Suffix
  <2> QED
    BY <2>3 DEF y
<1> QED
  BY <1>2, <1>3, <1>4, <1>5, <1>7, <1>8, <1>9 DEF a, b, x

\* The stream and its pieces.
LEMMA StreamType ==
  ASSUME LInv
  PROVE  /\ Taken \in Seq(Part) /\ fifo \in Seq(Part) /\ down \in Seq(Part)
         /\ Stream = Taken \o (fifo \o down) /\ Stream \in Seq(Part)
<1>1. phase = "read" /\ parse = "cks" /\ head[2] # 0 => memory # <<>>
  BY DEF LInv, Reading
<1>2. Taken \in Seq(Part)
  BY <1>1, TakenType DEF LInv
<1> QED
  BY <1>2 DEF LInv, LineTypes, Stream, Framed

LEMMA NextOfStream ==
  ASSUME LInv, fifo # <<>>
  PROVE  /\ Head(fifo) \in Part /\ Tail(fifo) \in Seq(Part) /\ Tail(fifo) \o down \in Seq(Part)
         /\ Stream = Append(Taken, Head(fifo)) \o (Tail(fifo) \o down)
         /\ Suffix(Stream, Tail(fifo) \o down, Len(Taken) + 1)
         /\ Stream[Len(Taken) + 1] = Head(fifo)
         /\ Len(Taken) + 1 \in 1..Len(Stream)
<1>1. /\ Taken \in Seq(Part) /\ fifo \in Seq(Part) /\ down \in Seq(Part)
      /\ Stream = Taken \o (fifo \o down)
  BY StreamType
<1>2. Tail(fifo) \in Seq(Part)
  BY <1>1
<1>3. /\ Tail(fifo) \o down \in Seq(Part) /\ Head(fifo) \in Part
      /\ Stream = Append(Taken, Head(fifo)) \o (Tail(fifo) \o down)
      /\ Suffix(Stream, Tail(fifo) \o down, Len(Taken) + 1)
      /\ Stream[Len(Taken) + 1] = Head(fifo)
  BY <1>1, NextPart
<1>4. Len(Taken) + 1 \in 1..Len(Stream)
  <2>1. Len(Taken) \in Nat
    BY <1>1
  <2> QED
    BY <1>3, <2>1 DEF Suffix
<1> QED
  BY <1>2, <1>3, <1>4

\* What the hook drops, up to a part's rest of n bytes, leaves the stream in order.
LEMMA Dropped ==
  ASSUME LInv, fifo # <<>>, NEW n \in Nat
  PROVE  /\ Junk(n) \o Tail(fifo) \in Seq(Part)
         /\ Framed((Junk(n) \o Tail(fifo)) \o down)
         /\ Chained((Junk(n) \o Tail(fifo)) \o down, channel)
<1> DEFINE a == Tail(fifo)  w == a \o down
<1>1. a \in Seq(Part) /\ w \in Seq(Part) /\ Suffix(Stream, w, Len(Taken) + 1) /\ down \in Seq(Part)
  BY NextOfStream, StreamType
<1>2. Framed(Stream) /\ Chained(Stream, channel)
  BY DEF LInv
<1> HIDE DEF w
<1>3. Framed(w) /\ Chained(w, channel)
  BY <1>1, <1>2, SuffixFramed, SuffixChained
<1>4. CASE n = 0
  <2>0. Junk(n) = <<>> /\ a \in Seq(Part)
    BY <1>1, <1>4, JunkParts
  <2>1. Junk(n) \o a = a
    <3> HIDE DEF a
    <3> QED
      BY <2>0
  <2> QED
    BY <1>1, <1>3, <2>1 DEF w
<1>5. CASE n # 0
  <2> DEFINE j == <<"junk", n>>
  <2>1. Junk(n) = <<j>> /\ j \in Part /\ j[1] = "junk"
    BY <1>5, JunkParts
  <2> HIDE DEF j, a
  <2>2. <<j>> \o a \in Seq(Part) /\ (<<j>> \o a) \o down = <<j>> \o w
    BY <1>1, <2>1 DEF w
  <2>3. Junked(w, <<j>> \o w)
    <3>1. /\ <<j>> \o w \in Seq(Part) /\ Len(<<j>> \o w) = Len(w) + 1 /\ (<<j>> \o w)[1] = j
          /\ \A k \in 1..Len(w) : w[k] = (<<j>> \o w)[k + 1]
      BY <1>1, <2>1
    <3> DEFINE t == <<j>> \o w
    <3>2. t \in Seq(Part) /\ Len(t) = Len(w) + 1 /\ t[1] = j /\ \A k \in 1..Len(w) : w[k] = t[k + 1]
      BY <3>1
    <3> HIDE DEF t
    <3>3. Len(w) \in Nat
      BY <1>1
    <3>4. Junked(w, t)
      BY <1>1, <2>1, <3>2, <3>3 DEF Junked, Suffix
    <3> QED
      BY <3>4 DEF t
  <2>4. Framed(<<j>> \o w) /\ Chained(<<j>> \o w, channel)
    BY <1>3, <2>3, JunkedFramed, JunkedChained
  <2> QED
    BY <2>1, <2>2, <2>4 DEF a
<1> QED
  BY <1>4, <1>5

\* A LOAD that fails says so, or closes its channel first.
LEMMA Fails ==
  ASSUME LInv, phase # "idle", Fail
  PROVE  /\ phase' \in {"idle", "failing"} /\ phase' # phase /\ (phase' # "idle" => parse' = "magic")
         /\ parse' \in {"magic", "cmd", "status", "len", "payload", "cks"}
         /\ resync' \in 1..RESYNC /\ result' \in {"none", "ok", "error"}
         /\ (phase' # "idle" => result' = "none")
         /\ (result' = "ok" => phase = "closing")
         /\ up' \in Seq({"open", "read", "close"})
<1>1. /\ phase \in {"open", "read", "closing", "failing"} /\ result = "none"
      /\ parse \in {"magic", "cmd", "status", "len", "payload", "cks"} /\ resync \in 1..RESYNC
      /\ up \in Seq({"open", "read", "close"})
  BY DEF LInv, HookTypes, Opening, LineTypes
<1>2. CASE phase = "read"
  <2>1. /\ phase' = "failing" /\ parse' = "magic" /\ resync' = RESYNC /\ result' = result
        /\ up' = Append(up, "close")
    BY <1>2 DEF Fail, Ask
  <2> QED
    BY <1>1, <1>2, <2>1 DEF RESYNC
<1>3. CASE phase # "read"
  <2>1. \E o \in {"ok", "error"} : Return(o) /\ (o = "ok" => phase = "closing")
    BY <1>1, <1>3 DEF Fail
  <2> QED
    BY <1>1, <2>1 DEF Return
<1> QED
  BY <1>2, <1>3

LEMMA FailKeeps ==
  ASSUME LInv, phase # "idle", Fail, NEW w \in Seq(Part), fifo' = w,
         Framed(w \o down), Chained(w \o down, channel),
         head' = head, memory' = memory, down' = down, server' = server, disk' = disk
  PROVE  LInv' /\ phase' # phase
<1>1. /\ phase' \in {"idle", "failing"} /\ phase' # phase /\ (phase' # "idle" => parse' = "magic")
      /\ parse' \in {"magic", "cmd", "status", "len", "payload", "cks"}
      /\ resync' \in 1..RESYNC /\ result' \in {"none", "ok", "error"}
      /\ (phase' # "idle" => result' = "none")
      /\ (result' = "ok" => phase = "closing")
      /\ up' \in Seq({"open", "read", "close"})
  BY Fails
<1>2. HookTypes' /\ LineTypes' /\ Opening'
  BY <1>1 DEF LInv, HookTypes, LineTypes, Opening
<1>3. ServerTypes'
  BY DEF LInv, ServerTypes, server, disk
<1>4. Stream' = w \o down
  <2>1. Taken' = <<>>
    BY <1>1 DEF Taken
  <2>2. w \o down \in Seq(Part)
    BY DEF Framed
  <2> QED
    BY <2>1, <2>2 DEF Stream
<1>5. channel' = channel
  BY DEF server
<1>6. Framed(Stream)' /\ Chained(Stream, channel)'
  <2>1. Framed(Stream') /\ Chained(Stream', channel')
    BY <1>4, <1>5
  <2> QED
    BY <2>1 DEF Framed, Linked, PayloadsFit, EndsInFrameEnd, Chained, ShortAreLast, FromBlock, FromOpen, Goes, Clear
<1>7. Reading'
  BY <1>1 DEF Reading
<1>8. Finished'
  <2> SUFFICES ASSUME result' = "ok" PROVE \E f \in Files : Whole(f)'
    BY <1>1 DEF Finished
  <2>1. PICK f \in Files : Whole(f)
    BY <1>1 DEF LInv, Finished
  <2>2. Whole(f)'
    BY <2>1 DEF Whole, End
  <2> QED
    BY <2>2
<1> QED
  BY <1>1, <1>2, <1>3, <1>6, <1>7, <1>8 DEF LInv

-----------------------------------------------------------------------------
(* The steps of the hook. *)

\* Taking a part leaves the stream as it is.
LEMMA AdvanceKeeps ==
  ASSUME LInv, phase # "idle", fifo # <<>>, fifo' = Tail(fifo), Taken' = Append(Taken, Head(fifo)),
         UNCHANGED <<phase, resync, result, up, down, server, disk>>,
         parse' \in {"cmd", "status", "len", "payload", "cks"},
         head' \in {"ok", "eof", "error"} \X Nat, memory' \in Seq(Part),
         phase = "read" \/ memory' = memory,
         Stream' = Stream => Reading'
  PROVE  LInv' /\ Stream' = Stream
<1>1. HookTypes'
  BY DEF LInv, HookTypes
<1>2. LineTypes'
  BY NextOfStream DEF LInv, LineTypes
<1>3. ServerTypes'
  BY DEF LInv, ServerTypes, server, disk
<1>4. Stream' = Stream
  BY NextOfStream DEF Stream
<1>5. channel' = channel
  BY DEF server
<1>6. Framed(Stream)' /\ Chained(Stream, channel)'
  <2>1. Framed(Stream') /\ Chained(Stream', channel')
    BY <1>4, <1>5 DEF LInv
  <2> QED
    BY <2>1 DEF Framed, Linked, PayloadsFit, EndsInFrameEnd, Chained, ShortAreLast, FromBlock, FromOpen, Goes, Clear
<1>7. Opening'
  BY DEF LInv, Opening
<1>8. Finished'
  <2> SUFFICES ASSUME phase' = "closing" \/ result' = "ok" PROVE \E f \in Files : Whole(f)'
    BY DEF Finished
  <2>1. phase = "closing" /\ memory' = memory
    BY DEF LInv, Opening
  <2>2. PICK f \in Files : Whole(f)
    BY <2>1 DEF LInv, Finished
  <2>3. Whole(f)'
    BY <2>1, <2>2 DEF Whole, End
  <2> QED
    BY <2>3
<1> QED
  BY <1>1, <1>2, <1>3, <1>4, <1>6, <1>7, <1>8 DEF LInv

\* While the hook goes on in an answer it is in, the stream stays as it is.
Onward == phase' = phase /\ parse' # "magic" => Stream' = Stream

\* What the hook knows while it reads and has not stored this answer's block.
LEMMA ReadingGoesOn ==
  ASSUME LInv, phase = "read", parse # "cks",
         phase' = "read", parse' # "magic", memory' = memory, channel' = channel,
         Stream' = Stream, parse' \in {"len", "payload", "cks"} => head'[1] \in {"ok", "eof"},
         parse' = "cks" => memory # <<>> /\ head'[2] = 0 /\ head'[1] = "eof"
  PROVE  Reading'
<1>1. PICK f \in Files : InOrder(f) /\ Goes(Stream, channel, 0, f, End(Len(memory)))
  BY DEF LInv, Reading
<1>2. InOrder(f)' /\ End(Len(memory))' = End(Len(memory))
  BY <1>1 DEF InOrder, End, IsData
<1>3. Goes(Stream', channel', 0, f, End(Len(memory)))
  BY <1>1
<1>4. Goes(Stream, channel, 0, f, End(Len(memory)))'
  BY <1>2, <1>3 DEF Goes, Clear, IsData, Mark
<1> QED
  BY <1>2, <1>4 DEF Reading

LEMMA Requested ==
  ASSUME LInv, phase # "idle"
  PROVE  Expected \in {"open", "read", "close"} /\ (Expected = "read" <=> phase = "read")
BY DEF LInv, HookTypes, Expected

LEMMA TakeMagicKeeps ==
  ASSUME LInv, phase # "idle", fifo # <<>>, TakeMagic(Head(fifo)),
         UNCHANGED <<down, server, disk, counts, clean, spoilt>>
  PROVE  LInv' /\ Onward
<1> DEFINE part == Head(fifo)
<1>1. parse = "magic" /\ part \in Part /\ Taken = <<>> /\ memory' = memory /\ head' = head
  BY NextOfStream DEF TakeMagic, Taken
<1>2. Size(part) \in Nat \ {0} /\ resync \in 1..RESYNC
  BY <1>1, SizeIsPositive DEF LInv, HookTypes
<1>3. CASE part = Magic
  <2>1. Parse("cmd") /\ fifo' = Tail(fifo)
    BY <1>3 DEF TakeMagic
  <2>2. parse' = "cmd" /\ UNCHANGED <<phase, resync, result, up>>
    BY <2>1 DEF Parse
  <2>3. Taken' = Append(Taken, part)
    BY <1>1, <1>3, <2>2 DEF Taken
  <2>4. Stream' = Stream => Reading'
    <3> SUFFICES ASSUME phase = "read", Stream' = Stream PROVE Reading'
      BY <2>2 DEF Reading
    <3> QED
      BY <1>1, <2>2, ReadingGoesOn DEF server
  <2>5. head' \in {"ok", "eof", "error"} \X Nat /\ memory' \in Seq(Part)
    BY <1>1 DEF LInv, HookTypes
  <2> QED
    BY <1>1, <2>1, <2>2, <2>3, <2>4, <2>5, AdvanceKeeps DEF Onward
<1>4. CASE part # Magic /\ Size(part) < resync
  <2>1. /\ resync' = resync - Size(part) /\ fifo' = Tail(fifo)
        /\ UNCHANGED <<phase, parse, result, up>>
    BY <1>4 DEF TakeMagic
  <2>2. Stream[1] = part /\ Stream # <<>> /\ phase # "read"
    <3>1. Stream[1] = part /\ Stream # <<>>
      BY <1>1, NextOfStream
    <3> QED
      BY <1>1, <1>4, <3>1 DEF LInv, Reading, Opens
  <2>3. Tail(fifo) \in Seq(Part) /\ Framed(Tail(fifo) \o down) /\ Chained(Tail(fifo) \o down, channel)
    BY NextOfStream, SuffixFramed, SuffixChained DEF LInv
  <2>4. resync' \in 1..RESYNC
    <3> DEFINE n == Size(part)
    <3>1. n \in Nat \ {0} /\ n < resync /\ resync' = resync - n /\ resync \in 1..16
      BY <1>2, <1>4, <2>1 DEF RESYNC
    <3> HIDE DEF n
    <3> QED
      BY <3>1 DEF RESYNC
  <2>5. HookTypes' /\ LineTypes' /\ Opening'
    BY <1>1, <2>1, <2>3, <2>4 DEF LInv, HookTypes, LineTypes, Opening
  <2>6. ServerTypes'
    BY DEF LInv, ServerTypes, server, disk
  <2>7. Stream' = Tail(fifo) \o down /\ channel' = channel
    <3>1. Taken' = <<>>
      BY <1>1, <2>1 DEF Taken
    <3>2. Tail(fifo) \o down \in Seq(Part)
      BY NextOfStream
    <3> QED
      BY <2>1, <3>1, <3>2 DEF Stream, server
  <2>8. Framed(Stream)' /\ Chained(Stream, channel)'
    <3>1. Framed(Stream') /\ Chained(Stream', channel')
      BY <2>3, <2>7
    <3> QED
      BY <3>1 DEF Framed, Linked, PayloadsFit, EndsInFrameEnd, Chained, ShortAreLast, FromBlock, FromOpen, Goes, Clear
  <2>9. Reading'
    BY <2>1, <2>2 DEF Reading
  <2>10. Finished'
    BY <1>1, <2>1 DEF LInv, Finished, Whole, End
  <2> QED
    BY <1>1, <2>1, <2>5, <2>6, <2>8, <2>9, <2>10 DEF LInv, Onward
<1>5. CASE part # Magic /\ ~(Size(part) < resync)
  <2>1. Fail /\ fifo' = Junk(Size(part) - resync) \o Tail(fifo)
    BY <1>5 DEF TakeMagic
  <2>2. Size(part) - resync \in Nat
    BY <1>2, <1>5
  <2> DEFINE w == Junk(Size(part) - resync) \o Tail(fifo)
  <2>3. w \in Seq(Part) /\ Framed(w \o down) /\ Chained(w \o down, channel)
    BY <2>2, Dropped
  <2>4. fifo' = w
    BY <2>1
  <2> HIDE DEF w
  <2> QED
    BY <1>1, <2>1, <2>3, <2>4, FailKeeps DEF Onward
<1> QED
  BY <1>3, <1>4, <1>5

\* A part that fails its test.
LEMMA MisreadKeeps ==
  ASSUME LInv, phase # "idle", fifo # <<>>, Misread(Head(fifo)), head' = head, memory' = memory,
         UNCHANGED <<down, server, disk, counts, clean, spoilt>>
  PROVE  LInv' /\ phase' # phase
<1> DEFINE n == Size(Head(fifo)) - 1  w == Junk(n) \o Tail(fifo)
<1>1. Fail /\ fifo' = w
  BY DEF Misread
<1>2. n \in Nat
  BY NextOfStream, SizeIsPositive
<1> HIDE DEF n
<1>3. w \in Seq(Part) /\ Framed(w \o down) /\ Chained(w \o down, channel)
  BY <1>2, Dropped
<1> HIDE DEF w
<1> QED
  BY <1>1, <1>3, FailKeeps

LEMMA TakeCmdKeeps ==
  ASSUME LInv, phase # "idle", fifo # <<>>, TakeCmd(Head(fifo)),
         UNCHANGED <<down, server, disk, counts, clean, spoilt>>
  PROVE  LInv' /\ Onward
<1> DEFINE part == Head(fifo)
<1>1. parse = "cmd" /\ head' = head /\ memory' = memory
  BY DEF TakeCmd
<1>2. CASE part = <<"cmd", Expected>>
  <2>1. parse' = "status" /\ UNCHANGED <<phase, resync, result, up>> /\ fifo' = Tail(fifo)
    BY <1>2 DEF TakeCmd, Parse
  <2>2. Taken' = Append(Taken, part)
    <3>1. Expected' = Expected
      BY <2>1 DEF Expected
    <3>2. Taken = <<Magic>> /\ Taken' = <<Magic, <<"cmd", Expected>> >>
      BY <1>1, <2>1, <3>1 DEF Taken
    <3> QED
      BY <1>2, <3>2
  <2>3. Stream' = Stream => Reading'
    <3> SUFFICES ASSUME phase = "read", Stream' = Stream PROVE Reading'
      BY <2>1 DEF Reading
    <3> QED
      BY <1>1, <2>1, ReadingGoesOn DEF server
  <2>4. head' \in {"ok", "eof", "error"} \X Nat /\ memory' \in Seq(Part)
    BY <1>1 DEF LInv, HookTypes
  <2> QED
    BY <1>1, <2>1, <2>2, <2>3, <2>4, AdvanceKeeps DEF Onward
<1>3. CASE part # <<"cmd", Expected>>
  BY <1>1, <1>3, MisreadKeeps DEF Onward, TakeCmd
<1> QED
  BY <1>2, <1>3

LEMMA TakeStatusKeeps ==
  ASSUME LInv, phase # "idle", fifo # <<>>, TakeStatus(Head(fifo)),
         UNCHANGED <<down, server, disk, counts, clean, spoilt>>
  PROVE  LInv' /\ Onward
<1> DEFINE part == Head(fifo)
<1>1. parse = "status" /\ memory' = memory /\ part \in Part
  BY NextOfStream DEF TakeStatus
<1>2. CASE part[1] = "status" /\ (phase = "read" => part[2] \in {"ok", "eof"})
  <2>1. /\ parse' = "len" /\ UNCHANGED <<phase, resync, result, up>> /\ fifo' = Tail(fifo)
        /\ head' = <<part[2], 0>>
    BY <1>2 DEF TakeStatus, Parse
  <2>2. part = <<"status", part[2]>> /\ part[2] \in {"ok", "eof", "error"}
    BY <1>1, <1>2, PlainParts, PartKinds DEF IsData
  <2>3. Taken' = Append(Taken, part)
    <3>1. Expected' = Expected /\ head'[1] = part[2]
      BY <2>1 DEF Expected
    <3>2. /\ Taken = <<Magic, <<"cmd", Expected>> >>
          /\ Taken' = <<Magic, <<"cmd", Expected>>, <<"status", part[2]>> >>
      BY <1>1, <2>1, <3>1 DEF Taken
    <3> QED
      BY <2>2, <3>2
  <2>4. Stream' = Stream => Reading'
    <3> SUFFICES ASSUME phase = "read", Stream' = Stream PROVE Reading'
      BY <2>1 DEF Reading
    <3> QED
      BY <1>1, <1>2, <2>1, ReadingGoesOn DEF server
  <2>5. head' \in {"ok", "eof", "error"} \X Nat /\ memory' \in Seq(Part)
    BY <1>1, <2>1, <2>2 DEF LInv, HookTypes
  <2> QED
    BY <1>1, <2>1, <2>3, <2>4, <2>5, AdvanceKeeps DEF Onward
<1>3. CASE ~(part[1] = "status" /\ (phase = "read" => part[2] \in {"ok", "eof"}))
  BY <1>1, <1>3, MisreadKeeps DEF Onward, TakeStatus
<1> QED
  BY <1>2, <1>3

LEMMA TakenInStream ==
  ASSUME LInv, NEW k \in 1..Len(Taken)
  PROVE  Stream[k] = Taken[k] /\ k \in 1..Len(Stream)
<1> DEFINE x == fifo \o down
<1>1. Taken \in Seq(Part) /\ x \in Seq(Part) /\ Stream = Taken \o x
  BY StreamType
<1> HIDE DEF x
<1> QED
  BY <1>1

LEMMA FourAndMore ==
  ASSUME NEW m, NEW a, NEW b, NEW c, NEW d
  PROVE  /\ <<m, a, b, c>> \o <<>> = <<m, a, b, c>>
         /\ <<m, a, b, c>> \o <<d>> = <<m, a, b, c, d>>
<1> DEFINE S == {m, a, b, c, d}  h == <<m, a, b, c>>
<1>1. h \in Seq(S) /\ <<d>> \in Seq(S) /\ <<>> \in Seq(S)
  OBVIOUS
<1>2. h \o <<>> = h
  <2> HIDE DEF h
  <2> QED
    BY <1>1
<1>3. h \o <<d>> = Append(h, d)
  <2> HIDE DEF h
  <2> QED
    BY <1>1
<1>4. Append(h, d) = <<m, a, b, c, d>>
  <2> DEFINE l == Append(h, d)  r == <<m, a, b, c, d>>
  <2>1. l \in Seq(S) /\ Len(l) = 5 /\ l[1] = m /\ l[2] = a /\ l[3] = b /\ l[4] = c /\ l[5] = d
    BY <1>1
  <2>2. r \in Seq(S) /\ Len(r) = 5 /\ r[1] = m /\ r[2] = a /\ r[3] = b /\ r[4] = c /\ r[5] = d
    OBVIOUS
  <2> HIDE DEF l, r, S
  <2>3. \A k \in 1..5 : l[k] = r[k]
    <3> SUFFICES ASSUME NEW k \in 1..5 PROVE l[k] = r[k]
      OBVIOUS
    <3>1. k = 1 \/ k = 2 \/ k = 3 \/ k = 4 \/ k = 5
      OBVIOUS
    <3> QED
      BY <2>1, <2>2, <3>1
  <2>4. l = r
    BY <2>1, <2>2, <2>3, SeqEqual
  <2> QED
    BY <2>4 DEF l, r
<1> QED
  BY <1>2, <1>3, <1>4

\* The parts of the answer that came before its payload.
LEMMA HeadOfStream ==
  ASSUME LInv, phase # "idle"
  PROVE  /\ parse \in {"status", "len", "payload", "cks"} =>
              Len(Taken) >= 2 /\ Stream[1] = Magic /\ Stream[2] = <<"cmd", Expected>>
         /\ parse \in {"len", "payload", "cks"} => Len(Taken) >= 3 /\ Stream[3] = <<"status", head[1]>>
         /\ parse \in {"payload", "cks"} => Len(Taken) >= 4 /\ Stream[4] = <<"len", head[2]>>
         /\ parse = "cks" /\ head[2] = 0 => Len(Taken) = 4
         /\ parse = "cks" /\ head[2] # 0 => Len(Taken) = 5 /\ Stream[5] = Payload[1]
<1> DEFINE a == <<"cmd", Expected>>  b == <<"status", head[1]>>  c == <<"len", head[2]>>
           d == IF phase = "read" THEN memory[Len(memory)] ELSE <<"text", head[2]>>
<1> DEFINE h == <<Magic, a, b, c>>
<1>1. parse = "cks" => IF head[2] = 0 THEN Taken = h ELSE Taken = <<Magic, a, b, c, d>> /\ Payload[1] = d
  <2> SUFFICES ASSUME parse = "cks"
               PROVE  IF head[2] = 0 THEN Taken = h ELSE Taken = <<Magic, a, b, c, d>> /\ Payload[1] = d
    OBVIOUS
  <2>1. Taken = h \o Payload
    BY DEF Taken
  <2>2. Payload = IF head[2] = 0 THEN <<>> ELSE <<d>>
    BY DEF Payload
  <2> HIDE DEF a, b, c, d
  <2>3. h \o <<>> = h /\ h \o <<d>> = <<Magic, a, b, c, d>>
    BY FourAndMore
  <2> QED
    BY <2>1, <2>2, <2>3
<1>2. /\ parse = "status" => Taken = <<Magic, a>>
      /\ parse = "len" => Taken = <<Magic, a, b>>
      /\ parse = "payload" => Taken = <<Magic, a, b, c>>
  BY DEF Taken
<1> HIDE DEF a, b, c, d
<1>3. \A k \in 1..Len(Taken) : Stream[k] = Taken[k]
  BY TakenInStream
<1>4. CASE parse = "cks" /\ head[2] # 0
  <2>0. Taken = <<Magic, a, b, c, d>> /\ Payload[1] = d
    BY <1>1, <1>4
  <2>1. Len(Taken) = 5 /\ \A k \in 1..5 : Stream[k] = <<Magic, a, b, c, d>>[k]
    BY <1>3, <2>0
  <2>2. Stream[1] = Magic /\ Stream[2] = a /\ Stream[3] = b /\ Stream[4] = c /\ Stream[5] = d
    BY <2>1
  <2> QED
    BY <1>4, <2>0, <2>1, <2>2 DEF a, b, c
<1>5. CASE parse = "payload" \/ (parse = "cks" /\ head[2] = 0)
  <2>1. Len(Taken) = 4 /\ \A k \in 1..4 : Stream[k] = <<Magic, a, b, c>>[k]
    BY <1>1, <1>2, <1>3, <1>5
  <2>2. Stream[1] = Magic /\ Stream[2] = a /\ Stream[3] = b /\ Stream[4] = c
    BY <2>1
  <2> QED
    BY <1>5, <2>1, <2>2 DEF a, b, c
<1>6. CASE parse = "len"
  <2>1. Len(Taken) = 3 /\ \A k \in 1..3 : Stream[k] = <<Magic, a, b>>[k]
    BY <1>2, <1>3, <1>6
  <2>2. Stream[1] = Magic /\ Stream[2] = a /\ Stream[3] = b
    BY <2>1
  <2> QED
    BY <1>6, <2>1, <2>2 DEF a, b
<1>7. CASE parse = "status"
  <2>1. Len(Taken) = 2 /\ \A k \in 1..2 : Stream[k] = <<Magic, a>>[k]
    BY <1>2, <1>3, <1>7
  <2>2. Stream[1] = Magic /\ Stream[2] = a
    BY <2>1
  <2> QED
    BY <1>7, <2>1, <2>2 DEF a
<1> QED
  BY <1>4, <1>5, <1>6, <1>7

LEMMA TakeLenKeeps ==
  ASSUME LInv, phase # "idle", fifo # <<>>, TakeLen(Head(fifo)),
         UNCHANGED <<down, server, disk, counts, clean, spoilt>>
  PROVE  LInv' /\ Onward
<1> DEFINE part == Head(fifo)
<1>1. parse = "len" /\ memory' = memory /\ part \in Part
  BY NextOfStream DEF TakeLen
<1>2. Taken = <<Magic, <<"cmd", Expected>>, <<"status", head[1]>> >> /\ Len(Taken) = 3
  BY <1>1 DEF Taken
<1>3. Stream[3] = <<"status", head[1]>> /\ Stream[4] = part /\ 4 \in 2..Len(Stream)
  BY <1>1, <1>2, HeadOfStream, NextOfStream
<1>4. part[1] = "len" /\ part[2] = 0 => head[1] = "eof"
  <2>1. Stream[3][1] = "junk" \/ Follows(Stream[3], Stream[4])
    BY <1>3 DEF LInv, Framed, Linked
  <2> QED
    BY <1>3, <2>1 DEF Follows
<1>5. CASE part[1] = "len" /\ ~(phase = "read" /\ part[2] = 0 /\ memory = <<>>)
  <2>1. /\ parse' = (IF part[2] = 0 THEN "cks" ELSE "payload")
        /\ UNCHANGED <<phase, resync, result, up>> /\ fifo' = Tail(fifo)
        /\ head' = <<head[1], part[2]>>
    BY <1>5 DEF TakeLen, Parse
  <2>2. part = <<"len", part[2]>> /\ part[2] \in Nat
    BY <1>1, <1>5, PlainParts, PartKinds DEF IsData
  <2>3. Taken' = Append(Taken, part)
    <3>1. Expected' = Expected /\ head'[1] = head[1] /\ head'[2] = part[2]
      BY <2>1 DEF Expected
    <3> DEFINE a == <<"cmd", Expected>>  b == <<"status", head[1]>>  c == <<"len", part[2]>>
    <3>2. Payload' = <<>> \/ parse' = "payload"
      BY <2>1, <3>1 DEF Payload
    <3>3. Taken' = <<Magic, a, b, c>> \/ Taken' = <<Magic, a, b, c>> \o <<>>
      BY <1>1, <2>1, <3>1, <3>2 DEF Taken
    <3>4. Taken = <<Magic, a, b>> /\ part = c
      BY <1>2, <2>2
    <3> HIDE DEF a, b, c
    <3> QED
      BY <3>3, <3>4
  <2>4. Stream' = Stream => Reading'
    <3> SUFFICES ASSUME phase = "read", Stream' = Stream PROVE Reading'
      BY <2>1 DEF Reading
    <3>1. head[1] \in {"ok", "eof"}
      BY <1>1 DEF LInv, Reading
    <3> QED
      BY <1>1, <1>4, <1>5, <2>1, <3>1, ReadingGoesOn DEF server
  <2>5. head' \in {"ok", "eof", "error"} \X Nat /\ memory' \in Seq(Part)
    BY <1>1, <2>1, <2>2 DEF LInv, HookTypes
  <2> QED
    BY <1>1, <2>1, <2>3, <2>4, <2>5, AdvanceKeeps DEF Onward
<1>6. CASE ~(part[1] = "len" /\ ~(phase = "read" /\ part[2] = 0 /\ memory = <<>>))
  BY <1>1, <1>6, MisreadKeeps DEF Onward, TakeLen
<1> QED
  BY <1>5, <1>6

\* In an answer to READ the hook finds the block that goes on where its memory ends.
LEMMA BlockComesNext ==
  ASSUME LInv, phase = "read", parse = "payload", fifo # <<>>,
         Head(fifo)[1] \in {"text", "data"}, Size(Head(fifo)) = head[2],
         NEW f \in Files, Goes(Stream, channel, 0, f, End(Len(memory)))
  PROVE  /\ Head(fifo)[1] = "data" /\ Head(fifo)[3] = f /\ Head(fifo)[4] = End(Len(memory))
         /\ Head(fifo)[2] = head[2] /\ head[2] # 0
<1> DEFINE part == Head(fifo)  s == Stream
<1>1. part \in Part /\ Len(Taken) = 4 /\ s[5] = part /\ 5 \in 1..Len(s)
  <2>1. Len(Taken) = 4
    BY DEF Taken
  <2> QED
    BY <2>1, NextOfStream
<1>2. /\ s[1] = Magic /\ s[2] = <<"cmd", "read">> /\ s[3] = <<"status", head[1]>>
      /\ s[4] = <<"len", head[2]>>
  BY HeadOfStream DEF Expected
<1>3. s \in Seq(Part) /\ Linked(s) /\ PayloadsFit(s) /\ head[1] \in {"ok", "eof"} /\ head[2] \in Nat
  BY DEF LInv, Framed, Reading, HookTypes
<1> HIDE DEF s
<1>4. Len(s) \in Nat /\ Len(s) >= 5
  BY <1>1, <1>3
<1>5. head[2] # 0 /\ part[2] = head[2]
  BY <1>1, SizeIsPositive DEF Size
<1>6. head[1] = "ok"
  <2>1. s[3][1] = "junk" \/ Follows(s[3], s[4])
    BY <1>4, <1>3 DEF Linked
  <2> QED
    BY <1>2, <1>3, <1>5, <2>1 DEF Follows
<1>7. IsData(part)
  <2>1. Filled(s[5]) /\ s[4][1] = "len" /\ s[2][1] = "cmd"
    BY <1>1, <1>2 DEF Filled
  <2>2. IsData(s[5]) <=> (s[2] = <<"cmd", "read">> /\ s[3] = Ok)
    BY <1>3, <1>4, <2>1 DEF PayloadsFit
  <2> QED
    BY <1>1, <1>2, <1>6, <2>2 DEF Ok
<1>8. Clear(s, 0, 5)
  <2> SUFFICES ASSUME NEW n \in 1..4 PROVE ~Mark(s[n])
    BY <1>4 DEF Clear
  <2>1. n = 1 \/ n = 2 \/ n = 3 \/ n = 4
    OBVIOUS
  <2>2. s[1][1] = "magic" /\ s[2] = <<"cmd", "read">> /\ s[3][1] = "status" /\ s[4][1] = "len"
    BY <1>2 DEF Magic
  <2> QED
    BY <2>1, <2>2 DEF Mark, IsData, Open
<1>9. part[3] = f /\ part[4] = End(Len(memory))
  <2>1. IsData(s[5]) => s[5][3] = f /\ s[5][4] = End(Len(memory))
    BY <1>4, <1>8 DEF Goes, s
  <2> QED
    BY <1>1, <1>7, <2>1
<1> QED
  BY <1>5, <1>7, <1>9 DEF IsData

LEMMA TakePayloadKeeps ==
  ASSUME LInv, phase # "idle", fifo # <<>>, TakePayload(Head(fifo)),
         UNCHANGED <<down, server, disk, counts, clean, spoilt>>
  PROVE  LInv' /\ Onward
<1> DEFINE part == Head(fifo)
<1>1. parse = "payload" /\ head' = head /\ part \in Part
  BY NextOfStream DEF TakePayload
<1>2. Taken = <<Magic, <<"cmd", Expected>>, <<"status", head[1]>>, <<"len", head[2]>> >>
      /\ Len(Taken) = 4
  BY <1>1 DEF Taken
<1>3. CASE part[1] \in {"text", "data"} /\ Size(part) = head[2]
  <2>1. /\ parse' = "cks" /\ UNCHANGED <<phase, resync, result, up>> /\ fifo' = Tail(fifo)
        /\ memory' = IF phase = "read" THEN Append(memory, part) ELSE memory
    BY <1>3 DEF TakePayload, Parse
  <2>2. part[2] = head[2] /\ head[2] # 0
    BY <1>1, <1>3, SizeIsPositive DEF Size
  <2>3. memory \in Seq(Part)
    BY DEF LInv, HookTypes
  <2>4. phase = "read" =>
          Len(memory') = Len(memory) + 1 /\ memory'[Len(memory) + 1] = part /\ memory' # <<>>
    BY <1>1, <2>1, <2>3
  <2>5. phase # "read" => part = <<"text", head[2]>>
    <3> SUFFICES ASSUME phase # "read" PROVE part = <<"text", head[2]>>
      OBVIOUS
    <3> DEFINE s == Stream
    <3>1. s[5] = part /\ 5 \in 1..Len(s)
      BY <1>2, NextOfStream
    <3>2. s[2] = <<"cmd", Expected>> /\ s[4] = <<"len", head[2]>> /\ Expected # "read"
      BY <1>1, HeadOfStream, Requested
    <3>3. PayloadsFit(s) /\ Len(s) \in Nat
      BY DEF LInv, Framed
    <3> HIDE DEF s
    <3>4. Filled(s[5]) /\ s[4][1] = "len" /\ s[2][1] = "cmd" /\ s[2] # <<"cmd", "read">>
      BY <1>3, <3>1, <3>2 DEF Filled
    <3>5. ~IsData(s[5])
      BY <3>1, <3>3, <3>4 DEF PayloadsFit
    <3>6. part = <<part[1], part[2]>> /\ part[1] = "text"
      BY <1>1, <1>3, <3>1, <3>5, PlainParts DEF IsData
    <3> QED
      BY <2>2, <3>6
  <2>6. Payload' = <<part>>
    <3>1. phase = "read" => memory'[Len(memory')] = part
      BY <2>4
    <3>2. head'[2] # 0 /\ phase' = phase
      BY <1>1, <2>1, <2>2
    <3>3. CASE phase = "read"
      BY <3>1, <3>2, <3>3 DEF Payload
    <3>4. CASE phase # "read"
      BY <1>1, <2>5, <3>2, <3>4 DEF Payload
    <3> QED
      BY <3>3, <3>4
  <2>7. Taken' = Append(Taken, part)
    <3>1. Expected' = Expected
      BY <2>1 DEF Expected
    <3> DEFINE a == <<"cmd", Expected>>  b == <<"status", head[1]>>  c == <<"len", head[2]>>
    <3>2. Taken' = <<Magic, a, b, c>> \o <<part>>
      BY <1>1, <2>1, <2>6, <3>1 DEF Taken
    <3>3. Taken = <<Magic, a, b, c>>
      BY <1>2
    <3> HIDE DEF a, b, c
    <3>4. Append(<<Magic, a, b, c>>, part) = <<Magic, a, b, c>> \o <<part>>
      BY FourAndMore
    <3> QED
      BY <3>2, <3>3, <3>4
  <2>8. Stream' = Stream => Reading'
    <3> SUFFICES ASSUME phase = "read", Stream' = Stream PROVE Reading'
      BY <2>1 DEF Reading
    <3>1. PICK f \in Files : InOrder(f) /\ Goes(Stream, channel, 0, f, End(Len(memory)))
      BY <1>1 DEF LInv, Reading
    <3>2. part[1] = "data" /\ part[3] = f /\ part[4] = End(Len(memory))
      BY <1>1, <1>3, <3>1, BlockComesNext
    <3>3. Len(memory) \in Nat /\ \A k \in 1..Len(memory) : memory'[k] = memory[k]
      BY <1>1, <2>1, <2>3
    <3>4. \A k \in 0..Len(memory) : End(k)' = End(k)
      BY <3>3 DEF End
    <3>5. InOrder(f)'
      <4> SUFFICES ASSUME NEW k \in 1..Len(memory')
                   PROVE  IsData(memory'[k]) /\ memory'[k][3] = f /\ memory'[k][4] = End(k - 1)'
        BY DEF InOrder, IsData
      <4>1. CASE k = Len(memory) + 1
        BY <2>4, <3>2, <3>3, <3>4, <4>1 DEF IsData
      <4>2. CASE k # Len(memory) + 1
        <5>1. k \in 1..Len(memory) /\ k - 1 \in 0..Len(memory)
          BY <2>4, <3>3, <4>2
        <5> QED
          BY <3>1, <3>3, <3>4, <5>1 DEF InOrder
      <4> QED
        BY <4>1, <4>2
    <3>6. head[1] \in {"ok", "eof"}
      BY <1>1 DEF LInv, Reading
    <3>7. memory'[Len(memory')][2] = head'[2] /\ memory' # <<>> /\ head'[2] # 0
      BY <1>1, <2>2, <2>4, <3>3
    <3> QED
      BY <1>1, <2>1, <3>5, <3>6, <3>7 DEF Reading
  <2>9. head' \in {"ok", "eof", "error"} \X Nat /\ memory' \in Seq(Part)
    BY <1>1, <2>1, <2>3 DEF LInv, HookTypes
  <2> QED
    BY <1>1, <2>1, <2>7, <2>8, <2>9, AdvanceKeeps DEF Onward
<1>4. CASE ~(part[1] \in {"text", "data"} /\ Size(part) = head[2])
  BY <1>1, <1>4, MisreadKeeps DEF Onward, TakePayload
<1> QED
  BY <1>3, <1>4

\* An OPEN or a READ after a good answer: memory is in order, the stream goes on behind it.
LEMMA AsksKeeps ==
  ASSUME LInv, phase \in {"open", "read"}, fifo # <<>>, parse = "cks", Head(fifo) = Cks,
         Ask("read"), phase' = "read", result' = result, fifo' = Tail(fifo),
         UNCHANGED <<head, memory, down, server, disk>>,
         NEW f \in Files, InOrder(f),
         Goes(Tail(fifo) \o down, channel, 0, f, End(Len(memory)))
  PROVE  LInv'
<1> DEFINE w == Tail(fifo) \o down
<1>1. w \in Seq(Part) /\ Suffix(Stream, w, Len(Taken) + 1) /\ Stream[Len(Taken) + 1] = Cks
  BY NextOfStream
<1>2. Framed(w) /\ Chained(w, channel)
  BY <1>1, SuffixFramed, SuffixChained DEF LInv
<1>3. parse' = "magic" /\ resync' = RESYNC /\ up' = Append(up, "read")
  BY DEF Ask
<1>4. HookTypes'
  BY <1>3 DEF LInv, HookTypes, RESYNC
<1>5. LineTypes' /\ ServerTypes' /\ Opening'
  <2>1. up' \in Seq({"open", "read", "close"})
    BY <1>3 DEF LInv, LineTypes
  <2>2. Tail(fifo) \in Seq(Part)
    BY NextOfStream
  <2> QED
    BY <2>1, <2>2 DEF LInv, LineTypes, ServerTypes, Opening, server, disk
<1>6. Stream' = w /\ channel' = channel
  <2>1. Taken' = <<>>
    BY <1>3 DEF Taken
  <2> QED
    BY <1>1, <2>1 DEF Stream, server
<1>7. Framed(Stream)' /\ Chained(Stream, channel)'
  <2>1. Framed(Stream') /\ Chained(Stream', channel')
    BY <1>2, <1>6
  <2> QED
    BY <2>1 DEF Framed, Linked, PayloadsFit, EndsInFrameEnd, Chained, ShortAreLast, FromBlock, FromOpen, Goes, Clear
<1>8. Opens(w)
  <2> SUFFICES ASSUME w # <<>> PROVE w[1] = Magic
    BY DEF Opens
  <2> DEFINE n == Len(Taken) + 1  s == Stream
  <2>1. Len(w) \in Nat /\ Len(w) # 0
    BY <1>1
  <2>2. n \in Nat /\ Len(s) \in Nat
    BY StreamType
  <2>3. w[1] = s[n + 1] /\ n + 1 \in 2..Len(s)
    <3> HIDE DEF w, n, s
    <3>1. Suffix(s, w, n) /\ n >= 1
      BY <1>1, <2>2, StreamType DEF n, s
    <3> QED
      BY <2>1, <2>2, <3>1 DEF Suffix
  <2>4. s[n] = Cks /\ Framed(s)
    BY <1>1 DEF LInv
  <2> HIDE DEF n, s, w
  <2>5. s[(n + 1) - 1] = Cks
    BY <2>2, <2>4
  <2> QED
    BY <2>3, <2>4, <2>5, MagicFollows
<1>9. Reading'
  <2>1. InOrder(f)' /\ End(Len(memory))' = End(Len(memory))
    BY DEF InOrder, End, IsData
  <2>2. Goes(Stream', channel', 0, f, End(Len(memory)))
    BY <1>6
  <2>3. Goes(Stream, channel, 0, f, End(Len(memory)))'
    BY <2>1, <2>2 DEF Goes, Clear, IsData, Mark
  <2>4. Opens(Stream)'
    BY <1>6, <1>8 DEF Opens
  <2> QED
    BY <1>3, <2>1, <2>3, <2>4 DEF Reading
<1>10. Finished'
  <2>1. result = "none"
    BY DEF LInv, Opening
  <2> QED
    BY <2>1 DEF Finished
<1> QED
  BY <1>4, <1>5, <1>7, <1>9, <1>10 DEF LInv

\* The rest of a stream behind a whole answer goes on where the answer does.
LEMMA GoesBehind ==
  ASSUME LInv, phase # "idle", fifo # <<>>, parse = "cks", Head(fifo) = Cks,
         NEW f, NEW pos, NEW i \in {2, 5}, i = 2 => phase # "read", i = 5 => head[2] # 0,
         Goes(Stream, channel, i, f, pos)
  PROVE  Goes(Tail(fifo) \o down, channel, 0, f, pos)
<1> DEFINE w == Tail(fifo) \o down  n == Len(Taken) + 1  s == Stream
<1>1. Suffix(s, w, n) /\ s[n] = Cks /\ s \in Seq(Part)
  BY NextOfStream, StreamType
<1>2. head[1] \in {"ok", "eof", "error"}
  BY DEF LInv, HookTypes
<1>3. s[3] = <<"status", head[1]>> /\ s[4] = <<"len", head[2]>>
  BY HeadOfStream
<1>4. /\ head[2] = 0 => n = 5
      /\ head[2] # 0 => n = 6 /\ (phase # "read" => s[5] = <<"text", head[2]>>)
  <2>1. /\ head[2] = 0 => Len(Taken) = 4
        /\ head[2] # 0 => Len(Taken) = 5 /\ s[5] = Payload[1]
    BY HeadOfStream
  <2>2. head[2] # 0 /\ phase # "read" => Payload[1] = <<"text", head[2]>>
    BY DEF Payload
  <2>3. head[2] # 0 /\ phase # "read" => s[5] = <<"text", head[2]>>
    BY <2>1, <2>2
  <2>4. (head[2] = 0 => n = 5) /\ (head[2] # 0 => n = 6)
    <3> DEFINE l == Len(Taken)
    <3>1. (head[2] = 0 => l = 4) /\ (head[2] # 0 => l = 5)
      BY <2>1
    <3> HIDE DEF l
    <3>2. (head[2] = 0 => l + 1 = 5) /\ (head[2] # 0 => l + 1 = 6)
      BY <3>1
    <3> QED
      BY <3>2 DEF l
  <2> HIDE DEF s, n
  <2> QED
    BY <2>3, <2>4, Zenon
<1>5. n \in 0..Len(s) /\ Len(s) \in Nat
  BY <1>1 DEF Suffix
<1> HIDE DEF s, n, w
<1>6. \A m \in 1..n : i < m => ~Mark(s[m])
  <2> SUFFICES ASSUME NEW m \in 1..n, i < m PROVE ~Mark(s[m])
    OBVIOUS
  <2>1. m = 3 \/ m = 4 \/ m = 5 \/ m = 6
    BY <1>4
  <2>2. CASE m = n
    BY <1>1, <2>2 DEF Mark, IsData, Open, Cks
  <2>3. CASE m # n
    <3>1. m = 3 \/ m = 4 \/ (m = 5 /\ head[2] # 0 /\ i = 2)
      BY <1>4, <2>1, <2>3
    <3> QED
      BY <1>3, <1>4, <3>1 DEF Mark, IsData, Open
  <2> QED
    BY <2>2, <2>3
<1>7. i \in 0..Len(s) /\ ~(i > n)
  BY <1>4, <1>5
<1>8. Goes(w, channel, IF i > n THEN i - n ELSE 0, f, pos)
  <2>1. Goes(s, channel, i, f, pos)
    BY DEF s
  <2> QED
    BY <1>1, <1>6, <1>7, <2>1, SuffixGoes
<1> QED
  BY <1>7, <1>8 DEF w

LEMMA TakeCksKeeps ==
  ASSUME LInv, phase # "idle", fifo # <<>>, TakeCks(Head(fifo)),
         UNCHANGED <<down, server, disk, counts, clean, spoilt>>
  PROVE  LInv' /\ Onward
<1> DEFINE part == Head(fifo)  s == Stream
<1>1. parse = "cks" /\ head' = head /\ memory' = memory
  BY DEF TakeCks
<1>2. CASE part # Cks
  BY <1>1, <1>2, MisreadKeeps DEF Onward, TakeCks
<1>3. CASE part = Cks /\ Succeed /\ fifo' = Tail(fifo)
  <2>1. /\ s[1] = Magic /\ s[2] = <<"cmd", Expected>> /\ s[3] = <<"status", head[1]>>
        /\ s[4] = <<"len", head[2]>> /\ Len(Taken) >= 4
        /\ head[2] # 0 => Len(Taken) = 5 /\ s[5] = Payload[1]
    BY <1>1, HeadOfStream
  <2>2. Framed(s) /\ Chained(s, channel) /\ Len(s) \in Nat /\ Len(Taken) + 1 \in 1..Len(s)
    BY NextOfStream DEF LInv, Framed
  <2>3. head[2] \in Nat /\ head[1] \in {"ok", "eof", "error"} /\ Len(Taken) \in Nat
    BY StreamType DEF LInv, HookTypes
  <2>4. CASE Fail
    <3> DEFINE w == Tail(fifo)
    <3>1. w \in Seq(Part) /\ Framed(w \o down) /\ Chained(w \o down, channel)
      BY NextOfStream, SuffixFramed, SuffixChained DEF LInv
    <3>2. fifo' = w
      BY <1>3
    <3> HIDE DEF w
    <3> QED
      BY <1>1, <2>4, <3>1, <3>2, FailKeeps DEF Onward
  <2>5. CASE phase = "open" /\ head[1] = "ok"
    <3>1. phase' = "read" /\ Ask("read") /\ result' = result
      BY <1>3, <2>5 DEF Succeed
    <3>2. s[2] = Open /\ s[3] = Ok
      BY <2>1, <2>5 DEF Open, Ok, Expected
    <3>3. PICK f \in Files : Goes(s, channel, 2, f, 0)
      <4> HIDE DEF s
      <4>1. 2 \in 1..Len(s) /\ 2 < Len(s)
        BY <2>1, <2>2, <2>3
      <4>2. FromOpen(s, channel, 2)
        BY <2>2, <4>1 DEF Chained
      <4> QED
        BY <3>2, <4>1, <4>2 DEF FromOpen
    <3>4. memory = <<>>
      BY <2>5 DEF LInv, Opening
    <3>5. InOrder(f) /\ End(Len(memory)) = 0
      BY <3>4 DEF InOrder, End
    <3>6. Goes(Tail(fifo) \o down, channel, 0, f, 0)
      BY <1>1, <1>3, <2>5, <3>3, GoesBehind
    <3> QED
      BY <1>1, <1>3, <2>5, <3>1, <3>5, <3>6, AsksKeeps DEF Onward, Ask
  <2>6. ASSUME phase = "read", head[2] # 0
        PROVE  /\ memory \in Seq(Part) /\ memory # <<>> /\ Len(memory) \in Nat \ {0}
               /\ memory[Len(memory)][2] = head[2] /\ s[5] = memory[Len(memory)] /\ 5 \in 1..Len(s)
    <3>1. Payload[1] = memory[Len(memory)]
      BY <2>6 DEF Payload
    <3>2. memory \in Seq(Part) /\ memory # <<>> /\ memory[Len(memory)][2] = head[2]
      BY <1>1, <2>6 DEF LInv, HookTypes, Reading
    <3>3. Len(memory) \in Nat \ {0}
      BY <3>2
    <3> QED
      BY <2>1, <2>2, <2>3, <2>6, <3>1, <3>2, <3>3
  <2>7. phase = "read" => \E f \in Files :
          /\ InOrder(f)
          /\ head[2] = 0 => Goes(s, channel, 0, f, End(Len(memory)))
    BY <1>1 DEF LInv, Reading
  <2>8. CASE phase = "read" /\ head[2] = CHUNK_SIZE
    <3>1. phase' = "read" /\ Ask("read") /\ result' = result
      BY <1>3, <2>8 DEF Succeed, CHUNK_SIZE
    <3>2. head[2] # 0
      BY <2>8 DEF CHUNK_SIZE
    <3>3. PICK f \in Files : InOrder(f)
      BY <2>7, <2>8
    <3> DEFINE m == Len(memory)
    <3>4. IsData(memory[m]) /\ memory[m][3] = f /\ End(m) = memory[m][4] + memory[m][2]
      BY <2>6, <2>8, <3>2, <3>3 DEF InOrder, End
    <3>5. Goes(s, channel, 5, f, End(m))
      <4>1. s[5] = memory[m] /\ 5 \in 1..Len(s)
        BY <2>6, <2>8, <3>2
      <4> HIDE DEF s, m
      <4>2. FromBlock(s, channel, 5)
        BY <2>2, <4>1 DEF Chained
      <4> QED
        BY <3>4, <4>1, <4>2 DEF FromBlock
    <3>6. Goes(Tail(fifo) \o down, channel, 0, f, End(m))
      BY <1>1, <1>3, <2>8, <3>2, <3>5, GoesBehind
    <3> QED
      BY <1>1, <1>3, <2>8, <3>1, <3>3, <3>6, AsksKeeps DEF Onward, Ask
  <2>9. CASE phase = "read" /\ head[2] < CHUNK_SIZE
    <3>1. phase' = "closing" /\ Ask("close") /\ result' = result
      BY <1>3, <2>3, <2>9 DEF Succeed, CHUNK_SIZE
    <3>2. PICK f \in Files : InOrder(f) /\ (head[2] = 0 => Goes(s, channel, 0, f, End(Len(memory))))
      BY <2>7, <2>9
    <3>3. End(Len(memory)) = FileLen[f[1]]
      <4>1. CASE head[2] = 0
        <5>1. head[1] = "eof"
          BY <1>1, <2>9, <4>1 DEF LInv, Reading
        <5>2. s[1][1] = "magic" /\ s[2] = <<"cmd", "read">> /\ s[3] = Eof
          BY <2>1, <2>9, <5>1 DEF Magic, Expected, Eof
        <5> HIDE DEF s
        <5>3. 3 \in 1..Len(s) /\ Clear(s, 0, 3)
          <6>1. 3 \in 1..Len(s)
            BY <2>1, <2>2, <2>3
          <6> SUFFICES ASSUME NEW k \in 1..2 PROVE ~Mark(s[k])
            BY <2>2, <6>1 DEF Clear
          <6>2. k = 1 \/ k = 2
            OBVIOUS
          <6> QED
            BY <5>2, <6>2 DEF Mark, IsData, Open
        <5> QED
          BY <3>2, <4>1, <5>2, <5>3 DEF Goes
      <4>2. CASE head[2] # 0
        <5> DEFINE m == Len(memory)
        <5>1. IsData(memory[m]) /\ memory[m][3] = f /\ End(m) = memory[m][4] + memory[m][2]
          BY <2>6, <2>9, <3>2, <4>2 DEF InOrder, End
        <5>2. s[5] = memory[m] /\ 5 \in 1..Len(s) /\ memory[m][2] < CHUNK_SIZE
          BY <2>6, <2>9, <4>2
        <5> HIDE DEF s, m
        <5>3. ShortIsLast(s[5])
          BY <2>2, <5>1, <5>2 DEF Chained, ShortAreLast
        <5> QED
          BY <5>1, <5>2, <5>3 DEF ShortIsLast, m
      <4> QED
        BY <4>1, <4>2
    <3>4. Finished'
      <4>1. Whole(f)
        BY <3>2, <3>3 DEF Whole, InOrder, IsData
      <4>2. Whole(f)'
        BY <1>1, <4>1 DEF Whole, End
      <4> QED
        BY <4>2 DEF Finished
    <3> DEFINE w == Tail(fifo) \o down
    <3>5. w \in Seq(Part) /\ Framed(w) /\ Chained(w, channel) /\ Tail(fifo) \in Seq(Part)
      BY NextOfStream, SuffixFramed, SuffixChained DEF LInv
    <3>6. parse' = "magic" /\ resync' = RESYNC /\ up' = Append(up, "close")
      BY <3>1 DEF Ask
    <3>7. HookTypes'
      BY <1>1, <3>1, <3>6 DEF LInv, HookTypes, RESYNC
    <3>8. LineTypes' /\ ServerTypes' /\ Opening'
      <4>1. up' \in Seq({"open", "read", "close"})
        BY <3>6 DEF LInv, LineTypes
      <4> QED
        BY <1>3, <2>9, <3>1, <3>5, <4>1 DEF LInv, LineTypes, ServerTypes, Opening, server, disk
    <3>9. Stream' = w /\ channel' = channel
      <4>1. Taken' = <<>>
        BY <3>6 DEF Taken
      <4> QED
        BY <1>3, <3>5, <4>1 DEF Stream, server
    <3>10. Framed(Stream)' /\ Chained(Stream, channel)'
      <4>1. Framed(Stream') /\ Chained(Stream', channel')
        BY <3>5, <3>9
      <4> QED
        BY <4>1 DEF Framed, Linked, PayloadsFit, EndsInFrameEnd, Chained, ShortAreLast, FromBlock, FromOpen, Goes, Clear
    <3>11. Reading'
      BY <3>1 DEF Reading
    <3> QED
      BY <3>4, <3>6, <3>7, <3>8, <3>10, <3>11 DEF LInv, Onward
  <2> QED
    <3>1. CASE phase = "read"
      BY <1>3, <2>3, <2>4, <2>8, <2>9, <3>1 DEF Succeed, CHUNK_SIZE
    <3>2. CASE phase # "read"
      BY <1>3, <2>4, <2>5, <3>2 DEF Succeed
    <3> QED
      BY <3>1, <3>2
<1> QED
  BY <1>2, <1>3 DEF TakeCks

LEMMA ReceiveKeeps ==
  ASSUME LInv, Receive
  PROVE  LInv' /\ Onward
<1> DEFINE part == Head(fifo)
<1>1. phase # "idle" /\ fifo # <<>> /\ UNCHANGED <<down, server, disk, counts, clean, spoilt>>
  BY DEF Receive
<1>2. TakeMagic(part) \/ TakeCmd(part) \/ TakeStatus(part)
      \/ TakeLen(part) \/ TakePayload(part) \/ TakeCks(part)
  BY DEF Receive
<1> QED
  BY <1>1, <1>2, TakeMagicKeeps, TakeCmdKeeps, TakeStatusKeeps, TakeLenKeeps, TakePayloadKeeps, TakeCksKeeps

LEMMA TimeOutKeeps ==
  ASSUME LInv, TimeOut
  PROVE  LInv'
<1>1. /\ phase # "idle" /\ Fail /\ down = <<>> /\ fifo' = <<>> /\ down' = down /\ head' = head
      /\ memory' = memory /\ server' = server /\ disk' = disk
  BY DEF TimeOut, Quiet
<1>2. Framed(<<>>) /\ Chained(<<>>, channel) /\ <<>> \in Seq(Part)
  BY EmptyStream
<1>3. Framed(<<>> \o down) /\ Chained(<<>> \o down, channel)
  BY <1>1, <1>2
<1> QED
  BY <1>1, <1>2, <1>3, FailKeeps

-----------------------------------------------------------------------------
(* The steps of the others: what the hook has taken stays. *)

LEMMA UnmovedKeeps ==
  ASSUME LInv, hook' = hook, LineTypes', ServerTypes', Framed(Stream'), Chained(Stream', channel'),
         \A f, pos : Goes(Stream, channel, 0, f, pos) => Goes(Stream', channel', 0, f, pos),
         Opens(Stream) => Opens(Stream')
  PROVE  LInv'
<1>1. HookTypes' /\ Opening'
  BY DEF LInv, HookTypes, Opening, hook
<1>2. Framed(Stream)' /\ Chained(Stream, channel)'
  BY DEF Framed, Linked, PayloadsFit, EndsInFrameEnd, Chained, ShortAreLast, FromBlock, FromOpen, Goes, Clear
<1>3. Reading'
  <2> SUFFICES ASSUME phase = "read" PROVE Reading'
    BY DEF Reading, hook
  <2>1. PICK f \in Files :
          /\ InOrder(f)
          /\ parse = "magic" => Opens(Stream)
          /\ parse \in {"len", "payload", "cks"} => head[1] \in {"ok", "eof"}
          /\ parse # "cks" \/ head[2] = 0 => Goes(Stream, channel, 0, f, End(Len(memory)))
          /\ parse = "cks" =>
               /\ memory # <<>> /\ (head[2] = 0 => head[1] = "eof")
               /\ head[2] # 0 => memory[Len(memory)][2] = head[2]
    BY DEF LInv, Reading
  <2>2. InOrder(f)' /\ End(Len(memory))' = End(Len(memory))
    BY <2>1 DEF InOrder, End, IsData, hook
  <2>3. parse # "cks" \/ head[2] = 0 => Goes(Stream, channel, 0, f, End(Len(memory)))'
    <3> SUFFICES ASSUME parse # "cks" \/ head[2] = 0
                 PROVE  Goes(Stream, channel, 0, f, End(Len(memory)))'
      OBVIOUS
    <3>1. Goes(Stream', channel', 0, f, End(Len(memory)))
      BY <2>1
    <3> QED
      BY <2>2, <3>1 DEF Goes, Clear, IsData, Mark
  <2>4. parse = "magic" => Opens(Stream)'
    BY <2>1 DEF Opens
  <2>5. UNCHANGED <<phase, parse, head, memory>>
    BY DEF hook
  <2> QED
    BY <2>1, <2>2, <2>3, <2>4, <2>5 DEF Reading
<1>4. Finished'
  BY DEF LInv, Finished, Whole, End, hook
<1> QED
  BY <1>1, <1>2, <1>3, <1>4 DEF LInv

LEMMA TakenStays ==
  ASSUME hook' = hook
  PROVE  Taken' = Taken
BY DEF hook, Taken, Payload, Expected

\* Steps that leave the stream and the channel alone.
LEMMA QuietKeeps ==
  ASSUME LInv, hook' = hook, LineTypes', ServerTypes', fifo' \o down' = fifo \o down,
         channel' = channel
  PROVE  LInv' /\ Stream' = Stream
<1>1. Stream' = Stream
  BY TakenStays DEF Stream
<1>2. Framed(Stream') /\ Chained(Stream', channel')
  BY <1>1 DEF LInv
<1> QED
  BY <1>1, <1>2, UnmovedKeeps

LEMMA LoadKeeps ==
  ASSUME LInv, Load
  PROVE  LInv'
<1>1. /\ phase = "idle" /\ phase' = "open" /\ memory' = <<>> /\ result' = "none"
      /\ up' = Append(up, "open") /\ parse' = "magic" /\ resync' = RESYNC
      /\ UNCHANGED <<head, down, fifo, server, disk>>
  BY DEF Load, Ask
<1>2. HookTypes' /\ Opening'
  BY <1>1 DEF LInv, HookTypes, Opening, RESYNC
<1>3. LineTypes' /\ ServerTypes'
  BY <1>1 DEF LInv, LineTypes, ServerTypes, server, disk
<1>4. Stream' = Stream /\ channel' = channel
  <2>1. Taken = <<>> /\ Taken' = <<>>
    BY <1>1 DEF Taken
  <2> QED
    BY <1>1, <2>1 DEF Stream, server
<1>5. Framed(Stream)' /\ Chained(Stream, channel)'
  <2>1. Framed(Stream') /\ Chained(Stream', channel')
    BY <1>4 DEF LInv
  <2> QED
    BY <2>1 DEF Framed, Linked, PayloadsFit, EndsInFrameEnd, Chained, ShortAreLast, FromBlock, FromOpen, Goes, Clear
<1>6. Reading' /\ Finished'
  BY <1>1 DEF Reading, Finished
<1> QED
  BY <1>2, <1>3, <1>5, <1>6 DEF LInv

LEMMA DeliverKeeps ==
  ASSUME LInv, FifoHasRoom, Deliver
  PROVE  LInv' /\ Stream' = Stream
<1>1. /\ down # <<>> /\ down' = Tail(down) /\ fifo' = Append(fifo, Head(down))
      /\ UNCHANGED <<hook, up, server, disk>>
  BY DEF Deliver, FifoHasRoom
<1>2. fifo \in Seq(Part) /\ down \in Seq(Part)
  BY StreamType
<1>3. fifo' \in Seq(Part) /\ down' \in Seq(Part)
  BY <1>1, <1>2
<1>4. fifo' \o down' = fifo \o down
  BY <1>1, <1>2, NextPart
<1>5. LineTypes' /\ ServerTypes' /\ channel' = channel
  BY <1>1, <1>3 DEF LInv, LineTypes, ServerTypes, server, disk
<1> QED
  BY <1>1, <1>4, <1>5, QuietKeeps

-----------------------------------------------------------------------------
(* Answers. *)

LEMMA FrameOf ==
  ASSUME NEW cmd, NEW st, NEW p \in Part, Filled(p)
  PROVE  Frame(cmd, st, <<p>>)
           = << Magic, <<"cmd", cmd>>, <<"status", st>>, <<"len", p[2]>> >> \o <<p>> \o <<Cks>>
<1>1. Size(p) = p[2]
  BY DEF Filled, Size
<1>2. <<p>> # <<>> /\ <<p>>[1] = p
  OBVIOUS
<1> QED
  BY <1>1, <1>2 DEF Frame

LEMMA Joined ==
  ASSUME NEW u \in Seq(Part), NEW v \in Seq(Part)
  PROVE  /\ u \o v \in Seq(Part) /\ Len(u \o v) = Len(u) + Len(v)
         /\ \A k \in 1..Len(u) : (u \o v)[k] = u[k]
         /\ \A k \in 1..Len(v) : (u \o v)[Len(u) + k] = v[k]
OBVIOUS

LEMMA Regrouped ==
  ASSUME NEW u \in Seq(Part), NEW v \in Seq(Part), NEW w \in Seq(Part)
  PROVE  u \o (v \o w) = (u \o v) \o w
OBVIOUS

\* The stream grows at its end.
LEMMA StreamGrows ==
  ASSUME LInv, hook' = hook, fifo' = fifo, NEW x \in Seq(Part), down' = down \o x
  PROVE  Stream' = Stream \o x /\ down' \in Seq(Part)
<1>1. /\ Taken \in Seq(Part) /\ fifo \in Seq(Part) /\ down \in Seq(Part)
      /\ Stream = Taken \o (fifo \o down)
  BY StreamType
<1>2. Stream' = Taken \o (fifo \o (down \o x))
  BY TakenStays DEF Stream
<1> DEFINE y == fifo \o down
<1>3. fifo \o (down \o x) = y \o x /\ y \in Seq(Part) /\ down \o x \in Seq(Part)
  BY <1>1, SMTT(30)
<1> HIDE DEF y
<1>4. Taken \o (y \o x) = (Taken \o y) \o x
  BY <1>1, <1>3, Regrouped, ZenonT(40)
<1>5. Stream = Taken \o y
  BY <1>1 DEF y
<1> QED
  BY <1>2, <1>3, <1>4, <1>5

LEMMA SixParts ==
  ASSUME NEW m \in Part, NEW a \in Part, NEW b \in Part, NEW c \in Part, NEW d \in Part, NEW e \in Part
  PROVE  LET x == <<m, a, b, c>> \o <<d>> \o <<e>>
         IN  /\ x \in Seq(Part) /\ Len(x) = 6 /\ x[1] = m /\ x[2] = a /\ x[3] = b
             /\ x[4] = c /\ x[5] = d /\ x[6] = e
<1> DEFINE y == <<m, a, b, c, d>>
<1>1. <<m, a, b, c>> \o <<d>> = y
  BY FourAndMore
<1>2. y \in Seq(Part) /\ Len(y) = 5 /\ y[1] = m /\ y[2] = a /\ y[3] = b /\ y[4] = c /\ y[5] = d
  OBVIOUS
<1> HIDE DEF y
<1>3. /\ y \o <<e>> \in Seq(Part) /\ Len(y \o <<e>>) = 6
      /\ \A k \in 1..5 : (y \o <<e>>)[k] = y[k]
      /\ (y \o <<e>>)[6] = e
  <2>1. <<e>> \in Seq(Part) /\ Len(<<e>>) = 1 /\ <<e>>[1] = e
    OBVIOUS
  <2> DEFINE z == <<e>>
  <2> HIDE DEF z
  <2>2. z \in Seq(Part) /\ Len(z) = 1 /\ z[1] = e
    BY <2>1 DEF z
  <2>3. /\ y \o z \in Seq(Part) /\ Len(y \o z) = Len(y) + Len(z)
        /\ \A k \in 1..Len(y) : (y \o z)[k] = y[k]
        /\ \A k \in 1..Len(z) : (y \o z)[Len(y) + k] = z[k]
    BY <1>2, <2>2, Joined
  <2> QED
    BY <1>2, <2>2, <2>3 DEF z
<1> QED
  BY <1>1, <1>2, <1>3

LEMMA FrameParts ==
  ASSUME NEW cmd \in {"open", "read", "close"}, NEW st \in {"ok", "error"}, NEW p \in Part, Filled(p)
  PROVE  LET x == Frame(cmd, st, <<p>>)
         IN  /\ x \in Seq(Part) /\ Len(x) = 6
             /\ x[1] = Magic /\ x[2] = <<"cmd", cmd>> /\ x[3] = <<"status", st>>
             /\ x[4] = <<"len", p[2]>> /\ x[5] = p /\ x[6] = Cks
<1> DEFINE x == Frame(cmd, st, <<p>>)
<1>1. p[2] \in Nat \ {0}
  BY FilledParts
<1>2. /\ Magic \in Part /\ <<"cmd", cmd>> \in Part /\ <<"status", st>> \in Part
      /\ <<"len", p[2]>> \in Part /\ Cks \in Part
  BY <1>1 DEF Part, Plains
<1>3. /\ x \in Seq(Part) /\ Len(x) = 6
      /\ x[1] = Magic /\ x[2] = <<"cmd", cmd>> /\ x[3] = <<"status", st>>
      /\ x[4] = <<"len", p[2]>> /\ x[5] = p /\ x[6] = Cks
  <2> DEFINE a == <<"cmd", cmd>>  b == <<"status", st>>  c == <<"len", p[2]>>  m == Magic  e == Cks
  <2>1. a \in Part /\ b \in Part /\ c \in Part /\ m \in Part /\ e \in Part
    BY <1>2
  <2>2. x = <<m, a, b, c>> \o <<p>> \o <<e>>
    BY FrameOf
  <2> HIDE DEF a, b, c, m, e, x
  <2>3. /\ x \in Seq(Part) /\ Len(x) = 6 /\ x[1] = m /\ x[2] = a /\ x[3] = b
        /\ x[4] = c /\ x[5] = p /\ x[6] = e
    BY <2>1, <2>2, SixParts
  <2> QED
    BY <2>3 DEF a, b, c, m, e
<1> QED
  BY <1>3

LEMMA AnswerKeeps ==
  ASSUME LInv, hook' = hook, fifo' = fifo, up' = Tail(up), up # <<>>, ServerTypes',
         NEW cmd \in {"open", "read", "close"}, NEW st \in {"ok", "error"},
         NEW p \in Part, Filled(p), IsData(p) <=> (cmd = "read" /\ st = "ok"),
         down' = down \o Frame(cmd, st, <<p>>), Serves(channel, channel', cmd, st, p)
  PROVE  LInv'
<1> DEFINE x == Frame(cmd, st, <<p>>)  s == Stream  t == s \o x  n == Len(s)
<1>3. /\ x \in Seq(Part) /\ Len(x) = 6
      /\ x[1] = Magic /\ x[2] = <<"cmd", cmd>> /\ x[3] = <<"status", st>>
      /\ x[4] = <<"len", p[2]>> /\ x[5] = p /\ x[6] = Cks
  BY FrameParts, ZenonT(40)
<1> HIDE DEF x
<1>4. Stream' = t /\ down' \in Seq(Part)
  BY <1>3, StreamGrows DEF x
<1>5. s \in Seq(Part) /\ n \in Nat
  BY StreamType
<1>6. /\ t \in Seq(Part) /\ Len(t) = n + 6 /\ \A k \in 1..n : t[k] = s[k]
      /\ t[n + 1] = x[1] /\ t[n + 2] = x[2] /\ t[n + 3] = x[3]
      /\ t[n + 4] = x[4] /\ t[n + 5] = x[5] /\ t[n + 6] = x[6]
  <2> HIDE DEF s
  <2>1. /\ t \in Seq(Part) /\ Len(t) = n + Len(x) /\ \A k \in 1..n : t[k] = s[k]
        /\ \A k \in 1..Len(x) : t[n + k] = x[k]
    BY <1>3, <1>5, Joined
  <2> HIDE DEF t, n
  <2> QED
    BY <1>3, <2>1
<1> HIDE DEF t, s
<1>7. Answered(s, t, cmd, st, p)
  BY <1>3, <1>5, <1>6 DEF Answered
<1>8. Framed(s) /\ Chained(s, channel)
  BY DEF LInv, s
<1>9. Framed(t) /\ Chained(t, channel')
  BY <1>7, <1>8, AnsweredFramed, AnsweredChained
<1>10. \A f, pos : Goes(s, channel, 0, f, pos) => Goes(t, channel', 0, f, pos)
  <2>1. 0 \in 0..Len(s)
    BY <1>5
  <2> QED
    BY <1>7, <2>1, AnsweredGoes
<1>11. Opens(s) => Opens(t)
  <2>1. CASE n = 0
    BY <1>3, <1>6, <2>1 DEF Opens
  <2>2. CASE n # 0
    BY <1>5, <1>6, <2>2 DEF Opens
  <2> QED
    BY <2>1, <2>2
<1>12. LineTypes'
  BY <1>4 DEF LInv, LineTypes
<1> QED
  BY <1>4, <1>9, <1>10, <1>11, <1>12, UnmovedKeeps DEF s

LEMMA EmptyFrameParts ==
  LET x == Frame("read", "eof", <<>>)
  IN  /\ x \in Seq(Part) /\ Len(x) = 5
      /\ x[1] = Magic /\ x[2] = <<"cmd", "read">> /\ x[3] = Eof /\ x[4] = <<"len", 0>> /\ x[5] = Cks
<1> DEFINE m == Magic  a == <<"cmd", "read">>  b == Eof  c == <<"len", 0>>  e == Cks
           x == <<m, a, b, c, e>>
<1>1. m \in Part /\ a \in Part /\ b \in Part /\ c \in Part /\ e \in Part
  BY DEF Part, Plains, Eof
<1>2. Frame("read", "eof", <<>>) = x
  <2>1. Frame("read", "eof", <<>>) = <<m, a, b, c>> \o <<>> \o <<e>>
    BY DEF Frame, Eof
  <2> HIDE DEF m, a, b, c, e
  <2>2. <<m, a, b, c>> \o <<>> \o <<e>> = x
    BY FourAndMore
  <2> QED
    BY <2>1, <2>2
<1>3. x \in Seq(Part) /\ Len(x) = 5 /\ x[1] = m /\ x[2] = a /\ x[3] = b /\ x[4] = c /\ x[5] = e
  <2> HIDE DEF m, a, b, c, e
  <2> QED
    BY <1>1
<1> QED
  BY <1>2, <1>3

\* The answer behind a file's last byte.
LEMMA EndKeeps ==
  ASSUME LInv, hook' = hook, fifo' = fifo, up' = Tail(up), up # <<>>, ServerTypes',
         down' = down \o Frame("read", "eof", <<>>),
         NEW g \in Files, channel = <<g, FileLen[g[1]]>>, channel' = channel
  PROVE  LInv'
<1> DEFINE x == Frame("read", "eof", <<>>)  s == Stream  t == s \o x  n == Len(s)
<1>3. /\ x \in Seq(Part) /\ Len(x) = 5
      /\ x[1] = Magic /\ x[2] = <<"cmd", "read">> /\ x[3] = Eof /\ x[4] = <<"len", 0>> /\ x[5] = Cks
  BY EmptyFrameParts
<1> HIDE DEF x
<1>4. Stream' = t /\ down' \in Seq(Part)
  BY <1>3, StreamGrows DEF x
<1>5. s \in Seq(Part) /\ n \in Nat
  BY StreamType
<1>6. /\ t \in Seq(Part) /\ Len(t) = n + 5 /\ \A k \in 1..n : t[k] = s[k]
      /\ t[n + 1] = x[1] /\ t[n + 2] = x[2] /\ t[n + 3] = x[3]
      /\ t[n + 4] = x[4] /\ t[n + 5] = x[5]
  <2> HIDE DEF s
  <2>1. /\ t \in Seq(Part) /\ Len(t) = n + Len(x) /\ \A k \in 1..n : t[k] = s[k]
        /\ \A k \in 1..Len(x) : t[n + k] = x[k]
    BY <1>3, <1>5, Joined
  <2> HIDE DEF t, n
  <2> QED
    BY <1>3, <2>1
<1> HIDE DEF t, s
<1>7. Ended(s, t)
  BY <1>3, <1>5, <1>6 DEF Ended
<1>8. Framed(s) /\ Chained(s, channel)
  BY DEF LInv, s
<1>9. Framed(t) /\ Chained(t, channel)
  BY <1>7, <1>8, EndedFramed, EndedChained
<1>10. \A f, pos : Goes(s, channel, 0, f, pos) => Goes(t, channel, 0, f, pos)
  <2>1. 0 \in 0..Len(s)
    BY <1>5
  <2> QED
    BY <1>7, <2>1, EndedGoes, ZenonT(40)
<1>11. Opens(s) => Opens(t)
  <2>1. CASE n = 0
    BY <1>3, <1>6, <2>1 DEF Opens
  <2>2. CASE n # 0
    <3>1. s # <<>>
      BY <2>2
    <3>2. t[1] = s[1]
      BY <1>5, <1>6, <2>2
    <3> QED
      BY <3>1, <3>2 DEF Opens
  <2> QED
    BY <2>1, <2>2
<1>12. LineTypes'
  BY <1>4 DEF LInv, LineTypes
<1> QED
  BY <1>4, <1>9, <1>10, <1>11, <1>12, UnmovedKeeps DEF s

LEMMA MinOfTwo ==
  ASSUME NEW a \in Int, NEW b \in Int
  PROVE  Min({a, b}) = IF a <= b THEN a ELSE b
<1>1. \E x \in {a, b} : \A y \in {a, b} : x <= y
  OBVIOUS
<1>2. Min({a, b}) \in {a, b} /\ \A y \in {a, b} : Min({a, b}) <= y
  BY <1>1 DEF Min
<1> QED
  BY <1>2

\* Answers that carry a text, not the data of a file.
LEMMA TextKeeps ==
  ASSUME LInv, up # <<>>, NEW cmd \in {"open", "read", "close"}, NEW st \in {"ok", "error"},
         cmd = "read" => st = "error", NEW n \in Nat \ {0}, ServerTypes',
         hook' = hook, fifo' = fifo, up' = Tail(up), down' = down \o Frame(cmd, st, Text(n)),
         cmd = "open" /\ st = "ok" => \E f \in Files : channel' = <<f, 0>>,
         cmd # "open" => channel' = channel \/ channel' = <<>>
  PROVE  LInv'
<1> DEFINE p == <<"text", n>>
<1>1. p \in Part /\ Filled(p) /\ ~IsData(p)
  BY DEF Part, Plains, Filled, IsData
<1>2. Text(n) = <<p>>
  BY DEF Text
<1> HIDE DEF p
<1>3. Serves(channel, channel', cmd, st, p)
  BY <1>1 DEF Serves
<1>4. down' = down \o Frame(cmd, st, <<p>>)
  BY <1>2
<1> QED
  BY <1>1, <1>3, <1>4, AnswerKeeps

LEMMA RefusalKeeps ==
  ASSUME LInv, up # <<>>, NEW cmd \in {"open", "read", "close"}, NEW n \in Nat \ {0}, ServerTypes',
         hook' = hook, fifo' = fifo, up' = Tail(up), down' = down \o Frame(cmd, "error", Text(n)),
         channel' = channel
  PROVE  LInv'
<1> DEFINE st == "error"
<1>1. st \in {"ok", "error"} /\ st # "ok" /\ down' = down \o Frame(cmd, st, Text(n))
  OBVIOUS
<1> HIDE DEF st
<1>2. cmd = "read" => st = "error"
  BY DEF st
<1> QED
  BY <1>1, <1>2, TextKeeps

LEMMA FileTypes ==
  ASSUME NEW f \in Files
  PROVE  f[1] \in Disks /\ f[2] \in Disks /\ f = <<f[1], f[2]>> /\ FileLen[f[1]] \in Nat
BY ConstantsAssumption DEF Files

LEMMA ReadsKeeps ==
  ASSUME LInv, Reads
  PROVE  LInv'
<1>1. worker = "idle" /\ up # <<>> /\ channel # <<>> /\ UNCHANGED <<worker, entry, file>>
  BY DEF Reads, Asked
<1> DEFINE f == channel[1]  pos == channel[2]  size == Min({CHUNK_SIZE, FileLen[f[1]] - pos})
<1>2. /\ Answer("read", IF size = 0 THEN "eof" ELSE "ok", Data(f, pos, size))
      /\ channel' = <<f, pos + size>>
  BY DEF Reads
<1>3. f \in Files /\ pos \in 0..FileLen[f[1]] /\ channel = <<f, pos>>
  BY <1>1 DEF LInv, ServerTypes
<1>4. FileLen[f[1]] \in Nat
  BY <1>3, FileTypes
<1>5. /\ size \in 0..CHUNK_SIZE /\ size <= FileLen[f[1]] - pos
      /\ size < CHUNK_SIZE => size = FileLen[f[1]] - pos
  <2> DEFINE l == FileLen[f[1]]
  <2>1. l \in Nat /\ pos \in 0..l
    BY <1>3, <1>4
  <2> HIDE DEF l, f, pos
  <2>2. Min({CHUNK_SIZE, l - pos}) = IF CHUNK_SIZE <= l - pos THEN CHUNK_SIZE ELSE l - pos
    BY <2>1, MinOfTwo DEF CHUNK_SIZE
  <2> QED
    BY <2>1, <2>2 DEF l, CHUNK_SIZE
<1> HIDE DEF f, pos, size
<1>6. /\ up' = Tail(up) /\ UNCHANGED <<hook, fifo, disk>>
      /\ down' = down \o Frame("read", IF size = 0 THEN "eof" ELSE "ok", Data(f, pos, size))
  BY <1>2 DEF Answer
<1>7. pos + size \in 0..FileLen[f[1]]
  BY <1>3, <1>4, <1>5 DEF CHUNK_SIZE
<1>8. ServerTypes'
  <2>1. channel'[1] = f /\ channel'[2] = pos + size /\ channel' = <<channel'[1], channel'[2]>>
    BY <1>2
  <2> QED
    BY <1>1, <1>3, <1>6, <1>7, <2>1 DEF LInv, ServerTypes, disk
<1>9. CASE size = 0
  <2>1. pos = FileLen[f[1]]
    BY <1>3, <1>4, <1>5, <1>9 DEF CHUNK_SIZE
  <2>2. channel = <<f, FileLen[f[1]]>> /\ channel' = channel
    BY <1>2, <1>3, <1>4, <1>9, <2>1
  <2>3. down' = down \o Frame("read", "eof", <<>>)
    BY <1>6, <1>9 DEF Data
  <2> QED
    BY <1>1, <1>3, <1>6, <1>8, <2>2, <2>3, EndKeeps
<1>10. CASE size # 0
  <2> DEFINE p == <<"data", size, f, pos>>
  <2>1. size \in 1..CHUNK_SIZE /\ pos \in Nat
    BY <1>3, <1>4, <1>5, <1>10 DEF CHUNK_SIZE
  <2>2. p \in Part /\ Filled(p) /\ IsData(p) /\ p[2] = size /\ p[3] = f /\ p[4] = pos
    BY <1>3, <2>1 DEF Part, Blocks, Filled, IsData
  <2>3. ShortIsLast(p)
    BY <1>3, <1>4, <1>5, <2>1, <2>2 DEF ShortIsLast
  <2>4. down' = down \o Frame("read", "ok", <<p>>)
    BY <1>6, <1>10 DEF Data
  <2> HIDE DEF p
  <2>5. Serves(channel, channel', "read", "ok", p)
    BY <1>2, <1>3, <2>2, <2>3 DEF Serves
  <2> QED
    BY <1>1, <1>6, <1>8, <2>2, <2>4, <2>5, AnswerKeeps
<1> QED
  BY <1>9, <1>10

\* A request stays in the line while it is served.
Serving == worker # "idle" => up # <<>>

LEMMA ServerMovesKeep ==
  ASSUME LInv, Serving, ServerMoves
  PROVE  LInv'
<1>1. {next, mounted, entries} \subseteq Disks \cup {0}
  BY DEF LInv, ServerTypes
<1>2. CASE OpenFinds
  <2>1. entries \in Disks /\ FileLen[entries] > 0
    BY <1>1, <1>2 DEF OpenFinds, HasFile
  <2>2. /\ worker' = "found" /\ entry' = entries
        /\ UNCHANGED <<hook, lines, file, channel, disk>>
    BY <1>2 DEF OpenFinds
  <2>3. LineTypes' /\ ServerTypes'
    BY <2>1, <2>2 DEF LInv, LineTypes, ServerTypes, lines, disk
  <2>4. fifo' \o down' = fifo \o down
    BY <2>2 DEF lines
  <2> QED
    BY <2>2, <2>3, <2>4, QuietKeeps
<1>3. CASE OpenFindsNot
  <2>1. /\ up # <<>> /\ Answer("open", "error", Text(15)) /\ UNCHANGED server
    BY <1>3 DEF OpenFindsNot, Asked
  <2>2. ServerTypes' /\ channel' = channel
    BY <2>1 DEF LInv, ServerTypes, Answer, server, disk
  <2> DEFINE cmd == "open"  n == 15
  <2>3. /\ down' = down \o Frame(cmd, "error", Text(n)) /\ up' = Tail(up) /\ UNCHANGED <<hook, fifo>>
        /\ cmd \in {"open", "read", "close"} /\ n \in Nat \ {0}
    BY <2>1 DEF Answer
  <2> HIDE DEF cmd, n
  <2> QED
    BY <2>1, <2>2, <2>3, RefusalKeeps
<1>4. CASE OpenLoads
  <2>1. /\ worker = "found" /\ mounted # 0 /\ worker' = "loaded" /\ file' = <<entry, mounted>>
        /\ UNCHANGED <<hook, lines, entry, channel, disk>>
    BY <1>4 DEF OpenLoads
  <2>2. entry \in Disks /\ FileLen[entry] > 0 /\ mounted \in Disks
    BY <1>1, <2>1 DEF LInv, ServerTypes
  <2>3. file' \in Files
    BY <2>1, <2>2 DEF Files
  <2>4. LineTypes' /\ ServerTypes'
    BY <2>1, <2>3 DEF LInv, LineTypes, ServerTypes, lines, disk
  <2>5. fifo' \o down' = fifo \o down
    BY <2>1 DEF lines
  <2> QED
    BY <2>1, <2>4, <2>5, QuietKeeps
<1>6. CASE OpenBreaks
  <2>1. /\ up # <<>> /\ worker' = "idle" /\ Answer("open", "error", Text(30))
        /\ UNCHANGED <<entry, file, channel>>
    BY <1>6 DEF OpenBreaks, Serving
  <2>2. ServerTypes'
    BY <2>1 DEF LInv, ServerTypes, Answer, disk
  <2> DEFINE cmd == "open"  n == 30
  <2>3. /\ down' = down \o Frame(cmd, "error", Text(n)) /\ up' = Tail(up) /\ UNCHANGED <<hook, fifo>>
        /\ cmd \in {"open", "read", "close"} /\ n \in Nat \ {0}
    BY <2>1 DEF Answer
  <2> HIDE DEF cmd, n
  <2> QED
    BY <2>1, <2>2, <2>3, RefusalKeeps
<1>7. CASE OpenStores
  <2>1. /\ up # <<>> /\ worker = "loaded" /\ worker' = "idle" /\ channel' = <<file, 0>>
        /\ Answer("open", "ok", StatusText) /\ UNCHANGED <<entry, file>>
    BY <1>7 DEF OpenStores, Serving
  <2>2. file \in Files
    BY <2>1 DEF LInv, ServerTypes
  <2>3. FileLen[file[1]] \in Nat
    BY <2>2, FileTypes
  <2>4. channel'[1] = file /\ channel'[2] = 0 /\ channel' = <<channel'[1], channel'[2]>>
    BY <2>1
  <2>5. ServerTypes'
    BY <2>1, <2>2, <2>3, <2>4 DEF LInv, ServerTypes, Answer, disk
  <2>6. PICK n \in Nat \ {0} : StatusText = Text(n)
    BY DEF StatusText
  <2>7. down' = down \o Frame("open", "ok", Text(n)) /\ up' = Tail(up) /\ UNCHANGED <<hook, fifo>>
    BY <2>1, <2>6 DEF Answer
  <2> QED
    BY <2>1, <2>2, <2>5, <2>7, TextKeeps
<1>8. CASE ReadsNot
  <2>1. /\ up # <<>> /\ Answer("read", "error", Text(13)) /\ UNCHANGED server
    BY <1>8 DEF ReadsNot, Asked
  <2>2. ServerTypes' /\ channel' = channel
    BY <2>1 DEF LInv, ServerTypes, Answer, server, disk
  <2> DEFINE cmd == "read"  n == 13
  <2>3. /\ down' = down \o Frame(cmd, "error", Text(n)) /\ up' = Tail(up) /\ UNCHANGED <<hook, fifo>>
        /\ cmd \in {"open", "read", "close"} /\ n \in Nat \ {0}
    BY <2>1 DEF Answer
  <2> HIDE DEF cmd, n
  <2> QED
    BY <2>1, <2>2, <2>3, RefusalKeeps
<1>9. CASE Closes
  <2>1. /\ up # <<>> /\ Answer("close", "ok", StatusText) /\ channel' = <<>>
        /\ UNCHANGED <<worker, entry, file>>
    BY <1>9 DEF Closes, Asked
  <2>2. ServerTypes'
    BY <2>1 DEF LInv, ServerTypes, Answer, disk
  <2>3. PICK n \in Nat \ {0} : StatusText = Text(n)
    BY DEF StatusText
  <2>4. down' = down \o Frame("close", "ok", Text(n)) /\ up' = Tail(up) /\ UNCHANGED <<hook, fifo>>
    BY <2>1, <2>3 DEF Answer
  <2> QED
    BY <2>1, <2>2, <2>4, TextKeeps
<1> QED
  BY <1>2, <1>3, <1>4, <1>6, <1>7, <1>8, <1>9, ReadsKeeps DEF ServerMoves

-----------------------------------------------------------------------------
(* The GUI thread and the line. *)

LEMMA ChangesKeep ==
  ASSUME LInv, ChangeData \/ GuiMoves
  PROVE  LInv'
<1>1. CASE ChangeData \/ ChangeEntries
  <2>1. /\ UNCHANGED <<hook, lines, server>> /\ {next', mounted', entries'} \subseteq Disks \cup {0}
    BY <1>1 DEF LInv, ServerTypes, ChangeData, ChangeEntries
  <2>2. LineTypes' /\ ServerTypes' /\ channel' = channel /\ fifo' \o down' = fifo \o down
    BY <2>1 DEF LInv, LineTypes, ServerTypes, lines, server
  <2> QED
    BY <2>1, <2>2, QuietKeeps
<1>2. CASE ChangeChannels
  <2>1. /\ UNCHANGED <<hook, lines, worker, entry, file, next, mounted, entries>>
        /\ channel' = <<>>
    BY <1>2 DEF ChangeChannels
  <2>2. LineTypes' /\ ServerTypes'
    BY <2>1 DEF LInv, LineTypes, ServerTypes, lines
  <2>3. Stream' = Stream
    BY <2>1, TakenStays DEF Stream, lines
  <2>4. Framed(Stream') /\ Chained(Stream', channel')
    BY <2>1, <2>3, ClearedChained DEF LInv
  <2>5. \A f, pos : Goes(Stream, channel, 0, f, pos) => Goes(Stream', channel', 0, f, pos)
    BY <2>1, <2>3, ClearedGoes
  <2> QED
    BY <2>1, <2>2, <2>3, <2>4, <2>5, UnmovedKeeps
<1> QED
  BY <1>1, <1>2 DEF GuiMoves

LEMMA DamageRequestKeeps ==
  ASSUME LInv, DamageRequest
  PROVE  LInv'
<1>1. /\ up # <<>> /\ up' = Tail(up) /\ UNCHANGED <<hook, fifo, server, disk>>
      /\ down' \in {down, down \o Frame(Head(up), "error", Text(12))}
  BY DEF DamageRequest
<1>2. Head(up) \in {"open", "read", "close"} /\ up' \in Seq({"open", "read", "close"})
  BY <1>1 DEF LInv, LineTypes
<1>3. ServerTypes' /\ channel' = channel
  BY <1>1 DEF LInv, ServerTypes, server, disk
<1>4. CASE down' = down
  <2>1. LineTypes' /\ fifo' \o down' = fifo \o down
    BY <1>1, <1>2, <1>4 DEF LInv, LineTypes
  <2> QED
    BY <1>1, <1>3, <2>1, QuietKeeps
<1>5. CASE down' = down \o Frame(Head(up), "error", Text(12))
  <2> DEFINE cmd == Head(up)  n == 12
  <2>1. /\ cmd \in {"open", "read", "close"} /\ n \in Nat \ {0}
        /\ down' = down \o Frame(cmd, "error", Text(n))
    BY <1>2, <1>5
  <2> HIDE DEF cmd, n
  <2> QED
    BY <1>1, <1>3, <2>1, RefusalKeeps
<1> QED
  BY <1>1, <1>4, <1>5

LEMMA DamageAnswerKeeps ==
  ASSUME LInv, DamageAnswer
  PROVE  LInv'
<1> DEFINE u == Taken \o fifo  v == Tail(down)  s == Stream  m == Len(u) + 1  j == <<"junk", 1>>
<1>1. /\ down # <<>> /\ Head(down) = Cks /\ UNCHANGED <<hook, up, fifo, server, disk>>
      /\ down' = v \/ down' = <<j>> \o v
  BY DEF DamageAnswer, Junk
<1>2. /\ Taken \in Seq(Part) /\ fifo \in Seq(Part) /\ down \in Seq(Part)
      /\ s = Taken \o (fifo \o down)
  BY StreamType
<1>3. u \in Seq(Part) /\ v \in Seq(Part) /\ Cks \in Part /\ j \in Part
  <2>1. u \in Seq(Part) /\ v \in Seq(Part)
    BY <1>1, <1>2
  <2>2. Cks \in Part /\ j \in Part
    BY DEF Part, Plains
  <2> QED
    BY <2>1, <2>2
<1>4. s = u \o down /\ down = <<Cks>> \o v
  <2>1. s = u \o down
    BY <1>2, Regrouped
  <2>2. down = <<Head(down)>> \o Tail(down)
    BY <1>1, <1>2
  <2> QED
    BY <1>1, <2>1, <2>2
<1>5. \A x \in Seq(Part) : down' = x => Stream' = u \o x
  <2> SUFFICES ASSUME NEW x \in Seq(Part), down' = x PROVE Stream' = u \o x
    OBVIOUS
  <2>1. Stream' = Taken \o (fifo \o x)
    BY <1>1, TakenStays DEF Stream
  <2> QED
    BY <1>2, <2>1, Regrouped
<1>6. Framed(s) /\ Chained(s, channel) /\ channel' = channel
  BY <1>1 DEF LInv, server
<1>7. ServerTypes'
  BY <1>1 DEF LInv, ServerTypes, server, disk
<1> HIDE DEF u, v, j, s
<1> DEFINE c == <<Cks>>
<1>8. c \in Seq(Part) /\ Len(c) = 1 /\ c[1] = Cks
  BY <1>3
<1> HIDE DEF c
<1>9. c \o v \in Seq(Part) /\ Len(c \o v) = 1 + Len(v) /\ (c \o v)[1] = Cks
      /\ \A k \in 1..Len(v) : (c \o v)[1 + k] = v[k]
  <2>1. /\ c \o v \in Seq(Part) /\ Len(c \o v) = Len(c) + Len(v)
        /\ \A k \in 1..Len(c) : (c \o v)[k] = c[k]
        /\ \A k \in 1..Len(v) : (c \o v)[Len(c) + k] = v[k]
    BY <1>3, <1>8, Joined
  <2> QED
    BY <1>8, <2>1
<1> DEFINE y == c \o v
<1>10. s = u \o y
  BY <1>4 DEF c
<1> HIDE DEF y
<1>11. y \in Seq(Part) /\ Len(y) = 1 + Len(v) /\ y[1] = Cks /\ \A k \in 1..Len(v) : y[1 + k] = v[k]
  BY <1>9 DEF y
<1>12. /\ s \in Seq(Part) /\ Len(s) = Len(u) + Len(y) /\ \A k \in 1..Len(u) : s[k] = u[k]
       /\ \A k \in 1..Len(y) : s[Len(u) + k] = y[k]
  BY <1>3, <1>10, <1>11, Joined
<1>13. Len(u) \in Nat /\ Len(v) \in Nat
  BY <1>3
<1>14. m \in 1..Len(s) /\ s[m] = Cks
  BY <1>11, <1>12, <1>13
<1>15. CASE down' = v
  <2> DEFINE t == u \o v
  <2>1. Stream' = t
    BY <1>3, <1>5, <1>15
  <2>2. /\ t \in Seq(Part) /\ Len(t) = Len(u) + Len(v) /\ \A k \in 1..Len(u) : t[k] = u[k]
        /\ \A k \in 1..Len(v) : t[Len(u) + k] = v[k]
    BY <1>3, Joined
  <2> HIDE DEF t
  <2>3. Lost(s, t, m)
    <3>1. \A k \in 1..Len(t) : t[k] = s[IF k < m THEN k ELSE k + 1]
      <4> SUFFICES ASSUME NEW k \in 1..Len(t) PROVE t[k] = s[IF k < m THEN k ELSE k + 1]
        OBVIOUS
      <4>1. CASE k < m
        BY <1>12, <1>13, <2>2, <4>1
      <4>2. CASE ~(k < m)
        <5>1. PICK l \in 1..Len(v) : k = Len(u) + l
          <6>1. k - Len(u) \in 1..Len(v) /\ k = Len(u) + (k - Len(u))
            BY <1>13, <2>2, <4>2
          <6> QED
            BY <6>1
        <5>2. t[k] = v[l]
          BY <2>2, <5>1
        <5>3. 1 + l \in 1..Len(y) /\ k + 1 = Len(u) + (1 + l)
          BY <1>11, <1>13, <5>1
        <5>4. s[k + 1] = y[1 + l] /\ y[1 + l] = v[l]
          BY <1>11, <1>12, <5>1, <5>3
        <5> QED
          BY <4>2, <5>2, <5>4
      <4> QED
        BY <4>1, <4>2
    <3>2. Len(t) = Len(s) - 1
      BY <1>11, <1>12, <1>13, <2>2
    <3> QED
      BY <1>12, <1>14, <2>2, <3>1, <3>2 DEF Lost
  <2>4. Framed(t) /\ Chained(t, channel)
    BY <1>6, <2>3, LostFramed, LostChained
  <2>5. \A f, pos : Goes(s, channel, 0, f, pos) => Goes(t, channel, 0, f, pos)
    <3> SUFFICES ASSUME NEW f, NEW pos, Goes(s, channel, 0, f, pos) PROVE Goes(t, channel, 0, f, pos)
      OBVIOUS
    <3>1. 0 \in 0..Len(s) /\ 0 # m /\ Closer(0, m) = 0
      BY <1>12, <1>13, <1>14, <1>11 DEF Closer
    <3> QED
      BY <2>3, <3>1, LostGoes
  <2>6. Opens(s) => Opens(t)
    <3> SUFFICES ASSUME Opens(s), t # <<>> PROVE t[1] = Magic
      BY DEF Opens
    <3>1. s[1] = Magic
      BY <1>12, <1>13, <1>11 DEF Opens
    <3>2. m # 1
      BY <1>14, <3>1 DEF Magic, Cks
    <3>3. 1 \in 1..Len(t) /\ 1 < m
      BY <1>13, <2>2, <3>2
    <3>4. t[1] = s[1]
      BY <2>3, <3>3 DEF Lost
    <3> QED
      BY <3>1, <3>4
  <2>7. LineTypes'
    BY <1>1, <1>3, <1>15 DEF LInv, LineTypes
  <2> QED
    BY <1>1, <1>6, <1>7, <2>1, <2>4, <2>5, <2>6, <2>7, UnmovedKeeps DEF s
<1>16. CASE down' = <<j>> \o v
  <2> DEFINE z == <<j>>
  <2>1. z \in Seq(Part) /\ Len(z) = 1 /\ z[1] = j
    BY <1>3
  <2> HIDE DEF z
  <2> DEFINE x == z \o v
  <2>2. x \in Seq(Part) /\ Len(x) = Len(z) + Len(v) /\ (\A k \in 1..Len(z) : x[k] = z[k])
        /\ \A k \in 1..Len(v) : x[Len(z) + k] = v[k]
    BY <1>3, <2>1, Joined
  <2>3. down' = x
    BY <1>16 DEF z
  <2> HIDE DEF x
  <2> DEFINE t == u \o x
  <2>4. Stream' = t
    BY <1>5, <2>2, <2>3
  <2>5. /\ t \in Seq(Part) /\ Len(t) = Len(u) + Len(x) /\ \A k \in 1..Len(u) : t[k] = u[k]
        /\ \A k \in 1..Len(x) : t[Len(u) + k] = x[k]
    BY <1>3, <2>2, Joined
  <2> HIDE DEF t
  <2>6. x[1] = j /\ Len(x) = Len(y) /\ \A k \in 2..Len(x) : x[k] = y[k]
    <3>1. x[1] = j /\ Len(x) = 1 + Len(v) /\ Len(y) = 1 + Len(v)
      BY <1>11, <1>13, <2>1, <2>2
    <3> SUFFICES ASSUME NEW k \in 2..Len(x) PROVE x[k] = y[k]
      BY <3>1
    <3>2. k - 1 \in 1..Len(v) /\ k = 1 + (k - 1)
      BY <1>13, <3>1
    <3> QED
      BY <1>11, <2>1, <2>2, <3>2
  <2>7. Spoiled(s, t, m)
    <3>1. t[m] = j /\ Len(t) = Len(s)
      BY <1>11, <1>12, <1>13, <2>5, <2>6
    <3>2. \A k \in 1..Len(s) : k # m => t[k] = s[k]
      <4> SUFFICES ASSUME NEW k \in 1..Len(s), k # m PROVE t[k] = s[k]
        OBVIOUS
      <4>1. CASE k < m
        BY <1>12, <1>13, <2>5, <4>1
      <4>2. CASE k > m
        <5>1. PICK l \in 2..Len(x) : k = Len(u) + l
          <6>1. k - Len(u) \in 2..Len(x) /\ k = Len(u) + (k - Len(u))
            BY <1>12, <1>13, <1>11, <2>6, <4>2
          <6> QED
            BY <6>1
        <5>2. l \in 1..Len(x) /\ l \in 1..Len(y) /\ x[l] = y[l]
          BY <2>6, <5>1
        <5> QED
          BY <1>12, <2>5, <5>1, <5>2
      <4> QED
        BY <1>13, <4>1, <4>2
    <3> QED
      BY <1>12, <1>14, <2>5, <3>1, <3>2 DEF Spoiled, j
  <2>8. Framed(t) /\ Chained(t, channel)
    BY <1>6, <2>7, SpoiledFramed, SpoiledChained
  <2>9. \A f, pos : Goes(s, channel, 0, f, pos) => Goes(t, channel, 0, f, pos)
    BY <2>7, SpoiledGoes
  <2>10. Opens(s) => Opens(t)
    <3> SUFFICES ASSUME Opens(s), t # <<>> PROVE t[1] = Magic
      BY DEF Opens
    <3>1. s[1] = Magic /\ 1 \in 1..Len(s)
      BY <1>12, <1>13, <1>11 DEF Opens
    <3>2. m # 1
      BY <1>14, <3>1 DEF Magic, Cks
    <3> QED
      BY <2>7, <3>1, <3>2 DEF Spoiled
  <2>11. LineTypes'
    BY <1>1, <2>2, <2>3 DEF LInv, LineTypes
  <2> QED
    BY <1>1, <1>6, <1>7, <2>4, <2>8, <2>9, <2>10, <2>11, UnmovedKeeps DEF s
<1> QED
  BY <1>1, <1>15, <1>16

-----------------------------------------------------------------------------
(* Every step. *)

LEMMA ServingStays ==
  ASSUME LInv, Serving, [Next]_vars
  PROVE  Serving'
<1>1. up \in Seq({"open", "read", "close"})
  BY DEF LInv, LineTypes
<1>2. \A cmd \in {"open", "read", "close"} : Append(up, cmd) # <<>>
  BY <1>1
<1>3. CASE Load
  BY <1>2, <1>3 DEF Load, Ask, Serving, server
<1>4. CASE HookMoves
  <2>1. up' = up \/ up' = Append(up, "read") \/ up' = Append(up, "close")
    <3> DEFINE U == up' = up \/ up' = Append(up, "read") \/ up' = Append(up, "close")
    <3>1. phase \in {"open", "read", "closing", "failing"}
      BY <1>4 DEF LInv, HookTypes, HookMoves, Receive, TimeOut
    <3>2. Fail => U
      BY <3>1 DEF Fail, Return, Ask
    <3>3. Succeed => U
      BY <3>2 DEF Succeed, Ask
    <3>4. \A state : Parse(state) => U
      BY DEF Parse
    <3> HIDE DEF U
    <3>5. UNCHANGED <<phase, parse, result, up>> => U
      BY DEF U
    <3>6. \A part : Misread(part) => U
      BY <3>2 DEF Misread
    <3>7. Receive => U
      BY <3>2, <3>3, <3>4, <3>5, <3>6
         DEF Receive, TakeMagic, TakeCmd, TakeStatus, TakeLen, TakePayload, TakeCks
    <3>8. TimeOut => U
      BY <3>2 DEF TimeOut
    <3> QED
      BY <1>4, <3>7, <3>8 DEF HookMoves, U
  <2>2. worker' = worker
    BY <1>4 DEF HookMoves, Receive, TimeOut, server
  <2> QED
    BY <1>2, <2>1, <2>2 DEF Serving
<1>5. CASE Deliver
  BY <1>5 DEF Deliver, Serving, server
<1>6. CASE ServerMoves
  <2>1. worker' = "idle" \/ (UNCHANGED up /\ up # <<>>)
    BY <1>6 DEF ServerMoves, OpenFinds, OpenFindsNot, OpenLoads, OpenBreaks, OpenStores, Reads,
                ReadsNot, Closes, Serving, Asked, server, lines
  <2> QED
    BY <2>1 DEF Serving
<1>7. CASE ChangeData \/ GuiMoves
  BY <1>7 DEF ChangeData, GuiMoves, ChangeEntries, ChangeChannels, Serving, server, lines
<1>8. CASE DamageRequest \/ DamageAnswer
  BY <1>8 DEF DamageRequest, DamageAnswer, Serving, server
<1>9. CASE UNCHANGED vars
  BY <1>9 DEF vars, server, lines, Serving
<1> QED
  BY <1>3, <1>4, <1>5, <1>6, <1>7, <1>8, <1>9 DEF Next

LEMMA InvStarts == Init => LInv /\ Serving
<1> SUFFICES ASSUME Init PROVE LInv /\ Serving
  OBVIOUS
<1>1. HookTypes /\ LineTypes /\ Opening /\ Serving
  BY DEF Init, HookTypes, LineTypes, Opening, Serving, RESYNC
<1>2. ServerTypes
  BY DEF Init, ServerTypes
<1>3. Stream = <<>>
  BY DEF Init, Stream, Taken
<1>4. Framed(Stream) /\ Chained(Stream, channel)
  BY <1>3, EmptyStream
<1>5. Reading /\ Finished
  BY DEF Init, Reading, Finished
<1> QED
  BY <1>1, <1>2, <1>4, <1>5 DEF LInv

LEMMA InvStays ==
  ASSUME LInv, Serving, FifoHasRoom, [Next]_vars
  PROVE  LInv' /\ Serving'
<1>1. LInv'
  <2>1. CASE UNCHANGED vars
    <3>1. LineTypes' /\ ServerTypes' /\ channel' = channel /\ fifo' \o down' = fifo \o down /\ hook' = hook
      BY <2>1 DEF vars, lines, server, disk, LInv, LineTypes, ServerTypes
    <3> QED
      BY <3>1, QuietKeeps
  <2> QED
    BY <2>1, LoadKeeps, ReceiveKeeps, TimeOutKeeps, DeliverKeeps, ServerMovesKeep, ChangesKeep,
       DamageRequestKeeps, DamageAnswerKeeps DEF Next, HookMoves
<1> QED
  BY <1>1, ServingStays

\* A LOAD that returns without error has stored one file, whole and in order,
\* as one OPEN found it, whatever was damaged and whenever the disk was
\* changed, if the FIFO has room for what the drive sends.
THEOREM LoadStoresWhole == Spec /\ []FifoHasRoom => []LoadWhole
<1>1. LInv => LoadWhole
  <2> SUFFICES ASSUME LInv, result = "ok" PROVE \E f \in Disks \X Disks : Whole(f)
    BY DEF LoadWhole
  <2>1. PICK f \in Files : Whole(f)
    BY DEF LInv, Finished
  <2>2. f \in Disks \X Disks
    BY DEF Files
  <2> QED
    BY <2>1, <2>2
<1>2. (LInv /\ Serving) /\ FifoHasRoom /\ [Next]_vars => (LInv /\ Serving)'
  BY InvStays
<1> QED
  BY <1>1, <1>2, InvStarts, PTL DEF Spec

-----------------------------------------------------------------------------
(* Why a LOAD fails.  As long as none has failed and nothing was damaged, at *)
(* most one request or its answer is on its way.                             *)

Excused   == ~clean \/ faults > 0 \/ spoilt
Blameless == faults = 0 /\ ~spoilt /\ result # "error" /\ phase # "failing"

\* A change of the disk is over when gui is idle again, and excuses the LOAD it met.
DiskKnown ==
  /\ gui \in {"idle", "data", "entries"} /\ {clean, spoilt} \subseteq BOOLEAN /\ faults \in Nat
  /\ gui # "idle" => next = mounted
  /\ gui # "data" => entries = mounted
  /\ clean => gui = "idle" /\ HasFile(mounted)

\* s is a whole answer with a payload of n bytes.
AnswerOf(s, cmd, st, n) ==
  /\ n <= CHUNK_SIZE /\ s \in Seq(Part) /\ Len(s) = (IF n = 0 THEN 5 ELSE 6)
  /\ s[1] = Magic /\ s[2] = <<"cmd", cmd>> /\ s[3] = <<"status", st>> /\ s[4] = <<"len", n>>
  /\ n # 0 => Filled(s[5]) /\ Size(s[5]) = n
  /\ s[Len(s)] = Cks

\* The hook has no complaint about it.
Good(st, n) ==
  /\ st # "error" /\ (phase # "read" => st = "ok")
  /\ phase = "read" /\ memory = <<>> => n # 0
  /\ phase \in {"open", "read"} => channel # <<>>

Resting == up = <<>> /\ fifo = <<>> /\ down = <<>> /\ worker = "idle"

Awaited ==
  /\ up = <<Expected>> /\ fifo = <<>> /\ down = <<>> /\ parse = "magic"
  /\ worker # "idle" => phase = "open"
  /\ clean /\ worker = "found" => entry = mounted
  /\ clean /\ phase = "read" => channel # <<>>

Coming ==
  /\ up = <<>> /\ worker = "idle" /\ (parse = "payload" => head[2] # 0)
  /\ \E st \in {"ok", "eof", "error"}, n \in Nat :
       AnswerOf(Stream, Expected, st, n) /\ (clean => Good(st, n))

Called == Blameless => IF phase = "idle" THEN Resting ELSE Awaited \/ Coming
Blamed == result = "error" \/ phase = "failing" => Excused

FInv == LInv /\ Serving /\ DiskKnown /\ Called /\ Blamed

\* A LOAD that goes on has no result yet.
Pending ==
  /\ phase \in {"idle", "open", "read", "closing", "failing"}
  /\ phase # "idle" => result = "none"

\* Once something has gone wrong, nothing is known of the lines any more.
CInv == DiskKnown /\ Pending /\ Blamed /\ (Blameless => FInv)

\* While an answer comes the hook never has the whole of it.
LEMMA NeverWhole ==
  ASSUME LInv, phase # "idle", NEW st, NEW n \in Nat, AnswerOf(Stream, Expected, st, n),
         parse = "payload" => head[2] # 0
  PROVE  /\ Len(Taken) < Len(Stream)
         /\ parse = "magic" => Len(Taken) = 0
         /\ parse = "cmd" => Len(Taken) = 1
         /\ parse = "status" => Len(Taken) = 2
         /\ parse = "len" => Len(Taken) = 3 /\ head[1] = st
         /\ parse = "payload" => Len(Taken) = 4 /\ head = <<st, n>> /\ n # 0
         /\ parse = "cks" => Len(Taken) = Len(Stream) - 1 /\ head = <<st, n>>
<1>1. parse \in {"magic", "cmd", "status", "len", "payload", "cks"} /\ head = <<head[1], head[2]>>
  BY DEF LInv, HookTypes
<1>2. /\ parse = "magic" => Len(Taken) = 0
      /\ parse = "cmd" => Len(Taken) = 1
      /\ parse = "status" => Len(Taken) = 2
      /\ parse = "len" => Len(Taken) = 3
      /\ parse = "payload" => Len(Taken) = 4
  BY DEF Taken
<1>3. parse \in {"len", "payload", "cks"} => head[1] = st
  <2>1. parse \in {"len", "payload", "cks"} => <<"status", head[1]>> = <<"status", st>>
    BY HeadOfStream DEF AnswerOf
  <2> QED
    BY <2>1
<1>4. parse \in {"payload", "cks"} => head[2] = n
  <2>1. parse \in {"payload", "cks"} => <<"len", head[2]>> = <<"len", n>>
    BY HeadOfStream DEF AnswerOf
  <2> QED
    BY <2>1
<1>5. parse = "cks" => Len(Taken) = (IF n = 0 THEN 4 ELSE 5)
  BY <1>4, HeadOfStream
<1>6. Len(Stream) = (IF n = 0 THEN 5 ELSE 6)
  BY DEF AnswerOf
<1>7. parse = "cks" => Len(Taken) = Len(Stream) - 1
  <2> DEFINE l == Len(Taken)  m == Len(Stream)
  <2>1. CASE n = 0
    <3>1. (parse = "cks" => l = 4) /\ m = 5
      BY <1>5, <1>6, <2>1
    <3> HIDE DEF l, m
    <3>2. parse = "cks" => l = m - 1
      BY <3>1
    <3> QED
      BY <3>2 DEF l, m
  <2>2. CASE n # 0
    <3>1. (parse = "cks" => l = 5) /\ m = 6
      BY <1>5, <1>6, <2>2
    <3> HIDE DEF l, m
    <3>2. parse = "cks" => l = m - 1
      BY <3>1
    <3> QED
      BY <3>2 DEF l, m
  <2> QED
    BY <2>1, <2>2
<1>8. parse = "payload" => n # 0
  BY <1>4
<1> DEFINE l == Len(Taken)  m == Len(Stream)
<1>9. l < m
  <2>1. l \in {0, 1, 2, 3, 4} \/ l = m - 1
    BY <1>1, <1>2, <1>7
  <2>2. m \in {5, 6}
    BY <1>6
  <2> HIDE DEF l, m
  <2> QED
    BY <2>1, <2>2
<1> QED
  BY <1>1, <1>2, <1>3, <1>4, <1>7, <1>8, <1>9

\* What the hook reads next of it.
LEMMA NextOfAnswer ==
  ASSUME LInv, phase # "idle", fifo # <<>>, NEW st, NEW n \in Nat,
         AnswerOf(Stream, Expected, st, n), parse = "payload" => head[2] # 0
  PROVE  /\ parse = "magic" => Head(fifo) = Magic
         /\ parse = "cmd" => Head(fifo) = <<"cmd", Expected>>
         /\ parse = "status" => Head(fifo) = <<"status", st>>
         /\ parse = "len" => Head(fifo) = <<"len", n>>
         /\ parse = "payload" => Filled(Head(fifo)) /\ Size(Head(fifo)) = head[2]
         /\ parse = "cks" => /\ Head(fifo) = Cks /\ head = <<st, n>>
                             /\ Tail(fifo) = <<>> /\ down = <<>>
<1>1. Stream[Len(Taken) + 1] = Head(fifo)
  BY NextOfStream
<1>2. /\ Len(Taken) < Len(Stream)
      /\ parse = "magic" => Len(Taken) = 0
      /\ parse = "cmd" => Len(Taken) = 1
      /\ parse = "status" => Len(Taken) = 2
      /\ parse = "len" => Len(Taken) = 3 /\ head[1] = st
      /\ parse = "payload" => Len(Taken) = 4 /\ head = <<st, n>> /\ n # 0
      /\ parse = "cks" => Len(Taken) = Len(Stream) - 1 /\ head = <<st, n>>
  BY NeverWhole
<1>3. /\ Stream[1] = Magic /\ Stream[2] = <<"cmd", Expected>> /\ Stream[3] = <<"status", st>>
      /\ Stream[4] = <<"len", n>> /\ (n # 0 => Filled(Stream[5]) /\ Size(Stream[5]) = n)
      /\ Stream[Len(Stream)] = Cks
  BY DEF AnswerOf
<1> DEFINE s == Stream  l == Len(Taken)
<1>10. s[l + 1] = Head(fifo)
  BY <1>1
<1>11. /\ s[1] = Magic /\ s[2] = <<"cmd", Expected>> /\ s[3] = <<"status", st>>
       /\ s[4] = <<"len", n>> /\ (n # 0 => Filled(s[5]) /\ Size(s[5]) = n)
  BY <1>3
<1>4. ASSUME parse = "magic" PROVE Head(fifo) = Magic
  <2>1. l = 0
    BY <1>2, <1>4
  <2> HIDE DEF l, s
  <2>2. l + 1 = 1
    BY <2>1
  <2>3. Head(fifo) = s[1]
    BY <1>10, <2>2
  <2> QED
    BY <1>11, <2>3
<1>5. ASSUME parse = "cmd" PROVE Head(fifo) = <<"cmd", Expected>>
  <2>1. l = 1
    BY <1>2, <1>5
  <2> HIDE DEF l, s
  <2>2. l + 1 = 2
    BY <2>1
  <2>3. Head(fifo) = s[2]
    BY <1>10, <2>2
  <2> QED
    BY <1>11, <2>3
<1>6. ASSUME parse = "status" PROVE Head(fifo) = <<"status", st>>
  <2>1. l = 2
    BY <1>2, <1>6
  <2> HIDE DEF l, s
  <2>2. l + 1 = 3
    BY <2>1
  <2>3. Head(fifo) = s[3]
    BY <1>10, <2>2
  <2> QED
    BY <1>11, <2>3
<1>7. ASSUME parse = "len" PROVE Head(fifo) = <<"len", n>>
  <2>1. l = 3
    BY <1>2, <1>7
  <2> HIDE DEF l, s
  <2>2. l + 1 = 4
    BY <2>1
  <2>3. Head(fifo) = s[4]
    BY <1>10, <2>2
  <2> QED
    BY <1>11, <2>3
<1>8. ASSUME parse = "payload" PROVE Filled(Head(fifo)) /\ Size(Head(fifo)) = head[2]
  <2>1. l = 4 /\ head[2] = n /\ n # 0
    BY <1>2, <1>8
  <2> HIDE DEF l, s
  <2>2. l + 1 = 5
    BY <2>1
  <2>3. Head(fifo) = s[5]
    BY <1>10, <2>2
  <2> QED
    BY <1>11, <2>1, <2>3
<1>9. ASSUME parse = "cks" PROVE Head(fifo) = Cks /\ Tail(fifo) = <<>> /\ down = <<>>
  <2> DEFINE a == Tail(fifo)  w == a \o down
  <2>1. w \in Seq(Part) /\ a \in Seq(Part) /\ Suffix(Stream, w, Len(Taken) + 1) /\ down \in Seq(Part)
    BY NextOfStream, StreamType
  <2>2. Len(Stream) \in Nat /\ Len(Taken) + 1 = Len(Stream)
    BY <1>2, <1>9, StreamType
  <2> HIDE DEF w
  <2>3. Len(w) = 0
    BY <2>1, <2>2 DEF Suffix
  <2> HIDE DEF a
  <2>4. Len(w) = Len(a) + Len(down)
    BY <2>1 DEF w
  <2>5. Len(a) = 0 /\ Len(down) = 0
    <3>1. Len(a) \in Nat /\ Len(down) \in Nat
      BY <2>1
    <3> QED
      BY <2>3, <2>4, <3>1
  <2>6. a = <<>> /\ down = <<>>
    BY <2>1, <2>5
  <2> QED
    BY <1>1, <1>3, <2>2, <2>6 DEF a
<1> QED
  BY <1>2, <1>4, <1>5, <1>6, <1>7, <1>8, <1>9

LEMMA DiskStaysKnown ==
  ASSUME DiskKnown, [Next]_vars
  PROVE  DiskKnown'
<1>1. CASE Load
  <2>1. UNCHANGED <<disk, faults>> /\ clean' = (gui = "idle" /\ HasFile(mounted))
        /\ spoilt' = (spoilt \/ result = "error")
    BY <1>1 DEF Load
  <2>2. {clean', spoilt'} \subseteq BOOLEAN
    BY <2>1 DEF DiskKnown, HasFile
  <2>3. clean' => gui = "idle" /\ HasFile(mounted)
    BY <2>1
  <2> QED
    BY <2>1, <2>2, <2>3 DEF DiskKnown, disk, HasFile
<1>2. CASE ChangeData
  <2>1. /\ gui = "idle" /\ gui' = "data" /\ mounted' = next' /\ clean' = FALSE
        /\ UNCHANGED <<entries, faults, spoilt>>
    BY <1>2 DEF ChangeData
  <2> QED
    BY <2>1 DEF DiskKnown
<1>3. CASE ChangeEntries
  <2>1. /\ gui = "data" /\ gui' = "entries" /\ entries' = next
        /\ UNCHANGED <<next, mounted, faults, clean, spoilt>>
    BY <1>3 DEF ChangeEntries, counts
  <2> QED
    BY <2>1 DEF DiskKnown, HasFile
<1>4. CASE ChangeChannels
  <2>1. /\ gui = "entries" /\ gui' = "idle" /\ UNCHANGED <<next, mounted, entries, faults, clean, spoilt>>
    BY <1>4 DEF ChangeChannels, counts
  <2> QED
    BY <2>1 DEF DiskKnown, HasFile
<1>5. CASE DamageRequest \/ DamageAnswer
  <2>1. faults' = faults + 1 /\ UNCHANGED <<disk, clean, spoilt>>
    BY <1>5 DEF DamageRequest, DamageAnswer, Faulty
  <2>2. faults' \in Nat
    BY <2>1 DEF DiskKnown
  <2> QED
    BY <2>1, <2>2 DEF DiskKnown, disk, HasFile
<1>6. CASE UNCHANGED <<disk, faults, clean, spoilt>>
  BY <1>6 DEF DiskKnown, disk, HasFile
<1>7. HookMoves \/ Deliver \/ ServerMoves \/ UNCHANGED vars => UNCHANGED <<disk, faults, clean, spoilt>>
  <2>1. HookMoves => UNCHANGED <<disk, faults, clean, spoilt>>
    BY DEF HookMoves, Receive, TimeOut, counts
  <2>2. Deliver \/ UNCHANGED vars => UNCHANGED <<disk, faults, clean, spoilt>>
    BY DEF Deliver, vars, counts
  <2>3. ServerMoves => UNCHANGED <<disk, faults, clean, spoilt>>
    BY DEF ServerMoves, OpenFinds, OpenFindsNot, OpenLoads, OpenBreaks, OpenStores, Reads,
           ReadsNot, Closes, Answer, counts
  <2> QED
    BY <2>1, <2>2, <2>3
<1> QED
  BY <1>1, <1>2, <1>3, <1>4, <1>5, <1>6, <1>7 DEF Next, GuiMoves

\* Blame, once taken, stays: for the LOAD it is of, and for those after it.
LEMMA BlameStays ==
  ASSUME CInv, [Next]_vars, ~Blameless
  PROVE  ~Blameless' /\ Pending' /\ Blamed'
<1>1. faults \in Nat /\ {clean, spoilt} \subseteq BOOLEAN
  BY DEF CInv, DiskKnown
<1>2. Excused
  BY <1>1 DEF CInv, Blamed, Blameless, Excused
<1>3. /\ phase \in {"idle", "open", "read", "closing", "failing"}
      /\ phase # "idle" => result = "none"
  BY DEF CInv, Pending
<1>4. CASE Load
  <2>1. /\ result' = "none" /\ phase' = "open" /\ phase = "idle" /\ faults' = faults
        /\ spoilt' = (spoilt \/ result = "error")
    BY <1>4 DEF Load
  <2>2. ~Blameless'
    BY <1>1, <2>1 DEF Blameless
  <2> QED
    BY <2>1, <2>2 DEF Pending, Blamed
<1>5. CASE HookMoves
  <2>1. phase # "idle" /\ UNCHANGED <<faults, clean, spoilt>>
    BY <1>5 DEF HookMoves, Receive, TimeOut, counts
  <2>2. Excused'
    BY <1>2, <2>1 DEF Excused
  <2>3. faults # 0 \/ spoilt \/ phase = "failing"
    BY <1>3, <2>1 DEF Blameless
  <2> DEFINE U == /\ phase = "failing" => phase' = "failing" \/ (phase' = "idle" /\ result' = "error")
                  /\ phase' \in {"idle", "open", "read", "closing", "failing"}
                  /\ phase' # "idle" => result' = "none"
  <2>4. U
    <3>1. Fail => U
      BY <1>3, <2>1 DEF Fail, Return
    <3>2. Succeed => U
      BY <1>3, <2>1, <3>1 DEF Succeed
    <3>3. \A state : Parse(state) => U
      BY <1>3, <2>1 DEF Parse
    <3>4. phase' = phase /\ result' = result => U
      BY <1>3, <2>1
    <3> HIDE DEF U
    <3>5. \A part : Misread(part) => U
      BY <3>1 DEF Misread
    <3>6. Receive => U
      BY <3>1, <3>2, <3>3, <3>4, <3>5
         DEF Receive, TakeMagic, TakeCmd, TakeStatus, TakeLen, TakePayload, TakeCks
    <3>7. TimeOut => U
      BY <3>1 DEF TimeOut
    <3> QED
      BY <1>5, <3>6, <3>7 DEF HookMoves
  <2>5. ~Blameless'
    BY <2>1, <2>3, <2>4 DEF Blameless
  <2> QED
    BY <2>2, <2>4, <2>5 DEF Pending, Blamed
<1>6. CASE UNCHANGED <<phase, result, spoilt>> /\ (clean' => clean) /\ faults' \in {faults, faults + 1}
  <2>1. ~Blameless'
    BY <1>1, <1>6 DEF Blameless
  <2>2. Excused'
    BY <1>1, <1>2, <1>6 DEF Excused
  <2> QED
    BY <1>3, <1>6, <2>1, <2>2 DEF Pending, Blamed
<1>7. ~Load /\ ~HookMoves =>
        UNCHANGED <<phase, result, spoilt>> /\ (clean' => clean) /\ faults' \in {faults, faults + 1}
  <2> DEFINE U == UNCHANGED <<phase, result, spoilt>> /\ (clean' => clean)
                  /\ faults' \in {faults, faults + 1}
  <2>1. Deliver => U
    BY DEF Deliver, hook, counts
  <2>2. ServerMoves => UNCHANGED <<hook, clean, spoilt, counts>>
    BY DEF ServerMoves, OpenFinds, OpenFindsNot, OpenLoads, OpenBreaks, OpenStores, Reads,
           ReadsNot, Closes, Answer
  <2>3. ServerMoves => U
    BY <2>2 DEF hook, counts
  <2>4. ChangeData => U
    BY DEF ChangeData, hook
  <2>5. GuiMoves => U
    BY DEF GuiMoves, ChangeEntries, ChangeChannels, hook, counts
  <2>6. DamageRequest \/ DamageAnswer => U
    BY DEF DamageRequest, DamageAnswer, Faulty, hook
  <2>7. UNCHANGED vars => U
    BY DEF vars, hook, counts
  <2> HIDE DEF U
  <2>8. ~Load /\ ~HookMoves => U
    BY <2>1, <2>3, <2>4, <2>5, <2>6, <2>7 DEF Next
  <2> QED
    BY <2>8 DEF U
<1> QED
  BY <1>4, <1>5, <1>6, <1>7

LEMMA LoadCalls ==
  ASSUME FInv, Blameless, Load
  PROVE  Called' /\ Blamed'
<1>1. /\ phase = "idle" /\ phase' = "open" /\ result' = "none" /\ parse' = "magic"
      /\ up' = Append(up, "open") /\ UNCHANGED <<down, fifo, worker>>
  BY DEF Load, Ask, server
<1>2. up = <<>> /\ fifo = <<>> /\ down = <<>> /\ worker = "idle"
  BY <1>1 DEF FInv, Called, Resting
<1>3. up' = <<"open">>
  BY <1>1, <1>2
<1>4. Awaited'
  BY <1>1, <1>2, <1>3 DEF Awaited, Expected
<1> QED
  BY <1>1, <1>4 DEF Called, Blamed

\* The hook goes on in a good answer.
LEMMA ComingStays ==
  ASSUME LInv, phase # "idle", Stream' = Stream, up' = <<>>, worker' = "idle",
         UNCHANGED <<phase, result, channel>>, clean' => clean,
         result = "none", phase # "failing",
         parse' = "payload" => head'[2] # 0, memory' = memory \/ memory' # <<>>,
         NEW st \in {"ok", "eof", "error"}, NEW n \in Nat,
         AnswerOf(Stream, Expected, st, n), clean => Good(st, n)
  PROVE  Called' /\ Blamed'
<1>1. Expected' = Expected
  BY DEF Expected
<1>2. AnswerOf(Stream', Expected', st, n)
  BY <1>1
<1>3. AnswerOf(Stream, Expected, st, n)'
  BY <1>2 DEF AnswerOf
<1>4. clean' => Good(st, n)'
  BY DEF Good
<1>5. Coming'
  BY <1>3, <1>4 DEF Coming
<1> QED
  BY <1>5 DEF Called, Blamed

\* The hook gives up what it has a reason to complain about.
LEMMA FailBlames ==
  ASSUME FInv, phase \in {"open", "read"}, Fail, ~clean, clean' = clean
  PROVE  Called' /\ Blamed'
<1>1. phase' = "failing" \/ result' = "error"
  BY DEF Fail, Return
<1>2. Excused' /\ ~Blameless'
  BY <1>1 DEF Excused, Blameless
<1> QED
  BY <1>2 DEF Called, Blamed

LEMMA AskAwaits ==
  ASSUME LInv, up = <<>>, worker' = "idle", fifo' = <<>>, down' = <<>>,
         NEW cmd \in {"open", "read", "close"}, Ask(cmd), Expected' = cmd,
         phase' \in {"open", "read", "closing"}, result' = "none",
         clean' /\ phase' = "read" => channel' # <<>>
  PROVE  Called' /\ Blamed'
<1>1. up' = <<cmd>> /\ parse' = "magic"
  BY DEF Ask
<1>2. Awaited'
  BY <1>1 DEF Awaited
<1> QED
  BY <1>2 DEF Called, Blamed

\* A block in an answer to READ fills the hook's buffer at most.
LEMMA BlockIsTaken ==
  ASSUME LInv, phase = "read", parse = "cks"
  PROVE  head[2] \in 0..CHUNK_SIZE
<1>1. PICK f \in Files : /\ InOrder(f) /\ memory # <<>>
                         /\ head[2] # 0 => memory[Len(memory)][2] = head[2]
  BY DEF LInv, Reading
<1>2. memory \in Seq(Part) /\ head[2] \in Nat
  BY DEF LInv, HookTypes
<1> DEFINE l == Len(memory)
<1>3. l \in 1..Len(memory) /\ memory[l] \in Part
  BY <1>1, <1>2
<1>4. IsData(memory[l])
  BY <1>1, <1>3 DEF InOrder
<1>5. memory[l][2] \in 1..CHUNK_SIZE
  BY <1>3, <1>4, BlockParts
<1> DEFINE h == head[2]  b == memory[l][2]
<1>6. h \in Nat /\ b \in 1..CHUNK_SIZE /\ (h # 0 => b = h)
  BY <1>1, <1>2, <1>5
<1> HIDE DEF h, b
<1>7. h \in 0..CHUNK_SIZE
  BY <1>6 DEF CHUNK_SIZE
<1> QED
  BY <1>7 DEF h

LEMMA TakeCksCalls ==
  ASSUME FInv, Blameless, phase # "idle", fifo # <<>>, parse = "cks", TakeCks(Head(fifo)),
         UNCHANGED <<down, server, disk, counts, clean, spoilt>>, up = <<>>, worker = "idle",
         NEW st \in {"ok", "eof", "error"}, NEW n \in Nat,
         AnswerOf(Stream, Expected, st, n), clean => Good(st, n)
  PROVE  Called' /\ Blamed'
<1>1. /\ LInv /\ phase \in {"open", "read", "closing"} /\ result = "none"
  BY DEF FInv, LInv, HookTypes, Opening, Blameless
<1>2. Head(fifo) = Cks /\ head = <<st, n>> /\ Tail(fifo) = <<>> /\ down = <<>>
  BY <1>1, NextOfAnswer
<1>3. Succeed /\ fifo' = <<>> /\ down' = <<>> /\ worker' = "idle" /\ channel' = channel
  BY <1>2 DEF TakeCks, server
<1>4. head[1] = st /\ head[2] = n
  BY <1>2
<1>5. CASE phase = "open" /\ st = "ok"
  <2>1. phase' = "read" /\ Ask("read") /\ result' = "none"
    BY <1>1, <1>3, <1>4, <1>5 DEF Succeed
  <2>2. Expected' = "read" /\ (clean' => channel' # <<>>)
    BY <1>3, <1>5, <2>1 DEF Expected, Good
  <2> DEFINE cmd == "read"
  <2>3. cmd \in {"open", "read", "close"} /\ Ask(cmd) /\ Expected' = cmd
    BY <2>1, <2>2
  <2> HIDE DEF cmd
  <2> QED
    BY <1>1, <1>3, <2>1, <2>2, <2>3, AskAwaits
<1>6. CASE phase = "open" /\ st # "ok"
  <2>1. Fail
    BY <1>3, <1>4, <1>6 DEF Succeed
  <2>2. ~clean
    BY <1>6 DEF Good
  <2> QED
    BY <1>6, <2>1, <2>2, FailBlames
<1>7. CASE phase = "read" /\ n = CHUNK_SIZE
  <2>1. phase' = "read" /\ Ask("read") /\ result' = "none"
    BY <1>1, <1>3, <1>4, <1>7 DEF Succeed
  <2>2. Expected' = "read" /\ (clean' => channel' # <<>>)
    BY <1>3, <1>7, <2>1 DEF Expected, Good
  <2> DEFINE cmd == "read"
  <2>3. cmd \in {"open", "read", "close"} /\ Ask(cmd) /\ Expected' = cmd
    BY <2>1, <2>2
  <2> HIDE DEF cmd
  <2> QED
    BY <1>1, <1>3, <2>1, <2>2, <2>3, AskAwaits
<1>8. CASE phase = "read" /\ n # CHUNK_SIZE
  <2>1. n < CHUNK_SIZE
    <3>1. head[2] \in 0..CHUNK_SIZE
      BY <1>1, <1>8, BlockIsTaken
    <3>2. n \in 0..CHUNK_SIZE
      BY <1>4, <3>1
    <3> QED
      BY <1>8, <3>2 DEF CHUNK_SIZE
  <2>2. phase' = "closing" /\ Ask("close") /\ result' = "none"
    BY <1>1, <1>3, <1>4, <1>8, <2>1 DEF Succeed
  <2> DEFINE cmd == "close"
  <2>3. cmd \in {"open", "read", "close"} /\ Ask(cmd) /\ Expected' = cmd
    BY <2>2 DEF Expected
  <2> HIDE DEF cmd
  <2> QED
    BY <1>1, <1>3, <2>2, <2>3, AskAwaits
<1>9. CASE phase = "closing"
  <2>1. Return("ok")
    BY <1>3, <1>9 DEF Succeed, Fail
  <2>2. phase' = "idle" /\ result' = "ok" /\ Resting'
    BY <1>3, <2>1 DEF Return, Resting
  <2> QED
    BY <2>2 DEF Called, Blamed
<1> QED
  BY <1>1, <1>5, <1>6, <1>7, <1>8, <1>9

-----------------------------------------------------------------------------
(* What up to five parts take in the FIFO: the sum is a fold over the places, *)
(* in whatever order CHOOSE takes them, and unfolds one place at a time.      *)

Worth(fun, i, s) == IF i \in s THEN fun[i] ELSE 0
FiveOf(fun, s) ==
  Worth(fun, 1, s) + (Worth(fun, 2, s) + (Worth(fun, 3, s) + (Worth(fun, 4, s) + Worth(fun, 5, s))))
Sums(fun, it) == it = [s \in SUBSET DOMAIN fun |->
       IF s = {} THEN 0 ELSE fun[CHOOSE x \in s : TRUE] + it[s \ {CHOOSE x \in s : TRUE}]]

LEMMA SumUnfolds ==
  ASSUME NEW fun
  PROVE SumFunction(fun) = (CHOOSE it : Sums(fun, it))[DOMAIN fun]
BY DEF SumFunction, SumFunctionOnSet, FoldFunctionOnSet, MapThenFoldSet, Sums

LEMMA FiveWithout ==
  ASSUME NEW fun, NEW s \in SUBSET (1..5), NEW x \in s, \A i \in s : fun[i] \in Nat
  PROVE  FiveOf(fun, s) = fun[x] + FiveOf(fun, s \ {x})
<1> DEFINE t == s \ {x}  a(i) == Worth(fun, i, s)  b(i) == Worth(fun, i, t)
<1>1. x \in {1, 2, 3, 4, 5} /\ a(x) = fun[x] /\ b(x) = 0 /\ a(x) \in Nat
  BY DEF Worth
<1>2. \A i \in {1, 2, 3, 4, 5} : i # x => a(i) = b(i) /\ a(i) \in Nat
  BY DEF Worth
<1>3. FiveOf(fun, s) = a(1) + (a(2) + (a(3) + (a(4) + a(5))))
  BY DEF FiveOf
<1>4. FiveOf(fun, t) = b(1) + (b(2) + (b(3) + (b(4) + b(5))))
  BY DEF FiveOf
<1> HIDE DEF a, b, t
<1>5. CASE x = 1
  BY <1>1, <1>2, <1>3, <1>4, <1>5 DEF t
<1>6. CASE x = 2
  BY <1>1, <1>2, <1>3, <1>4, <1>6 DEF t
<1>7. CASE x = 3
  BY <1>1, <1>2, <1>3, <1>4, <1>7 DEF t
<1>8. CASE x = 4
  BY <1>1, <1>2, <1>3, <1>4, <1>8 DEF t
<1>9. CASE x = 5
  BY <1>1, <1>2, <1>3, <1>4, <1>9 DEF t
<1> QED
  BY <1>1, <1>5, <1>6, <1>7, <1>8, <1>9

LEMMA SumOfFive ==
  ASSUME NEW n \in 0..5, NEW fun, DOMAIN fun = 1..n, \A i \in 1..n : fun[i] \in Nat
  PROVE  SumFunction(fun) = FiveOf(fun, 1..n)
<1> DEFINE D == 1..n  c(s) == CHOOSE x \in s : TRUE
<1>1. D \subseteq 1..5 /\ IsFiniteSet(D) /\ Cardinality(D) = n
  <2>1. 1 \in Int /\ n \in Int
    OBVIOUS
  <2>2. IsFiniteSet(1..n) /\ Cardinality(1..n) = IF 1 > n THEN 0 ELSE n - 1 + 1
    BY <2>1, FS_Interval
  <2> QED
    BY <2>2
<1>2. ASSUME NEW s \in SUBSET D, s # {}
      PROVE  c(s) \in s /\ FiveOf(fun, s) = fun[c(s)] + FiveOf(fun, s \ {c(s)})
  <2>1. c(s) \in s
    BY <1>2
  <2>2. s \in SUBSET (1..5) /\ \A i \in s : fun[i] \in Nat
    BY <1>1
  <2> HIDE DEF c
  <2> QED
    BY <2>1, <2>2, FiveWithout, ZenonT(40)
<1>3. FiveOf(fun, {}) = 0
  BY DEF FiveOf, Worth
<1> DEFINE w == [s \in SUBSET D |-> FiveOf(fun, s)]
<1>4. Sums(fun, w)
  <2> SUFFICES ASSUME NEW s \in SUBSET D
               PROVE  w[s] = IF s = {} THEN 0 ELSE fun[c(s)] + w[s \ {c(s)}]
    BY DEF Sums
  <2>1. w[s] = FiveOf(fun, s) /\ w[s \ {c(s)}] = FiveOf(fun, s \ {c(s)})
    OBVIOUS
  <2> HIDE DEF w, c
  <2> QED
    BY <1>2, <1>3, <2>1
<1> DEFINE it == CHOOSE it : Sums(fun, it)
<1>5. Sums(fun, it)
  <2> HIDE DEF w
  <2> QED
    BY <1>4
<1> HIDE DEF w, it
<1>6. ASSUME NEW s \in SUBSET D
      PROVE  it[s] = IF s = {} THEN 0 ELSE fun[c(s)] + it[s \ {c(s)}]
  BY <1>5 DEF Sums
<1> DEFINE Q(k) == \A s \in SUBSET D : Cardinality(s) <= k => it[s] = FiveOf(fun, s)
<1>7. Q(0)
  <2> SUFFICES ASSUME NEW s \in SUBSET D, Cardinality(s) <= 0 PROVE it[s] = FiveOf(fun, s)
    OBVIOUS
  <2>1. IsFiniteSet(s) /\ Cardinality(s) \in Nat
    BY <1>1, FS_Subset, FS_CardinalityType
  <2>2. Cardinality(s) = 0
    BY <2>1
  <2>3. s = {}
    BY <2>1, <2>2, FS_EmptySet
  <2> QED
    BY <1>3, <1>6, <2>3
<1>8. ASSUME NEW k \in Nat, Q(k) PROVE Q(k + 1)
  <2> SUFFICES ASSUME NEW s \in SUBSET D, Cardinality(s) <= k + 1 PROVE it[s] = FiveOf(fun, s)
    OBVIOUS
  <2>1. CASE s = {}
    BY <1>3, <1>6, <2>1
  <2>2. CASE s # {}
    <3>1. IsFiniteSet(s) /\ Cardinality(s) \in Nat
      BY <1>1, FS_Subset, FS_CardinalityType
    <3>2. c(s) \in s
      BY <2>2
    <3> HIDE DEF c
    <3>3. Cardinality(s \ {c(s)}) = Cardinality(s) - 1
      BY <3>1, <3>2, FS_RemoveElement
    <3>4. it[s \ {c(s)}] = FiveOf(fun, s \ {c(s)})
      <4> DEFINE t == s \ {c(s)}
      <4>1. t \in SUBSET D
        OBVIOUS
      <4> HIDE DEF t
      <4>2. Cardinality(t) <= k
        BY <3>1, <3>3 DEF t
      <4>3. it[t] = FiveOf(fun, t)
        BY <1>8, <4>1, <4>2
      <4> QED
        BY <4>3 DEF t
    <3> QED
      BY <1>2, <1>6, <2>2, <3>4 DEF c
  <2> QED
    BY <2>1, <2>2
<1> HIDE DEF Q
<1>9. Q(1) /\ Q(2) /\ Q(3)
  <2>1. Q(0 + 1)
    BY <1>7, <1>8
  <2>2. Q(1)
    BY <2>1
  <2>3. Q(1 + 1)
    BY <1>8, <2>2
  <2>4. Q(2)
    BY <2>3
  <2>5. Q(2 + 1)
    BY <1>8, <2>4
  <2> QED
    BY <2>2, <2>4, <2>5
<1>10. Q(5)
  <2>1. Q(3 + 1)
    BY <1>8, <1>9
  <2>2. Q(4)
    BY <2>1
  <2>3. Q(4 + 1)
    BY <1>8, <2>2
  <2> QED
    BY <2>3
<1>11. it[D] = FiveOf(fun, D)
  <2>1. D \in SUBSET D /\ Cardinality(D) <= 5
    BY <1>1
  <2> QED
    BY <1>10, <2>1 DEF Q
<1> QED
  BY <1>11, SumUnfolds DEF it

\* What is between the drive and the hook is one answer, and that has room in the FIFO.
LEMMA AnswerSizes ==
  ASSUME NEW s, NEW cmd, NEW st, NEW n \in Nat, AnswerOf(s, cmd, st, n), NEW i \in 1..Len(s)
  PROVE  Size(s[i]) \in 0..CHUNK_SIZE /\ (i # 5 => Size(s[i]) \in 0..2) /\ Len(s) <= 6
<1>1. Len(s) \in {5, 6} /\ i \in {1, 2, 3, 4, 5, 6} /\ n \in 0..CHUNK_SIZE
  BY DEF AnswerOf, CHUNK_SIZE
<1>2. /\ Size(Magic) = 1 /\ Size(Cks) = 1 /\ Size(<<"cmd", cmd>>) = 1 /\ Size(<<"status", st>>) = 1
      /\ Size(<<"len", n>>) = 2
  BY DEF Size, Magic, Cks
<1>3. /\ Size(s[1]) = 1 /\ Size(s[2]) = 1 /\ Size(s[3]) = 1 /\ Size(s[4]) = 2
      /\ n # 0 => Size(s[5]) = n
  BY <1>2 DEF AnswerOf
<1>4. IF n = 0 THEN Len(s) = 5 /\ Size(s[5]) = 1 ELSE Len(s) = 6 /\ Size(s[6]) = 1
  <2>1. Len(s) = (IF n = 0 THEN 5 ELSE 6) /\ s[Len(s)] = Cks
    BY DEF AnswerOf
  <2>2. CASE n = 0
    BY <1>2, <2>1, <2>2
  <2>3. CASE n # 0
    BY <1>2, <2>1, <2>3
  <2> QED
    BY <2>2, <2>3
<1> DEFINE z(k) == Size(s[k])  l == Len(s)
<1>5. /\ z(1) = 1 /\ z(2) = 1 /\ z(3) = 1 /\ z(4) = 2 /\ (n # 0 => z(5) = n)
      /\ n = 0 => l = 5 /\ z(5) = 1
      /\ n # 0 => l = 6 /\ z(6) = 1
  BY <1>3, <1>4
<1>6. (i = 1 \/ i = 2 \/ i = 3 \/ i = 4 \/ i = 5 \/ i = 6) /\ l <= 6
  <2>1. l = 5 \/ l = 6
    BY <1>1
  <2>2. l <= 6
    <3> HIDE DEF l
    <3> QED
      BY <2>1
  <2> QED
    BY <1>1, <2>2
<1>7. n = 0 => i # 6
  <2>1. i \in 1..l /\ (n = 0 => l = 5)
    BY <1>5
  <2> HIDE DEF l
  <2> QED
    BY <2>1
<1>8. n \in 0..CHUNK_SIZE
  BY <1>1
<1> DEFINE y == z(i)
<1>9. (i # 5 => y = 1 \/ y = 2) /\ (y = 1 \/ y = 2 \/ y = n)
  <2>1. /\ i = 1 => y = z(1)
        /\ i = 2 => y = z(2)
        /\ i = 3 => y = z(3)
        /\ i = 4 => y = z(4)
        /\ i = 5 => y = z(5)
        /\ i = 6 => y = z(6)
    OBVIOUS
  <2>2. /\ z(1) = 1 /\ z(2) = 1 /\ z(3) = 1 /\ z(4) = 2 /\ (z(5) = 1 \/ z(5) = n)
        /\ i = 6 => z(6) = 1
    BY <1>5, <1>7
  <2> HIDE DEF y, z
  <2> QED
    BY <1>6, <2>1, <2>2
<1> HIDE DEF y, z, l
<1>10. y \in 0..CHUNK_SIZE /\ (i # 5 => y \in 0..2)
  <2>1. 1 \in 0..CHUNK_SIZE /\ 2 \in 0..CHUNK_SIZE /\ 1 \in 0..2 /\ 2 \in 0..2
    BY DEF CHUNK_SIZE
  <2>2. CASE y = 1
    BY <2>1, <2>2
  <2>3. CASE y = 2
    BY <2>1, <2>3
  <2>4. CASE y # 1 /\ y # 2
    BY <1>8, <1>9, <2>4
  <2> QED
    BY <2>2, <2>3, <2>4
<1> QED
  BY <1>6, <1>10 DEF y, z, l

\* At most one of them is long.
LEMMA FiveNumbers ==
  ASSUME NEW a \in 0..128, NEW b \in 0..128, NEW c \in 0..128, NEW d \in 0..128, NEW e \in 0..128,
         NEW j \in Int, j # 1 => a \in 0..2, j # 2 => b \in 0..2, j # 3 => c \in 0..2,
         j # 4 => d \in 0..2, j # 5 => e \in 0..2
  PROVE  a + (b + (c + (d + e))) \in 0..136
OBVIOUS

LEMMA CalledFits ==
  ASSUME FInv, Blameless
  PROVE  FifoHasRoom
<1> SUFFICES ASSUME down # <<>> PROVE Size(Head(down)) <= FIFO_DEPTH - Stored
  BY DEF FifoHasRoom
<1>1. LInv /\ Coming
  BY DEF FInv, Called, Resting, Awaited
<1>2. PICK st \in {"ok", "eof", "error"}, n \in Nat : AnswerOf(Stream, Expected, st, n)
  BY <1>1 DEF Coming
<1> DEFINE s == Stream  u == Taken  t == Len(u)  m == Len(fifo)  x == fifo \o down
<1>3. u \in Seq(Part) /\ fifo \in Seq(Part) /\ down \in Seq(Part) /\ s = u \o x
  BY <1>1, StreamType
<1> HIDE DEF s, u, x
<1>4. /\ x \in Seq(Part) /\ Len(x) = m + Len(down) /\ (\A k \in 1..m : x[k] = fifo[k])
      /\ (\A k \in 1..Len(down) : x[m + k] = down[k])
  BY <1>3, Joined DEF x
<1>5. Len(s) = t + Len(x) /\ \A k \in 1..Len(x) : s[t + k] = x[k]
  BY <1>3, <1>4, Joined
<1>6. t \in Nat /\ m \in Nat /\ Len(down) \in Nat \ {0} /\ Head(down) = down[1]
  BY <1>3
<1>7. \A i \in 1..Len(s) :
        Size(s[i]) \in 0..CHUNK_SIZE /\ (i # 5 => Size(s[i]) \in 0..2) /\ Len(s) <= 6
  BY <1>2, AnswerSizes DEF s
<1>8. \A k \in 1..m : t + k \in 1..Len(s) /\ fifo[k] = s[t + k]
  BY <1>4, <1>5, <1>6
<1>9. t + (m + 1) \in 1..Len(s) /\ Head(down) = s[t + (m + 1)]
  BY <1>4, <1>5, <1>6
<1>10. m \in 0..5
  <2> DEFINE l == Len(s)
  <2>1. l <= 6 /\ t + (m + 1) \in 1..l
    BY <1>7, <1>9
  <2>2. l \in Nat
    BY <1>4, <1>5, <1>6
  <2> HIDE DEF l, t, m
  <2> QED
    BY <1>6, <2>1, <2>2
<1> DEFINE fun == [k \in 1..m |-> Size(fifo[k])]
<1>11. /\ DOMAIN fun = 1..m
       /\ \A k \in 1..m : fun[k] \in 0..CHUNK_SIZE /\ (t + k # 5 => fun[k] \in 0..2)
  BY <1>7, <1>8
<1>12. Stored = SumFunction(fun)
  BY DEF Stored
<1> HIDE DEF fun
<1>13. Stored = FiveOf(fun, 1..m)
  <2>1. \A k \in 1..m : fun[k] \in Nat
    <3> HIDE DEF m, t
    <3> SUFFICES ASSUME NEW k \in 1..m PROVE fun[k] \in Nat
      OBVIOUS
    <3> DEFINE v == fun[k]
    <3>1. v \in 0..CHUNK_SIZE
      BY <1>11
    <3> HIDE DEF v
    <3>2. v \in Nat
      BY <3>1 DEF CHUNK_SIZE
    <3> QED
      BY <3>2 DEF v
  <2> QED
    BY <1>10, <1>11, <1>12, <2>1, SumOfFive
<1> DEFINE w(k) == Worth(fun, k, 1..m)  h == Size(Head(down))
<1>14. \A k \in {1, 2, 3, 4, 5} :
         w(k) \in 0..CHUNK_SIZE /\ (t + k # 5 => w(k) \in 0..2) /\ (k > m => w(k) = 0)
  BY <1>6, <1>11 DEF Worth, CHUNK_SIZE
<1>15. Stored = w(1) + (w(2) + (w(3) + (w(4) + w(5))))
  BY <1>13 DEF FiveOf
<1>16. h \in 0..CHUNK_SIZE /\ (t + (m + 1) # 5 => h \in 0..2)
  BY <1>7, <1>9
<1> HIDE DEF w, h, t, m
<1> DEFINE j == 5 - t
<1>17. /\ w(1) \in 0..128 /\ w(2) \in 0..128 /\ w(3) \in 0..128 /\ w(4) \in 0..128 /\ w(5) \in 0..128
       /\ j \in Int /\ (j # 1 => w(1) \in 0..2) /\ (j # 2 => w(2) \in 0..2)
       /\ (j # 3 => w(3) \in 0..2) /\ (j # 4 => w(4) \in 0..2) /\ (j # 5 => w(5) \in 0..2)
  BY <1>6, <1>14 DEF CHUNK_SIZE
<1>18. Stored \in 0..136
  <2> DEFINE a == w(1)  b == w(2)  c == w(3)  d == w(4)  e == w(5)
  <2>1. /\ a \in 0..128 /\ b \in 0..128 /\ c \in 0..128 /\ d \in 0..128 /\ e \in 0..128
        /\ j \in Int /\ (j # 1 => a \in 0..2) /\ (j # 2 => b \in 0..2)
        /\ (j # 3 => c \in 0..2) /\ (j # 4 => d \in 0..2) /\ (j # 5 => e \in 0..2)
    BY <1>17
  <2>2. Stored = a + (b + (c + (d + e)))
    BY <1>15
  <2> HIDE DEF a, b, c, d, e, j
  <2> QED
    BY <2>1, <2>2, FiveNumbers, ZenonT(40)
<1>19. CASE t + (m + 1) = 5
  <2>1. w(1) \in 0..2 /\ w(2) \in 0..2 /\ w(3) \in 0..2 /\ w(4) \in 0..2 /\ w(5) \in 0..2
    BY <1>6, <1>10, <1>14, <1>19
  <2>2. Stored \in 0..10
    BY <1>15, <2>1
  <2>3. h <= FIFO_DEPTH - Stored
    BY <1>16, <2>2 DEF FIFO_DEPTH, CHUNK_SIZE
  <2> QED
    BY <2>3 DEF h
<1>20. CASE t + (m + 1) # 5
  <2>1. h <= FIFO_DEPTH - Stored
    BY <1>16, <1>18, <1>20 DEF FIFO_DEPTH, CHUNK_SIZE
  <2> QED
    BY <2>1 DEF h
<1> QED
  BY <1>19, <1>20

LEMMA ReceiveCalls ==
  ASSUME FInv, Blameless, Receive
  PROVE  Called' /\ Blamed'
<1>1. /\ LInv /\ phase \in {"open", "read", "closing"} /\ result = "none" /\ fifo # <<>>
      /\ parse \in {"magic", "cmd", "status", "len", "payload", "cks"}
      /\ UNCHANGED <<down, server, disk, counts, clean, spoilt>>
  BY DEF FInv, LInv, HookTypes, Opening, Blameless, Receive
<1>2. Coming
  BY <1>1 DEF FInv, Called, Awaited
<1>3. PICK st \in {"ok", "eof", "error"}, n \in Nat :
        AnswerOf(Stream, Expected, st, n) /\ (clean => Good(st, n))
  BY <1>2 DEF Coming
<1>4. up = <<>> /\ worker = "idle" /\ (parse = "payload" => head[2] # 0)
  BY <1>2 DEF Coming
<1> DEFINE part == Head(fifo)
<1>5. /\ parse = "magic" => part = Magic
      /\ parse = "cmd" => part = <<"cmd", Expected>>
      /\ parse = "status" => part = <<"status", st>>
      /\ parse = "len" => part = <<"len", n>>
      /\ parse = "payload" => Filled(part) /\ Size(part) = head[2]
  BY <1>1, <1>3, <1>4, NextOfAnswer
<1>6. parse = "len" => head[1] = st
  BY <1>1, <1>3, <1>4, NeverWhole
<1>7. Onward
  BY <1>1, ReceiveKeeps
<1>8. worker' = "idle" /\ channel' = channel
  BY <1>1, <1>4 DEF server
<1> HIDE DEF part
<1>9. ASSUME \E state \in {"cmd", "status", "len", "payload", "cks"} : Parse(state),
             parse' = "payload" => head'[2] # 0, memory' = memory \/ memory' # <<>>
      PROVE  Called' /\ Blamed'
  <2>1. UNCHANGED <<phase, result>> /\ up' = up /\ parse' # "magic"
    BY <1>9 DEF Parse
  <2>2. Stream' = Stream
    BY <1>7, <2>1 DEF Onward
  <2> QED
    BY <1>1, <1>3, <1>4, <1>8, <1>9, <2>1, <2>2, ComingStays
<1>10. CASE parse = "magic"
  <2>1. TakeMagic(part)
    BY <1>10 DEF Receive, TakeCmd, TakeStatus, TakeLen, TakePayload, TakeCks, part
  <2>2. Parse("cmd") /\ memory' = memory
    BY <1>5, <1>10, <2>1 DEF TakeMagic
  <2>3. parse' = "cmd"
    BY <2>2 DEF Parse
  <2> QED
    BY <1>9, <2>2, <2>3
<1>11. CASE parse = "cmd"
  <2>1. TakeCmd(part)
    BY <1>11 DEF Receive, TakeMagic, TakeStatus, TakeLen, TakePayload, TakeCks, part
  <2>2. Parse("status") /\ memory' = memory
    BY <1>5, <1>11, <2>1 DEF TakeCmd
  <2>3. parse' = "status"
    BY <2>2 DEF Parse
  <2> QED
    BY <1>9, <2>2, <2>3
<1>12. CASE parse = "status"
  <2>1. TakeStatus(part)
    BY <1>12 DEF Receive, TakeMagic, TakeCmd, TakeLen, TakePayload, TakeCks, part
  <2>2. part[1] = "status" /\ part[2] = st
    BY <1>5, <1>12
  <2>3. CASE phase = "read" => st # "error"
    <3>1. Parse("len") /\ memory' = memory
      BY <1>3, <2>1, <2>2, <2>3 DEF TakeStatus
    <3>2. parse' = "len"
      BY <3>1 DEF Parse
    <3> QED
      BY <1>9, <3>1, <3>2
  <2>4. CASE phase = "read" /\ st = "error"
    <3>1. Fail
      BY <2>1, <2>2, <2>4 DEF TakeStatus, Misread
    <3>2. ~clean
      BY <1>3, <2>4 DEF Good
    <3> QED
      BY <1>1, <2>4, <3>1, <3>2, FailBlames
  <2> QED
    BY <2>3, <2>4
<1>13. CASE parse = "len"
  <2>1. TakeLen(part)
    BY <1>13 DEF Receive, TakeMagic, TakeCmd, TakeStatus, TakePayload, TakeCks, part
  <2>2. part[1] = "len" /\ part[2] = n
    BY <1>5, <1>13
  <2>3. CASE ~(phase = "read" /\ n = 0 /\ memory = <<>>)
    <3>1. /\ Parse(IF n = 0 THEN "cks" ELSE "payload") /\ head' = <<head[1], n>>
          /\ memory' = memory
      BY <2>1, <2>2, <2>3 DEF TakeLen
    <3>2. parse' = "payload" => head'[2] # 0
      BY <3>1 DEF Parse
    <3>3. \E state \in {"cmd", "status", "len", "payload", "cks"} : Parse(state)
      BY <3>1
    <3> QED
      BY <1>9, <3>1, <3>2, <3>3
  <2>4. CASE phase = "read" /\ n = 0 /\ memory = <<>>
    <3>1. Fail
      BY <2>1, <2>2, <2>4 DEF TakeLen, Misread
    <3>2. ~clean
      BY <1>3, <2>4 DEF Good
    <3> QED
      BY <1>1, <2>4, <3>1, <3>2, FailBlames
  <2> QED
    BY <2>3, <2>4
<1>14. CASE parse = "payload"
  <2>1. TakePayload(part)
    BY <1>14 DEF Receive, TakeMagic, TakeCmd, TakeStatus, TakeLen, TakeCks, part
  <2>2. part[1] \in {"text", "data"} /\ Size(part) = head[2]
    BY <1>5, <1>14 DEF Filled
  <2>3. Parse("cks") /\ memory' = (IF phase = "read" THEN Append(memory, part) ELSE memory)
    BY <2>1, <2>2 DEF TakePayload
  <2>4. memory \in Seq(Part)
    BY <1>1 DEF LInv, HookTypes
  <2>5. memory' = memory \/ memory' # <<>>
    BY <2>3, <2>4
  <2>6. parse' = "cks"
    BY <2>3 DEF Parse
  <2> QED
    BY <1>9, <2>3, <2>5, <2>6
<1>15. CASE parse = "cks"
  <2>1. TakeCks(part)
    BY <1>15 DEF Receive, TakeMagic, TakeCmd, TakeStatus, TakeLen, TakePayload, part
  <2>2. TakeCks(Head(fifo))
    BY <2>1 DEF part
  <2> QED
    BY <1>1, <1>3, <1>4, <1>15, <2>2, TakeCksCalls
<1> QED
  BY <1>1, <1>10, <1>11, <1>12, <1>13, <1>14, <1>15

\* An answer that was asked for comes.
LEMMA TimeOutCannot ==
  ASSUME FInv, Blameless, TimeOut
  PROVE  FALSE
<1>1. LInv /\ phase # "idle" /\ up = <<>> /\ down = <<>> /\ fifo = <<>>
  BY DEF FInv, TimeOut, Quiet
<1>2. Coming
  BY <1>1 DEF FInv, Called, Awaited
<1>3. PICK st \in {"ok", "eof", "error"}, n \in Nat : AnswerOf(Stream, Expected, st, n)
  BY <1>2 DEF Coming
<1>4. Len(Taken) < Len(Stream)
  BY <1>1, <1>2, <1>3, NeverWhole DEF Coming
<1>5. Taken \in Seq(Part) /\ Stream = Taken \o (<<>> \o <<>>)
  BY <1>1, StreamType
<1> HIDE DEF Taken
<1>6. Stream = Taken
  BY <1>5
<1>7. Len(Taken) \in Nat
  BY <1>5
<1> QED
  BY <1>4, <1>6, <1>7

LEMMA DeliverCalls ==
  ASSUME FInv, Blameless, Deliver
  PROVE  Called' /\ Blamed'
<1>1. /\ LInv /\ down # <<>> /\ UNCHANGED <<hook, up, server, disk, counts, clean, spoilt>>
  BY DEF FInv, Deliver
<1>2. phase # "idle" /\ Coming
  BY <1>1 DEF FInv, Called, Resting, Awaited
<1>3. PICK st \in {"ok", "eof", "error"}, n \in Nat :
        AnswerOf(Stream, Expected, st, n) /\ (clean => Good(st, n))
  BY <1>2 DEF Coming
<1>4. Stream' = Stream
  BY <1>1, CalledFits, DeliverKeeps
<1>5. /\ up' = <<>> /\ worker' = "idle" /\ (parse' = "payload" => head'[2] # 0)
      /\ UNCHANGED <<phase, result, channel, memory, clean>>
  BY <1>1, <1>2 DEF Coming, hook, server
<1>6. result = "none" /\ phase # "failing"
  BY <1>1, <1>2 DEF LInv, Opening, Blameless
<1> QED
  BY <1>1, <1>2, <1>3, <1>4, <1>5, <1>6, ComingStays

-----------------------------------------------------------------------------
(* The drive answers what it was asked. *)

\* Two answers, of six parts and of five.
LEMMA FullAnswer ==
  ASSUME NEW cmd \in {"open", "read", "close"}, NEW st \in {"ok", "error"},
         NEW p \in Part, Filled(p), p[2] <= CHUNK_SIZE
  PROVE  AnswerOf(Frame(cmd, st, <<p>>), cmd, st, p[2]) /\ p[2] \in Nat
<1> DEFINE x == Frame(cmd, st, <<p>>)
<1>1. /\ x \in Seq(Part) /\ Len(x) = 6
      /\ x[1] = Magic /\ x[2] = <<"cmd", cmd>> /\ x[3] = <<"status", st>>
      /\ x[4] = <<"len", p[2]>> /\ x[5] = p /\ x[6] = Cks
  <2>1. cmd \in {"open", "read", "close"} /\ st \in {"ok", "error"} /\ p \in Part /\ Filled(p)
    OBVIOUS
  <2> QED
    BY <2>1, FrameParts, ZenonT(40)
<1> DEFINE n == p[2]
<1>2. n \in Nat \ {0}
  BY FilledParts
<1>3. Size(p) = n
  BY DEF Filled, Size
<1> HIDE DEF x, n
<1>4. x[Len(x)] = Cks /\ x[4] = <<"len", n>>
  BY <1>1 DEF n
<1>5. AnswerOf(x, cmd, st, n) /\ n \in Nat
  BY <1>1, <1>2, <1>3, <1>4, n <= CHUNK_SIZE DEF AnswerOf
<1> QED
  BY <1>5 DEF x, n

LEMMA EmptyAnswer == AnswerOf(Frame("read", "eof", <<>>), "read", "eof", 0)
<1> DEFINE x == Frame("read", "eof", <<>>)  cmd == "read"  st == "eof"
<1>1. /\ x \in Seq(Part) /\ Len(x) = 5
      /\ x[1] = Magic /\ x[2] = <<"cmd", cmd>> /\ x[3] = <<"status", st>>
      /\ x[4] = <<"len", 0>> /\ x[5] = Cks
  BY EmptyFrameParts DEF Eof
<1> HIDE DEF x, cmd, st
<1>2. x[Len(x)] = Cks
  BY <1>1
<1>3. AnswerOf(x, cmd, st, 0)
  BY <1>1, <1>2 DEF AnswerOf, CHUNK_SIZE
<1> QED
  BY <1>3 DEF x, cmd, st

\* The answer the hook waits for is on its way.
LEMMA AnswerCalls ==
  ASSUME FInv, phase \in {"open", "read", "closing"}, Awaited,
         NEW st \in {"ok", "eof", "error"}, NEW n \in Nat, NEW x, AnswerOf(x, Expected, st, n),
         up' = Tail(up), down' = down \o x, UNCHANGED <<hook, fifo, clean>>, worker' = "idle",
         clean => /\ st # "error" /\ (phase # "read" => st = "ok")
                  /\ phase = "read" /\ memory = <<>> => n # 0
                  /\ phase \in {"open", "read"} => channel' # <<>>
  PROVE  Called' /\ Blamed'
<1>1. LInv /\ result = "none" /\ up = <<Expected>> /\ fifo = <<>> /\ down = <<>> /\ parse = "magic"
  BY DEF FInv, LInv, Opening, Awaited
<1>2. x \in Seq(Part)
  BY DEF AnswerOf
<1>3. Stream = <<>>
  BY <1>1 DEF Stream, Taken
<1>4. Stream' = Stream \o x
  BY <1>1, <1>2, StreamGrows
<1>5. Stream' = x
  BY <1>2, <1>3, <1>4
<1>6. up' = <<>>
  BY <1>1
<1>7. UNCHANGED <<phase, parse, head, memory, result>> /\ Expected' = Expected
  BY DEF hook, Expected
<1>8. AnswerOf(Stream', Expected', st, n)
  BY <1>5, <1>7
<1>9. AnswerOf(Stream, Expected, st, n)'
  BY <1>8 DEF AnswerOf
<1>10. clean' => Good(st, n)'
  BY <1>7 DEF Good
<1>11. Coming'
  BY <1>1, <1>6, <1>7, <1>9, <1>10 DEF Coming
<1>12. phase' # "idle" /\ phase' # "failing" /\ result' # "error"
  BY <1>1, <1>7
<1> QED
  BY <1>11, <1>12 DEF Called, Blamed

\* Without a request nothing is served.
LEMMA ServedIsAwaited ==
  ASSUME FInv, Blameless, up # <<>>
  PROVE  /\ phase \in {"open", "read", "closing"} /\ Awaited /\ up = <<Expected>>
         /\ Head(up) = Expected
<1>1. Awaited /\ phase \in {"open", "read", "closing"}
  BY DEF FInv, LInv, HookTypes, Called, Resting, Coming, Blameless
<1>2. up = <<Expected>>
  BY <1>1 DEF Awaited
<1> QED
  BY <1>1, <1>2

\* The request stays what the drive has before it.
LEMMA StillAwaited ==
  ASSUME FInv, phase = "open", Awaited, UNCHANGED <<hook, lines, channel, clean>>,
         clean /\ worker' = "found" => entry' = mounted'
  PROVE  Called' /\ Blamed'
<1>1. UNCHANGED <<phase, parse, result, up, down, fifo>> /\ Expected' = Expected /\ result = "none"
  BY DEF hook, lines, Expected, FInv, LInv, Opening
<1>2. Awaited'
  BY <1>1 DEF Awaited
<1> QED
  BY <1>1, <1>2 DEF Called, Blamed

\* Answers that carry a text.
LEMMA TextCalls ==
  ASSUME FInv, phase \in {"open", "read", "closing"}, Awaited,
         NEW st \in {"ok", "error"}, NEW n \in 1..CHUNK_SIZE,
         up' = Tail(up), down' = down \o Frame(Expected, st, Text(n)),
         UNCHANGED <<hook, fifo, clean>>, worker' = "idle",
         clean => st = "ok" /\ (phase \in {"open", "read"} => channel' # <<>>)
  PROVE  Called' /\ Blamed'
<1> DEFINE p == <<"text", n>>  cmd == Expected  x == Frame(cmd, st, Text(n))
<1>1. p \in Part /\ Filled(p) /\ p[2] = n /\ n <= CHUNK_SIZE
  BY DEF Part, Plains, Filled, CHUNK_SIZE
<1>2. Text(n) = <<p>>
  BY DEF Text
<1>3. cmd \in {"open", "read", "close"}
  BY DEF Expected
<1> HIDE DEF p, cmd
<1>4. AnswerOf(Frame(cmd, st, <<p>>), cmd, st, p[2])
  BY <1>1, <1>3, FullAnswer
<1>5. AnswerOf(x, Expected, st, n)
  BY <1>1, <1>2, <1>4 DEF cmd
<1>6. down' = down \o x
  BY DEF cmd
<1> HIDE DEF x
<1>7. st \in {"ok", "eof", "error"} /\ n \in Nat /\ n # 0
  BY DEF CHUNK_SIZE
<1>8. clean => st # "error"
  <2>1. "ok" # "error"
    OBVIOUS
  <2> QED
    BY <2>1
<1> QED
  BY <1>5, <1>6, <1>7, <1>8, AnswerCalls

LEMMA ReadsCalls ==
  ASSUME FInv, Blameless, Reads
  PROVE  Called' /\ Blamed'
<1>1. worker = "idle" /\ up # <<>> /\ Head(up) = "read" /\ channel # <<>> /\ worker' = "idle"
  BY DEF Reads, Asked
<1>2. Awaited /\ Expected = "read" /\ LInv /\ phase = "read" /\ parse = "magic"
  BY <1>1, ServedIsAwaited DEF FInv, Expected, Awaited
<1> DEFINE f == channel[1]  pos == channel[2]  size == Min({CHUNK_SIZE, FileLen[f[1]] - pos})
<1>3. /\ up' = Tail(up) /\ UNCHANGED <<hook, fifo, clean>>
      /\ down' = down \o Frame("read", IF size = 0 THEN "eof" ELSE "ok", Data(f, pos, size))
      /\ channel' = <<f, pos + size>>
  BY DEF Reads, Answer
<1>4. f \in Files /\ pos \in 0..FileLen[f[1]] /\ channel = <<f, pos>>
  BY <1>1, <1>2 DEF LInv, ServerTypes
<1>5. FileLen[f[1]] \in Nat /\ FileLen[f[1]] > 0
  BY <1>4, FileTypes DEF Files
<1>6. /\ size \in 0..CHUNK_SIZE
      /\ size < CHUNK_SIZE => size = FileLen[f[1]] - pos
  <2> DEFINE l == FileLen[f[1]]
  <2>1. l \in Nat /\ pos \in 0..l
    BY <1>4, <1>5
  <2> HIDE DEF l, f, pos
  <2>2. Min({CHUNK_SIZE, l - pos}) = IF CHUNK_SIZE <= l - pos THEN CHUNK_SIZE ELSE l - pos
    BY <2>1, MinOfTwo DEF CHUNK_SIZE
  <2> QED
    BY <2>1, <2>2 DEF l, CHUNK_SIZE
\* The first block of a file is never empty.
<1>7. memory = <<>> => pos = 0
  <2> SUFFICES ASSUME memory = <<>> PROVE pos = 0
    OBVIOUS
  <2>1. PICK g \in Files : Goes(Stream, channel, 0, g, End(Len(memory)))
    BY <1>2 DEF LInv, Reading
  <2>2. End(Len(memory)) = 0
    BY DEF End
  <2>3. Stream = <<>>
    BY <1>2 DEF Awaited, Stream, Taken
  <2>4. Clear(Stream, 0, Len(Stream) + 1)
    BY <2>3 DEF Clear
  <2>5. channel = <<g, 0>>
    BY <1>1, <2>1, <2>2, <2>4 DEF Goes
  <2> QED
    BY <2>5
<1> HIDE DEF f, pos, size
<1>8. memory = <<>> => size # 0
  BY <1>4, <1>5, <1>6, <1>7 DEF CHUNK_SIZE
<1>9. channel' # <<>>
  BY <1>3, PairsAreNotEmpty
<1>10. CASE size = 0
  <2> DEFINE st == "eof"  x == Frame("read", "eof", <<>>)
  <2>1. down' = down \o x
    BY <1>3, <1>10 DEF Data
  <2>2. AnswerOf(x, Expected, st, 0)
    BY <1>2, EmptyAnswer
  <2>3. st \in {"ok", "eof", "error"} /\ st # "error"
    OBVIOUS
  <2> HIDE DEF x, st
  <2> QED
    BY <1>1, <1>2, <1>3, <1>8, <1>9, <1>10, <2>1, <2>2, <2>3, AnswerCalls
<1>11. CASE size # 0
  <2> DEFINE p == <<"data", size, f, pos>>  st == "ok"  cmd == "read"  x == Frame(cmd, st, <<p>>)
  <2>1. size \in 1..CHUNK_SIZE /\ pos \in Nat
    BY <1>4, <1>5, <1>6, <1>11 DEF CHUNK_SIZE
  <2>2. p \in Part /\ Filled(p) /\ p[2] = size /\ p[2] <= CHUNK_SIZE
    BY <1>4, <2>1 DEF Part, Blocks, Filled, CHUNK_SIZE
  <2>3. down' = down \o x
    BY <1>3, <1>11 DEF Data
  <2>4. cmd \in {"open", "read", "close"} /\ st \in {"ok", "error"} /\ cmd = Expected
    BY <1>2
  <2>5. st \in {"ok", "eof", "error"} /\ st # "error"
    OBVIOUS
  <2> HIDE DEF p, st, cmd
  <2>6. AnswerOf(x, Expected, st, size) /\ size \in Nat
    BY <2>2, <2>4, FullAnswer
  <2> HIDE DEF x
  <2> QED
    BY <1>1, <1>2, <1>3, <1>9, <1>11, <2>3, <2>5, <2>6, AnswerCalls
<1> QED
  BY <1>10, <1>11

LEMMA ServerCalls ==
  ASSUME FInv, Blameless, ServerMoves
  PROVE  Called' /\ Blamed'
<1>1. up # <<>>
  BY DEF ServerMoves, OpenFinds, OpenFindsNot, OpenLoads, OpenBreaks, OpenStores, Reads, ReadsNot,
         Closes, Asked, FInv, Serving
<1>2. /\ phase \in {"open", "read", "closing"} /\ Awaited /\ up = <<Expected>> /\ Head(up) = Expected
  BY <1>1, ServedIsAwaited
<1>3. worker # "idle" => phase = "open"
  BY <1>2 DEF Awaited
<1>4. DiskKnown
  BY DEF FInv
<1>5. CASE OpenFinds
  <2>1. /\ Head(up) = "open" /\ entry' = entries
        /\ UNCHANGED <<hook, lines, channel, disk, clean>>
    BY <1>5 DEF OpenFinds, Asked
  <2>2. phase = "open"
    BY <1>2, <2>1 DEF Expected
  <2>3. clean => entry' = mounted'
    BY <1>4, <2>1 DEF DiskKnown, disk
  <2> QED
    BY <1>2, <2>1, <2>2, <2>3, StillAwaited
<1>6. CASE OpenFindsNot
  <2>1. /\ Head(up) = "open" /\ (mounted = 0 \/ ~HasFile(entries)) /\ worker = "idle"
        /\ Answer("open", "error", Text(15)) /\ UNCHANGED server
    BY <1>6 DEF OpenFindsNot, Asked
  <2>2. Expected = "open"
    BY <1>2, <2>1
  <2>3. ~clean
    BY <1>4, <2>1 DEF DiskKnown, HasFile
  <2> DEFINE n == 15  st == "error"
  <2>4. /\ up' = Tail(up) /\ down' = down \o Frame(Expected, st, Text(n)) /\ worker' = "idle"
        /\ UNCHANGED <<hook, fifo, clean>> /\ n \in 1..CHUNK_SIZE /\ st \in {"ok", "error"}
    BY <2>1, <2>2 DEF Answer, server, CHUNK_SIZE
  <2> HIDE DEF n, st
  <2> QED
    BY <1>2, <2>3, <2>4, TextCalls
<1>7. CASE OpenLoads
  <2>1. /\ worker' = "loaded" /\ worker = "found" /\ UNCHANGED <<hook, lines, channel, clean>>
    BY <1>7 DEF OpenLoads
  <2> QED
    BY <1>2, <1>3, <2>1, StillAwaited
<1>8. CASE OpenBreaks
  <2>1. /\ worker = "found" /\ mounted # entry /\ worker' = "idle"
        /\ Answer("open", "error", Text(30))
    BY <1>8 DEF OpenBreaks
  <2>2. Expected = "open"
    BY <1>3, <2>1 DEF Expected
  <2>3. ~clean
    BY <1>2, <2>1 DEF Awaited
  <2> DEFINE n == 30  st == "error"
  <2>4. /\ up' = Tail(up) /\ down' = down \o Frame(Expected, st, Text(n))
        /\ UNCHANGED <<hook, fifo, clean>> /\ n \in 1..CHUNK_SIZE /\ st \in {"ok", "error"}
    BY <2>1, <2>2 DEF Answer, CHUNK_SIZE
  <2> HIDE DEF n, st
  <2> QED
    BY <1>2, <2>1, <2>3, <2>4, TextCalls
<1>9. CASE OpenStores
  <2>1. /\ worker = "loaded" /\ worker' = "idle" /\ channel' = <<file, 0>>
        /\ Answer("open", "ok", StatusText)
    BY <1>9 DEF OpenStores
  <2>2. Expected = "open"
    BY <1>3, <2>1 DEF Expected
  <2>3. PICK n \in 1..CHUNK_SIZE : StatusText = Text(n)
    BY DEF StatusText, CHUNK_SIZE
  <2> DEFINE st == "ok"
  <2>4. /\ up' = Tail(up) /\ down' = down \o Frame(Expected, st, Text(n))
        /\ UNCHANGED <<hook, fifo, clean>> /\ st \in {"ok", "error"} /\ st = "ok"
    BY <2>1, <2>2, <2>3 DEF Answer
  <2>5. channel' # <<>>
    BY <2>1, PairsAreNotEmpty
  <2> HIDE DEF st
  <2> QED
    BY <1>2, <2>1, <2>4, <2>5, TextCalls
<1>10. CASE ReadsNot
  <2>1. /\ Head(up) = "read" /\ channel = <<>> /\ worker = "idle"
        /\ Answer("read", "error", Text(13)) /\ UNCHANGED server
    BY <1>10 DEF ReadsNot, Asked
  <2>2. Expected = "read" /\ phase = "read"
    BY <1>2, <2>1 DEF Expected
  <2>3. ~clean
    BY <1>2, <2>1, <2>2 DEF Awaited
  <2> DEFINE n == 13  st == "error"
  <2>4. /\ up' = Tail(up) /\ down' = down \o Frame(Expected, st, Text(n)) /\ worker' = "idle"
        /\ UNCHANGED <<hook, fifo, clean>> /\ n \in 1..CHUNK_SIZE /\ st \in {"ok", "error"}
    BY <2>1, <2>2 DEF Answer, server, CHUNK_SIZE
  <2> HIDE DEF n, st
  <2> QED
    BY <1>2, <2>3, <2>4, TextCalls
<1>11. CASE Closes
  <2>1. /\ Head(up) = "close" /\ worker = "idle" /\ worker' = worker
        /\ Answer("close", "ok", StatusText)
    BY <1>11 DEF Closes, Asked
  <2>2. Expected = "close" /\ phase = "closing"
    BY <1>2, <2>1 DEF Expected
  <2>3. PICK n \in 1..CHUNK_SIZE : StatusText = Text(n)
    BY DEF StatusText, CHUNK_SIZE
  <2> DEFINE st == "ok"
  <2>4. /\ up' = Tail(up) /\ down' = down \o Frame(Expected, st, Text(n)) /\ worker' = "idle"
        /\ UNCHANGED <<hook, fifo, clean>> /\ st \in {"ok", "error"} /\ st = "ok"
    BY <2>1, <2>2, <2>3 DEF Answer
  <2> HIDE DEF st
  <2> QED
    BY <1>2, <2>2, <2>4, TextCalls
<1> QED
  BY <1>5, <1>6, <1>7, <1>8, <1>9, <1>10, <1>11, ReadsCalls DEF ServerMoves

-----------------------------------------------------------------------------
(* The disk is changed, the line damages something: both excuse a failure. *)

LEMMA ChangesCall ==
  ASSUME FInv, ChangeData \/ GuiMoves
  PROVE  Called' /\ Blamed'
<1>1. UNCHANGED <<hook, up, down, fifo, worker, entry, faults, spoilt>>
  BY DEF ChangeData, GuiMoves, ChangeEntries, ChangeChannels, lines, server, counts
<1>2. ~clean'
  BY DEF FInv, DiskKnown, ChangeData, GuiMoves, ChangeEntries, ChangeChannels
<1>3. Excused'
  BY <1>2 DEF Excused
<1>4. UNCHANGED <<phase, parse, head, memory, result>> /\ Expected' = Expected
  BY <1>1 DEF hook, Expected
<1>5. Blameless' => Blameless
  BY <1>1, <1>4 DEF Blameless
<1>6. Resting => Resting'
  BY <1>1 DEF Resting
<1>7. Awaited => Awaited'
  BY <1>1, <1>2, <1>4 DEF Awaited
<1>8. Coming => Coming'
  <2> SUFFICES ASSUME Coming PROVE Coming'
    OBVIOUS
  <2>1. PICK st \in {"ok", "eof", "error"}, n \in Nat : AnswerOf(Stream, Expected, st, n)
    BY DEF Coming
  <2>2. Stream' = Stream
    BY <1>1, TakenStays DEF Stream
  <2>3. AnswerOf(Stream', Expected', st, n)
    BY <1>4, <2>1, <2>2
  <2>4. AnswerOf(Stream, Expected, st, n)'
    BY <2>3 DEF AnswerOf
  <2> QED
    BY <1>1, <1>2, <1>4, <2>4 DEF Coming
<1> QED
  BY <1>3, <1>4, <1>5, <1>6, <1>7, <1>8 DEF FInv, Called, Blamed

LEMMA DamageExcuses ==
  ASSUME FInv, DamageRequest \/ DamageAnswer
  PROVE  Called' /\ Blamed'
<1>1. faults' = faults + 1 /\ faults \in Nat
  BY DEF FInv, DiskKnown, DamageRequest, DamageAnswer, Faulty
<1>2. faults' > 0
  BY <1>1
<1> QED
  BY <1>2 DEF Excused, Blameless, Called, Blamed

LEMMA IdleStutters ==
  ASSUME FInv, UNCHANGED vars
  PROVE  Called' /\ Blamed'
<1>1. UNCHANGED <<hook, up, down, fifo, server, mounted, faults, clean, spoilt>>
  BY DEF vars, lines, disk, counts
<1>2. UNCHANGED <<phase, parse, head, memory, result, worker, entry, channel>> /\ Expected' = Expected
  BY <1>1 DEF hook, server, Expected
<1>3. Blameless' = Blameless /\ Excused' = Excused
  BY <1>1, <1>2 DEF Blameless, Excused
<1>4. Resting => Resting'
  BY <1>1, <1>2 DEF Resting
<1>5. Awaited => Awaited'
  BY <1>1, <1>2 DEF Awaited
<1>6. Coming => Coming'
  <2> SUFFICES ASSUME Coming PROVE Coming'
    OBVIOUS
  <2>1. PICK st \in {"ok", "eof", "error"}, n \in Nat :
          AnswerOf(Stream, Expected, st, n) /\ (clean => Good(st, n))
    BY DEF Coming
  <2>2. Stream' = Stream
    BY <1>1, TakenStays DEF Stream
  <2>3. AnswerOf(Stream', Expected', st, n)
    BY <1>2, <2>1, <2>2
  <2>4. AnswerOf(Stream, Expected, st, n)'
    BY <2>3 DEF AnswerOf
  <2>5. clean' => Good(st, n)'
    BY <1>1, <1>2, <2>1 DEF Good
  <2> QED
    BY <1>1, <1>2, <2>4, <2>5 DEF Coming
<1> QED
  BY <1>2, <1>3, <1>4, <1>5, <1>6 DEF FInv, Called, Blamed

LEMMA CallsStart == Init => CInv
<1> SUFFICES ASSUME Init PROVE CInv
  OBVIOUS
<1>1. DiskKnown /\ Pending
  BY DEF Init, DiskKnown, Pending
<1>2. Called /\ Blamed
  BY DEF Init, Called, Resting, Blamed
<1> QED
  BY <1>1, <1>2, InvStarts DEF FInv, CInv

LEMMA CallsStay ==
  ASSUME CInv, [Next]_vars
  PROVE  CInv'
<1>1. DiskKnown'
  BY DiskStaysKnown DEF CInv
<1>2. CASE ~Blameless
  BY <1>1, <1>2, BlameStays DEF CInv
<1>3. CASE Blameless
  <2>1. FInv /\ FifoHasRoom
    BY <1>3, CalledFits DEF CInv
  <2>2. LInv' /\ Serving'
    BY <2>1, InvStays DEF FInv
  <2>3. Called' /\ Blamed'
    BY <1>3, <2>1, LoadCalls, ReceiveCalls, TimeOutCannot, DeliverCalls, ServerCalls, ChangesCall,
       DamageExcuses, IdleStutters DEF Next, HookMoves
  <2>4. Pending'
    BY <2>2 DEF LInv, HookTypes, Opening, Pending
  <2> QED
    BY <1>1, <2>2, <2>3, <2>4 DEF FInv, CInv
<1> QED
  BY <1>2, <1>3

\* A LOAD fails only if its disk was changed, absent or without the file, if
\* the line damaged something, or after an earlier LOAD failed.
THEOREM FailureIsExcused == Spec => []FailureHasCause
<1>1. CInv => FailureHasCause
  BY DEF CInv, Blamed, Excused, FailureHasCause
<1>2. CInv /\ [Next]_vars => CInv'
  BY CallsStay
<1> QED
  BY <1>1, <1>2, CallsStart, PTL DEF Spec

\* Until something is damaged or a LOAD fails (Blameless) the FIFO has room for
\* all that comes: no part of an answer is lost for want of room, however long
\* the files and whatever is mounted in between.
THEOREM UndamagedFits == Spec => [](Blameless => FifoHasRoom)
<1>1. CInv => (Blameless => FifoHasRoom)
  BY CalledFits DEF CInv
<1>2. CInv /\ [Next]_vars => CInv'
  BY CallsStay
<1> QED
  BY <1>1, <1>2, CallsStart, PTL DEF Spec

\* Until something is damaged or a LOAD fails, a LOAD that succeeds stored one
\* file, whole and in order, as one OPEN found it, whenever the disk was changed.
THEOREM UndamagedLoadsWhole == Spec => [](faults = 0 /\ ~spoilt => LoadWhole)
<1>1. CInv => (faults = 0 /\ ~spoilt => LoadWhole)
  <2> SUFFICES ASSUME CInv, faults = 0, ~spoilt, result = "ok" PROVE \E f \in Disks \X Disks : Whole(f)
    BY DEF LoadWhole
  <2>1. Blameless
    BY DEF CInv, Pending, Blameless
  <2>2. PICK f \in Files : Whole(f)
    BY <2>1 DEF CInv, FInv, LInv, Finished
  <2>3. f \in Disks \X Disks
    BY DEF Files
  <2> QED
    BY <2>2, <2>3
<1>2. CInv /\ [Next]_vars => CInv'
  BY CallsStay
<1> QED
  BY <1>1, <1>2, CallsStart, PTL DEF Spec
=============================================================================
