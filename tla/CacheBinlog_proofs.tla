------------------------- MODULE CacheBinlog_proofs -------------------------
(***************************************************************************)
(* What the binlog of the cache holds, while no record is torn: the map of *)
(* the database follows from it at any moment, and so does the map that    *)
(* the compacted binlog makes.  For any keys, values and file names, and a *)
(* binlog of any length.                                                   *)
(***************************************************************************)
EXTENDS CacheDatabase_proofs

-----------------------------------------------------------------------------
(* Binlogs of whole records. *)

\* Nothing but whole records.
Whole(log) == \E n \in Nat : Len(log) = 2 * n /\ \A i \in 1..n : IsRecordAt(log, i)

\* Some record of the binlog is about the key.
Mentions(log, k) == \E i \in Readable(log) : RecordAt(log, i)[k] # Same

\* What one record makes of the map before it.
After(r, before, k) == IF r[k] = Same THEN before ELSE r[k]

LEMMA WholeIs ==
  ASSUME NEW log \in Seq(Block), NEW n \in Nat, Len(log) = 2 * n,
         \A i \in 1..n : IsRecordAt(log, i)
  PROVE  Whole(log) /\ Readable(log) = 1..n /\ WholeRecords(log) = n
<1>1. Whole(log)
  BY DEF Whole
<1>2. \A i \in Readable(log) : i \in 1..n
  BY ReadableFacts
<1>3. \A i \in 1..n : i \in Readable(log)
  BY DEF Readable
<1>4. Readable(log) = 1..n
  BY <1>2, <1>3
<1> QED BY <1>1, <1>4, FS_Interval DEF WholeRecords

LEMMA WholeReads ==
  ASSUME NEW log \in Seq(Block), Whole(log)
  PROVE  \E n \in Nat : /\ Len(log) = 2 * n /\ Readable(log) = 1..n /\ WholeRecords(log) = n
                        /\ \A i \in 1..n : IsRecordAt(log, i)
BY WholeIs DEF Whole

\* The last mention of a key decides what is under it.
LastMention(log, k, i) ==
  /\ i \in Readable(log)
  /\ RecordAt(log, i)[k] # Same
  /\ \A j \in Readable(log) : RecordAt(log, j)[k] # Same => j <= i

LEMMA MentionedLast ==
  ASSUME NEW log \in Seq(Block), NEW k, Mentions(log, k)
  PROVE  \E i \in Readable(log) : LastMention(log, k, i)
<1> DEFINE About == {i \in Readable(log) : RecordAt(log, i)[k] # Same}
<1>1. Len(log) \in Nat /\ About \in SUBSET (1..Len(log))
  BY ReadableFacts
<1>2. About # {}
  BY DEF Mentions
<1>3. PICK i \in About : \A j \in About : j <= i
  BY <1>1, <1>2, Greatest
<1> QED BY <1>3 DEF LastMention

LEMMA ReplayIs ==
  ASSUME NEW log \in Seq(Block), NEW k \in Keys
  PROVE  /\ ~Mentions(log, k) => Replay(log)[k] = None
         /\ \A i : LastMention(log, k, i) => Replay(log)[k] = RecordAt(log, i)[k]
<1> DEFINE About == {i \in Readable(log) : RecordAt(log, i)[k] # Same}
<1>1. Replay(log)[k] = IF About = {} THEN None
                       ELSE RecordAt(log, CHOOSE i \in About : \A j \in About : j <= i)[k]
  BY DEF Replay
<1>2. Len(log) \in Nat /\ About \in SUBSET (1..Len(log))
  BY ReadableFacts
<1>3. ~Mentions(log, k) => Replay(log)[k] = None
  BY <1>1 DEF Mentions
<1>4. ASSUME NEW i, LastMention(log, k, i) PROVE Replay(log)[k] = RecordAt(log, i)[k]
  <2>1. i \in About /\ \A j \in About : j <= i
    BY <1>4 DEF LastMention
  <2>2. PICK m \in About : /\ \A j \in About : j <= m
                           /\ m = CHOOSE h \in About : \A j \in About : j <= h
    BY <2>1
  <2>3. m = i
    BY <1>2, <2>1, <2>2
  <2> QED BY <1>1, <2>1, <2>2, <2>3
<1> QED BY <1>3, <1>4

\* What is under a key was stored by a record in which it can be seen.
LEMMA ReplayComesFrom ==
  ASSUME NEW log \in Seq(Block), NEW k \in Keys, Replay(log)[k] # None
  PROVE  \E i \in Readable(log) : RecordAt(log, i)[k] = Replay(log)[k]
                                  /\ RecordAt(log, i)[k] \notin {None, Same}
<1>1. Mentions(log, k)
  BY ReplayIs
<1>2. PICK i \in Readable(log) : LastMention(log, k, i)
  BY <1>1, MentionedLast
<1>3. Replay(log)[k] = RecordAt(log, i)[k]
  BY <1>2, ReplayIs
<1> QED BY <1>2, <1>3 DEF LastMention

LEMMA ReplayPlaces ==
  ASSUME NEW log \in Seq(Block), NEW k \in Keys, Replay(log)[k] # None
  PROVE  \E i \in 1..Len(log) : Replay(log)[k].place \in Mentioned(log[i][1])
<1>1. PICK i \in Readable(log) : RecordAt(log, i)[k] = Replay(log)[k]
                                 /\ RecordAt(log, i)[k] \notin {None, Same}
  BY ReplayComesFrom
<1>2. 2 * i \in 1..Len(log)
  BY ReadableFacts
<1>3. Replay(log)[k].place \in Mentioned(log[2 * i][1])
  BY <1>1 DEF RecordAt, Mentioned
<1> QED BY <1>2, <1>3

\* One binlog after another: the second one has the say.
LEMMA WholeConcat ==
  ASSUME NEW a \in Seq(Block), NEW b \in Seq(Block), Whole(a), Whole(b)
  PROVE  /\ a \o b \in Seq(Block) /\ Whole(a \o b)
         /\ \A k \in Keys :
              /\ Mentions(a \o b, k) <=> Mentions(a, k) \/ Mentions(b, k)
              /\ Replay(a \o b)[k] = IF Mentions(b, k) THEN Replay(b)[k] ELSE Replay(a)[k]
<1> DEFINE c == a \o b
<1>1. PICK m \in Nat : Len(a) = 2 * m /\ Readable(a) = 1..m /\ \A i \in 1..m : IsRecordAt(a, i)
  BY WholeReads
<1>2. PICK n \in Nat : Len(b) = 2 * n /\ Readable(b) = 1..n /\ \A i \in 1..n : IsRecordAt(b, i)
  BY WholeReads
<1>3. c \in Seq(Block) /\ Len(c) = 2 * (m + n)
      /\ \A i \in 1 .. 2 * (m + n) : c[i] = IF i <= 2 * m THEN a[i] ELSE b[i - 2 * m]
  <2>1. c \in Seq(Block) /\ Len(c) = Len(a) + Len(b)
        /\ \A i \in 1 .. Len(a) + Len(b) : c[i] = IF i <= Len(a) THEN a[i] ELSE b[i - Len(a)]
    BY ConcatProperties
  <2> HIDE DEF c
  <2>2. Len(a) + Len(b) = 2 * (m + n)
    BY <1>1, <1>2
  <2> QED BY <1>1, <2>1, <2>2
<1> HIDE DEF c
<1>4. ASSUME NEW i \in 1..m
      PROVE  c[2 * i - 1] = a[2 * i - 1] /\ c[2 * i] = a[2 * i]
  BY <1>3
<1>5. ASSUME NEW i \in 1..n
      PROVE  c[2 * (m + i) - 1] = b[2 * i - 1] /\ c[2 * (m + i)] = b[2 * i]
  <2>1. 2 * (m + i) - 1 \in 1 .. 2 * (m + n) /\ 2 * (m + i) \in 1 .. 2 * (m + n)
    OBVIOUS
  <2>2. ~(2 * (m + i) - 1 <= 2 * m) /\ ~(2 * (m + i) <= 2 * m)
    OBVIOUS
  <2>3. 2 * (m + i) - 1 - 2 * m = 2 * i - 1 /\ 2 * (m + i) - 2 * m = 2 * i
    OBVIOUS
  <2> QED BY <1>3, <2>1, <2>2, <2>3
<1>6. ASSUME NEW i \in 1..m PROVE IsRecordAt(c, i) /\ RecordAt(c, i) = RecordAt(a, i)
  BY <1>1, <1>3, <1>4 DEF IsRecordAt, RecordAt
<1>7. ASSUME NEW i \in 1..n PROVE IsRecordAt(c, m + i) /\ RecordAt(c, m + i) = RecordAt(b, i)
  BY <1>2, <1>3, <1>5 DEF IsRecordAt, RecordAt
<1>8. \A i \in 1 .. m + n : i \in 1..m \/ \E j \in 1..n : i = m + j
  <2> TAKE i \in 1 .. m + n
  <2>1. CASE i <= m
    BY <2>1
  <2>2. CASE i > m
    <3>1. i - m \in 1..n /\ i = m + (i - m)
      BY <2>2
    <3> QED BY <3>1
  <2> QED BY <2>1, <2>2
<1>9. \A i \in 1 .. m + n : IsRecordAt(c, i)
  BY <1>6, <1>7, <1>8
<1>10. Whole(c) /\ Readable(c) = 1 .. m + n
  BY <1>3, <1>9, WholeIs
<1>11. ASSUME NEW k \in Keys
       PROVE  /\ Mentions(c, k) <=> Mentions(a, k) \/ Mentions(b, k)
              /\ Replay(c)[k] = IF Mentions(b, k) THEN Replay(b)[k] ELSE Replay(a)[k]
  <2>1. Mentions(a, k) => Mentions(c, k)
    BY <1>1, <1>6, <1>10 DEF Mentions
  <2>2. Mentions(b, k) => Mentions(c, k)
    <3> SUFFICES ASSUME Mentions(b, k) PROVE Mentions(c, k)
      OBVIOUS
    <3>1. PICK i \in 1..n : RecordAt(b, i)[k] # Same
      BY <1>2 DEF Mentions
    <3>2. m + i \in 1 .. m + n
      OBVIOUS
    <3> QED BY <1>7, <1>10, <3>1, <3>2 DEF Mentions
  <2>3. Mentions(c, k) => Mentions(a, k) \/ Mentions(b, k)
    <3> SUFFICES ASSUME Mentions(c, k) PROVE Mentions(a, k) \/ Mentions(b, k)
      OBVIOUS
    <3>1. PICK i \in 1 .. m + n : RecordAt(c, i)[k] # Same
      BY <1>10 DEF Mentions
    <3>2. CASE i \in 1..m
      BY <1>1, <1>6, <3>1, <3>2 DEF Mentions
    <3>3. ASSUME NEW j \in 1..n, i = m + j PROVE Mentions(b, k)
      <4>1. RecordAt(c, i) = RecordAt(b, j)
        BY <1>7, <3>3
      <4> QED BY <1>2, <3>1, <4>1 DEF Mentions
    <3> QED BY <1>8, <3>2, <3>3
  <2>4. CASE Mentions(b, k)
    <3>1. PICK i \in 1..n : LastMention(b, k, i)
      BY <1>2, <2>4, MentionedLast
    <3>2. Replay(b)[k] = RecordAt(b, i)[k]
      BY <3>1, ReplayIs
    <3>3. m + i \in Readable(c) /\ RecordAt(c, m + i)[k] # Same
      <4>1. m + i \in 1 .. m + n
        OBVIOUS
      <4> QED BY <1>7, <1>10, <3>1, <4>1 DEF LastMention
    <3>4. ASSUME NEW j \in Readable(c), RecordAt(c, j)[k] # Same PROVE j <= m + i
      <4>1. j \in 1 .. m + n
        BY <1>10
      <4>2. CASE j \in 1..m
        BY <4>2
      <4>3. ASSUME NEW h \in 1..n, j = m + h PROVE j <= m + i
        <5>1. RecordAt(c, j) = RecordAt(b, h) /\ h \in Readable(b)
          BY <1>2, <1>7, <4>3
        <5>2. h <= i
          BY <3>1, <3>4, <5>1 DEF LastMention
        <5> QED BY <4>3, <5>2
      <4> QED BY <1>8, <4>1, <4>2, <4>3
    <3>5. Replay(c)[k] = RecordAt(c, m + i)[k]
      <4>1. LastMention(c, k, m + i)
        BY <3>3, <3>4 DEF LastMention
      <4> QED BY <1>3, <4>1, ReplayIs
    <3>6. Replay(c)[k] = Replay(b)[k]
      BY <1>7, <3>2, <3>5
    <3> QED BY <2>1, <2>2, <2>3, <2>4, <3>6
  <2>5. CASE ~Mentions(b, k) /\ Mentions(a, k)
    <3>1. PICK i \in 1..m : LastMention(a, k, i)
      BY <1>1, <2>5, MentionedLast
    <3>2. Replay(a)[k] = RecordAt(a, i)[k]
      BY <3>1, ReplayIs
    <3>3. i \in Readable(c) /\ RecordAt(c, i)[k] # Same
      BY <1>6, <1>10, <3>1 DEF LastMention
    <3>4. ASSUME NEW j \in Readable(c), RecordAt(c, j)[k] # Same PROVE j <= i
      <4>1. j \in 1 .. m + n
        BY <1>10
      <4>2. CASE j \in 1..m
        <5>1. RecordAt(c, j) = RecordAt(a, j) /\ j \in Readable(a)
          BY <1>1, <1>6, <4>2
        <5> QED BY <3>1, <3>4, <5>1 DEF LastMention
      <4>3. ASSUME NEW h \in 1..n, j = m + h PROVE FALSE
        <5>1. RecordAt(c, j) = RecordAt(b, h) /\ h \in Readable(b)
          BY <1>2, <1>7, <4>3
        <5> QED BY <2>5, <3>4, <5>1 DEF Mentions
      <4> QED BY <1>8, <4>1, <4>2, <4>3
    <3>5. Replay(c)[k] = RecordAt(c, i)[k]
      <4>1. LastMention(c, k, i)
        BY <3>3, <3>4 DEF LastMention
      <4> QED BY <1>3, <4>1, ReplayIs
    <3>6. Replay(c)[k] = Replay(a)[k]
      BY <1>6, <3>2, <3>5
    <3> QED BY <2>1, <2>2, <2>3, <2>5, <3>6
  <2>6. CASE ~Mentions(b, k) /\ ~Mentions(a, k)
    BY <1>3, <2>3, <2>6, ReplayIs
  <2> QED BY <2>1, <2>2, <2>3, <2>4, <2>5, <2>6
<1> QED BY <1>3, <1>10, <1>11 DEF c

\* One record.
LEMMA OneRecord ==
  ASSUME NEW r \in Record
  PROVE  /\ BothBlocks(r) \in Seq(Block) /\ Whole(BothBlocks(r)) /\ Len(BothBlocks(r)) = 2
         /\ \A k \in Keys : /\ Mentions(BothBlocks(r), k) <=> r[k] # Same
                            /\ Replay(BothBlocks(r))[k] = After(r, None, k)
<1> DEFINE b == BothBlocks(r)
<1>1. b \in Seq(Block) /\ Len(b) = 2 /\ b[1] = <<r, 1>> /\ b[2] = <<r, 2>>
  BY DEF BothBlocks, Block
<1> HIDE DEF b
<1>2. IsRecordAt(b, 1) /\ RecordAt(b, 1) = r
  BY <1>1 DEF IsRecordAt, RecordAt
<1>3. Whole(b) /\ Readable(b) = 1..1
  <2>1. Len(b) = 2 * 1 /\ 1 \in Nat /\ \A i \in 1..1 : IsRecordAt(b, i)
    BY <1>1, <1>2
  <2> QED BY <1>1, <2>1, WholeIs
<1>4. ASSUME NEW k \in Keys
      PROVE  (Mentions(b, k) <=> r[k] # Same) /\ Replay(b)[k] = After(r, None, k)
  <2>1. Mentions(b, k) <=> r[k] # Same
    BY <1>2, <1>3 DEF Mentions
  <2>2. CASE r[k] = Same
    BY <1>1, <2>1, <2>2, ReplayIs DEF After
  <2>3. CASE r[k] # Same
    <3>1. LastMention(b, k, 1)
      BY <1>2, <1>3, <2>3 DEF LastMention
    <3>2. Replay(b)[k] = RecordAt(b, 1)[k]
      BY <1>1, <3>1, ReplayIs
    <3> QED BY <1>2, <2>1, <2>3, <3>2 DEF After
  <2> QED BY <2>1, <2>2, <2>3
<1> QED BY <1>1, <1>3, <1>4 DEF b

\* A record more.
LEMMA RecordAppended ==
  ASSUME NEW log \in Seq(Block), Whole(log), NEW r \in Record
  PROVE  /\ log \o BothBlocks(r) \in Seq(Block) /\ Whole(log \o BothBlocks(r))
         /\ Len(log \o BothBlocks(r)) = Len(log) + 2
         /\ \A k \in Keys :
              /\ Mentions(log \o BothBlocks(r), k) <=> Mentions(log, k) \/ r[k] # Same
              /\ Replay(log \o BothBlocks(r))[k] = After(r, Replay(log)[k], k)
<1>1. BothBlocks(r) \in Seq(Block) /\ Len(BothBlocks(r)) = 2
  BY OneRecord
<1>2. Len(log \o BothBlocks(r)) = Len(log) + 2
  <2> DEFINE b == BothBlocks(r)
  <2>1. b \in Seq(Block) /\ Len(b) = 2
    BY <1>1
  <2> HIDE DEF b
  <2>2. Len(log \o b) = Len(log) + Len(b)
    BY <2>1, ConcatProperties
  <2> QED BY <2>1, <2>2 DEF b
<1> QED BY <1>2, OneRecord, WholeConcat DEF After

LEMMA EmptyLog ==
  <<>> \in Seq(Block) /\ Whole(<<>>) /\ \A k \in Keys : ~Mentions(<<>>, k) /\ Replay(<<>>)[k] = None
<1>1. <<>> \in Seq(Block) /\ Len(<<>>) = 2 * 0
  OBVIOUS
<1>2. Whole(<<>>) /\ Readable(<<>>) = 1..0
  <2>1. \A i \in 1..0 : IsRecordAt(<<>>, i)
    OBVIOUS
  <2> QED BY <1>1, <2>1, WholeIs
<1>3. \A k \in Keys : ~Mentions(<<>>, k)
  BY <1>2 DEF Mentions
<1> QED BY <1>1, <1>2, <1>3, ReplayIs

\* Writing at the end appends.
LEMMA WrittenAtEnd ==
  ASSUME NEW log \in Seq(Block), NEW r \in Record
  PROVE  Written(log, Len(log), r) = log \o BothBlocks(r)
<1> DEFINE w == Written(log, Len(log), r)
           c == log \o BothBlocks(r)
           n == Len(log) + 2
<1>1. Len(log) \in Nat /\ Len(BothBlocks(r)) = 2
      /\ BothBlocks(r)[1] = <<r, 1>> /\ BothBlocks(r)[2] = <<r, 2>>
  BY DEF BothBlocks
<1>2. w = [i \in 1..n |-> IF i \in {Len(log) + 1, Len(log) + 2} THEN <<r, i - Len(log)>> ELSE log[i]]
  BY <1>1 DEF Written
<1>3. c \in Seq(Block) /\ Len(c) = n
      /\ \A i \in 1..n : c[i] = IF i <= Len(log) THEN log[i] ELSE BothBlocks(r)[i - Len(log)]
  <2>1. BothBlocks(r) \in Seq(Block)
    BY OneRecord
  <2>2. c \in Seq(Block) /\ Len(c) = Len(log) + Len(BothBlocks(r))
        /\ \A i \in 1 .. Len(log) + Len(BothBlocks(r)) :
             c[i] = IF i <= Len(log) THEN log[i] ELSE BothBlocks(r)[i - Len(log)]
    BY <2>1, ConcatProperties
  <2> QED BY <1>1, <2>2
<1>4. w \in Seq(Block) /\ Len(w) = n
  <2>1. w \in Seq(Block)
    BY <1>1, WrittenType DEF Written
  <2>2. DOMAIN w = 1..n
    BY <1>2
  <2> QED BY <1>1, <2>1, <2>2, LenProperties
<1>5. ASSUME NEW i \in 1..n PROVE w[i] = c[i]
  <2> HIDE DEF w, c
  <2>1. CASE i <= Len(log)
    BY <1>1, <1>2, <1>3, <2>1
  <2>2. CASE i = Len(log) + 1
    <3>1. i - Len(log) = 1 /\ ~(i <= Len(log))
      BY <1>1, <2>2
    <3> QED BY <1>1, <1>2, <1>3, <2>2, <3>1
  <2>3. CASE i = Len(log) + 2
    <3>1. i - Len(log) = 2 /\ ~(i <= Len(log))
      BY <1>1, <2>3
    <3> QED BY <1>1, <1>2, <1>3, <2>3, <3>1
  <2> QED BY <1>1, <2>1, <2>2, <2>3
<1> HIDE DEF w, c, n
<1>6. w = c
  BY <1>3, <1>4, <1>5, SeqEqual
<1> QED BY <1>6 DEF w, c

\* A binlog ends after some number of pairs of blocks; so does any beginning of it
\* that a record may follow.
Even(n) == \E h \in Nat : n = 2 * h

LEMMA WholeIsEven ==
  ASSUME NEW log, Whole(log)
  PROVE  Even(Len(log))
BY DEF Whole, Even

\* A binlog of whole records can be cut between two of them.
LEMMA WholeSplit ==
  ASSUME NEW log \in Seq(Block), Whole(log), NEW t \in Nat, Even(t), t <= Len(log)
  PROVE  LET a == SubSeq(log, 1, t)
             b == SubSeq(log, t + 1, Len(log))
         IN  a \in Seq(Block) /\ b \in Seq(Block) /\ Whole(a) /\ Whole(b) /\ log = a \o b
<1> DEFINE a == SubSeq(log, 1, t)
           b == SubSeq(log, t + 1, Len(log))
<1>1. PICK n \in Nat : Len(log) = 2 * n /\ \A i \in 1..n : IsRecordAt(log, i)
  BY DEF Whole
<1>2. PICK h \in Nat : t = 2 * h
  BY DEF Even
<1>3. h <= n /\ n - h \in Nat
  BY <1>1, <1>2
<1>4. \A i \in 1 .. Len(log) : log[i] \in Block
  BY ElementOfSeq
<1>5. a \in Seq(Block) /\ Len(a) = 2 * h /\ \A i \in 1 .. 2 * h : a[i] = log[i]
  <2>1. \A i \in 1 .. t : log[i] \in Block
    BY <1>1, <1>4
  <2>2. a \in Seq(Block) /\ Len(a) = (IF 1 <= t THEN t - 1 + 1 ELSE 0)
        /\ \A i \in 1 .. t - 1 + 1 : a[i] = log[1 + i - 1]
    BY <2>1, SubSeqProperties
  <2> HIDE DEF a
  <2> QED BY <1>2, <2>2
<1>6. b \in Seq(Block) /\ Len(b) = 2 * (n - h) /\ \A i \in 1 .. 2 * (n - h) : b[i] = log[2 * h + i]
  <2>1. \A i \in t + 1 .. Len(log) : log[i] \in Block
    BY <1>1, <1>4
  <2>2. b \in Seq(Block) /\ Len(b) = (IF t + 1 <= Len(log) THEN Len(log) - (t + 1) + 1 ELSE 0)
        /\ \A i \in 1 .. Len(log) - (t + 1) + 1 : b[i] = log[t + 1 + i - 1]
    BY <1>1, <2>1, SubSeqProperties
  <2> HIDE DEF b
  <2> QED BY <1>1, <1>2, <1>3, <2>2
<1> HIDE DEF a, b
<1>7. Whole(a)
  <2>1. ASSUME NEW i \in 1..h PROVE IsRecordAt(a, i)
    <3>1. IsRecordAt(log, i)
      BY <1>1, <1>3
    <3>2. 2 * i - 1 \in 1 .. 2 * h /\ 2 * i \in 1 .. 2 * h
      OBVIOUS
    <3> QED BY <1>5, <3>1, <3>2 DEF IsRecordAt
  <2> QED BY <1>5, <2>1 DEF Whole
<1>8. Whole(b)
  <2>1. ASSUME NEW i \in 1 .. n - h PROVE IsRecordAt(b, i)
    <3>1. h + i \in 1..n
      BY <1>3
    <3>2. IsRecordAt(log, h + i)
      BY <1>1, <3>1
    <3>3. 2 * i - 1 \in 1 .. 2 * (n - h) /\ 2 * i \in 1 .. 2 * (n - h)
      BY <1>3
    <3>4. 2 * h + (2 * i - 1) = 2 * (h + i) - 1 /\ 2 * h + 2 * i = 2 * (h + i)
      BY <1>3
    <3>5. b[2 * i - 1] = log[2 * (h + i) - 1] /\ b[2 * i] = log[2 * (h + i)]
      BY <1>6, <3>3, <3>4
    <3> QED BY <1>3, <1>6, <3>2, <3>5 DEF IsRecordAt
  <2> QED BY <1>3, <1>6, <2>1 DEF Whole
<1>9. log = a \o b
  <2>1. a \o b \in Seq(Block) /\ Len(a \o b) = 2 * n
        /\ \A i \in 1 .. 2 * n : (a \o b)[i] = IF i <= 2 * h THEN a[i] ELSE b[i - 2 * h]
    <3>1. a \o b \in Seq(Block) /\ Len(a \o b) = Len(a) + Len(b)
          /\ \A i \in 1 .. Len(a) + Len(b) : (a \o b)[i] = IF i <= Len(a) THEN a[i] ELSE b[i - Len(a)]
      BY <1>5, <1>6, ConcatProperties
    <3>2. Len(a) + Len(b) = 2 * n
      BY <1>3, <1>5, <1>6
    <3> QED BY <1>5, <3>1, <3>2
  <2>2. ASSUME NEW i \in 1 .. 2 * n PROVE log[i] = (a \o b)[i]
    <3>1. CASE i <= 2 * h
      BY <1>5, <2>1, <3>1
    <3>2. CASE ~(i <= 2 * h)
      <4>1. i - 2 * h \in 1 .. 2 * (n - h) /\ 2 * h + (i - 2 * h) = i
        BY <1>3, <3>2
      <4>2. b[i - 2 * h] = log[i]
        BY <1>6, <4>1
      <4> QED BY <2>1, <3>2, <4>2
    <3> QED BY <3>1, <3>2
  <2> QED BY <1>1, <2>1, <2>2, SeqEqual
<1> QED BY <1>5, <1>6, <1>7, <1>8, <1>9 DEF a, b

LEMMA BlocksJoin == \A x, y, z \in Seq(Block) : x \o (y \o z) = (x \o y) \o z
<1> SUFFICES ASSUME NEW S, NEW x \in Seq(S), NEW y \in Seq(S), NEW z \in Seq(S)
             PROVE  x \o (y \o z) = (x \o y) \o z
  OBVIOUS
<1> QED OBVIOUS

\* What is appended to the binlog is appended to the rest of it after any place, and
\* changes nothing before.
LEMMA CutAppended ==
  ASSUME NEW a \in Seq(Block), NEW b \in Seq(Block), NEW t \in Nat, t <= Len(a)
  PROVE  /\ SubSeq(a \o b, 1, t) = SubSeq(a, 1, t)
         /\ SubSeq(a \o b, t + 1, Len(a \o b)) = SubSeq(a, t + 1, Len(a)) \o b
<1> DEFINE c == a \o b
           d == SubSeq(a, t + 1, Len(a))
           e == d \o b
           f == SubSeq(c, t + 1, Len(c))
<1>1. Len(a) \in Nat /\ Len(b) \in Nat
  OBVIOUS
<1>2. c \in Seq(Block) /\ Len(c) = Len(a) + Len(b)
      /\ \A i \in 1 .. Len(a) + Len(b) : c[i] = IF i <= Len(a) THEN a[i] ELSE b[i - Len(a)]
  BY ConcatProperties
<1>3. \A i \in 1 .. Len(a) : a[i] \in Block
  BY ElementOfSeq
<1>4. \A i \in 1 .. Len(c) : c[i] \in Block
  BY <1>2, ElementOfSeq
<1> HIDE DEF c
<1>5. SubSeq(c, 1, t) = SubSeq(a, 1, t)
  <2> DEFINE u == SubSeq(c, 1, t)
             w == SubSeq(a, 1, t)
  <2>1. u \in Seq(Block) /\ Len(u) = (IF 1 <= t THEN t - 1 + 1 ELSE 0)
        /\ \A i \in 1 .. t - 1 + 1 : u[i] = c[1 + i - 1]
    <3>1. \A i \in 1 .. t : c[i] \in Block
      BY <1>1, <1>2, <1>4
    <3> QED BY <3>1, SubSeqProperties
  <2>2. w \in Seq(Block) /\ Len(w) = (IF 1 <= t THEN t - 1 + 1 ELSE 0)
        /\ \A i \in 1 .. t - 1 + 1 : w[i] = a[1 + i - 1]
    <3>1. \A i \in 1 .. t : a[i] \in Block
      BY <1>1, <1>3
    <3> QED BY <3>1, SubSeqProperties
  <2> HIDE DEF u, w
  <2>3. Len(u) = t /\ Len(w) = t /\ \A i \in 1..t : u[i] = c[i] /\ w[i] = a[i]
    BY <2>1, <2>2
  <2>4. \A i \in 1..t : u[i] = w[i]
    BY <1>1, <1>2, <2>3
  <2>5. u = w
    BY <2>1, <2>2, <2>3, <2>4, SeqEqual
  <2> QED BY <2>5 DEF u, w
<1>6. d \in Seq(Block) /\ Len(d) = Len(a) - t /\ \A i \in 1 .. Len(a) - t : d[i] = a[t + i]
  <2>1. \A i \in t + 1 .. Len(a) : a[i] \in Block
    BY <1>1, <1>3
  <2>2. d \in Seq(Block) /\ Len(d) = (IF t + 1 <= Len(a) THEN Len(a) - (t + 1) + 1 ELSE 0)
        /\ \A i \in 1 .. Len(a) - (t + 1) + 1 : d[i] = a[t + 1 + i - 1]
    BY <1>1, <2>1, SubSeqProperties
  <2> HIDE DEF d
  <2> QED BY <1>1, <2>2
<1> HIDE DEF d
<1>7. e \in Seq(Block) /\ Len(e) = Len(a) - t + Len(b)
      /\ \A i \in 1 .. Len(a) - t + Len(b) :
           e[i] = IF i <= Len(a) - t THEN d[i] ELSE b[i - (Len(a) - t)]
  <2>1. e \in Seq(Block) /\ Len(e) = Len(d) + Len(b)
        /\ \A i \in 1 .. Len(d) + Len(b) : e[i] = IF i <= Len(d) THEN d[i] ELSE b[i - Len(d)]
    BY <1>6, ConcatProperties
  <2> HIDE DEF e
  <2> QED BY <1>6, <2>1
<1> HIDE DEF e
<1>8. f \in Seq(Block) /\ Len(f) = Len(a) - t + Len(b)
      /\ \A i \in 1 .. Len(a) - t + Len(b) : f[i] = c[t + i]
  <2>1. \A i \in t + 1 .. Len(c) : c[i] \in Block
    BY <1>1, <1>2, <1>4
  <2>2. f \in Seq(Block) /\ Len(f) = (IF t + 1 <= Len(c) THEN Len(c) - (t + 1) + 1 ELSE 0)
        /\ \A i \in 1 .. Len(c) - (t + 1) + 1 : f[i] = c[t + 1 + i - 1]
    BY <1>1, <1>2, <2>1, SubSeqProperties
  <2> HIDE DEF f
  <2> QED BY <1>1, <1>2, <2>2
<1> HIDE DEF f
<1>9. ASSUME NEW i \in 1 .. Len(a) - t + Len(b) PROVE f[i] = e[i]
  <2>1. t + i \in 1 .. Len(a) + Len(b)
    BY <1>1
  <2>2. CASE i <= Len(a) - t
    <3>1. t + i <= Len(a) /\ i \in 1 .. Len(a) - t
      BY <1>1, <2>2
    <3> QED BY <1>2, <1>6, <1>7, <1>8, <2>1, <2>2, <3>1
  <2>3. CASE ~(i <= Len(a) - t)
    <3>1. ~(t + i <= Len(a)) /\ t + i - Len(a) = i - (Len(a) - t)
      BY <1>1, <2>3
    <3>2. f[i] = b[t + i - Len(a)]
      BY <1>2, <1>8, <2>1, <3>1
    <3>3. e[i] = b[i - (Len(a) - t)]
      BY <1>7, <2>3
    <3> QED BY <3>1, <3>2, <3>3
  <2> QED BY <2>2, <2>3
<1>10. f = e
  BY <1>7, <1>8, <1>9, SeqEqual
<1> QED BY <1>5, <1>10 DEF c, d, e, f
=============================================================================
