----------------------- MODULE CacheCompaction_proofs -----------------------
(***************************************************************************)
(* The map of the database, its binlog, the list of the compactor and the  *)
(* binlog that the compactor writes, related record by record: no two keys *)
(* share a data file, a compaction changes nothing that can be read, and   *)
(* what callers were told survives the end of the process.                 *)
(***************************************************************************)
EXTENDS CacheBinlog_proofs

-----------------------------------------------------------------------------
(* The invariant. *)

\* No two keys of a map have the same data file.
Apart(m) == \A j, k \in Keys : j # k /\ m[j] # None /\ m[k] # None => m[j].place # m[k].place

\* No key of a map but one has this data file.
NoOther(m, k, p) == \A j \in Keys : j # k /\ m[j] # None => m[j].place # p

\* An entry of the map is the one the binlog has; what the map lost may still be there.
Follows(log) == \A k \in Keys : map[k] \in {Replay(log)[k], None}

DiskInv ==
  /\ Whole(binlog) /\ Apart(Replay(binlog))
  /\ ready # None =>
       Whole(ready) /\ Apart(Replay(ready)) /\ step \in {"closed", "replacing", "renaming"}

MapInv ==
  /\ Apart(map)
  /\ \A k \in removing : map[k] = None
  /\ step = "closed" => removing = {}
  /\ step \in {"closed", "renaming"} => ~binlogOpen
  /\ binlogOpen => offset = Len(binlog) /\ Follows(binlog)
  /\ step \in {"replacing", "renaming"} => Follows(ready)

\* The place that a move carries from one key to the other.
MovingInv ==
  step = "moving" =>
    /\ map[job.key] = None /\ job.key \notin removing
    /\ NoOther(map, job.key, job.entry.place)
    /\ binlogOpen => NoOther(Replay(binlog), job.key, job.entry.place)

\* What is written after the place where the compactor stops reading.
Rest == SubSeq(binlog, comp.till + 1, Len(binlog))

\* The keys whose entries the compactor still has to ask for.
Pending == comp.keys \cup StoredKeys(Source, comp.read, WholeRecords(Source))

\* A key that nothing was written about since the compactor started: its entry is
\* in the list as it is in the binlog, or it was gone, or it is not asked for yet.
ReadingInv ==
  binlogOpen /\ comp.at \in {"reading", "asked"} =>
    /\ Even(comp.till)
    /\ comp.at = "reading" => comp.keys = {}
    /\ \A k \in Keys : ~Mentions(Rest, k) =>
         \/ comp.list[k] = Replay(binlog)[k]
         \/ comp.list[k] = None /\ (map[k] = None \/ k \in Pending)

\* The compacted binlog makes the map that the binlog makes, but for keys that the
\* database removed without having said so in the binlog.
CopyInv ==
  binlogOpen /\ comp.at \in {"catchingUp", "done"} =>
    /\ Even(comp.from) /\ Whole(Compacted)
    /\ \A k \in Keys : \/ Replay(Compacted)[k] = Replay(binlog)[k]
                       \/ Replay(Compacted)[k] = None /\ map[k] = None

CompInv == ReadingInv /\ CopyInv

PlacesInv == TypeInv /\ DiskInv /\ MapInv /\ MovingInv /\ CompInv

-----------------------------------------------------------------------------
(* The writer. *)

\* A record goes to the end of the binlog, and of everything that ends with it.
LEMMA Appends ==
  ASSUME binlog \in Seq(Block), Whole(binlog), offset = Len(binlog),
         NEW r \in Record, WriteRecord(r)
  PROVE  /\ binlog' = binlog \o BothBlocks(r)
         /\ binlog' \in Seq(Block) /\ Whole(binlog')
         /\ Len(binlog') = Len(binlog) + 2 /\ offset' = Len(binlog')
         /\ \A k \in Keys : Replay(binlog')[k] = After(r, Replay(binlog)[k], k)
<1>1. binlog' = binlog \o BothBlocks(r) /\ offset' = offset + 2
  BY WrittenAtEnd DEF WriteRecord
<1> QED BY <1>1, RecordAppended

\* The compactor while a record is written.
LEMMA CompactorWatches ==
  ASSUME TypeInv, DiskInv, offset = Len(binlog), NEW r \in Record, WriteRecord(r), comp' = comp,
         CompInv, \A k \in Keys : r[k] = Same => map'[k] \in {map[k], None}
  PROVE  CompInv'
<1> DEFINE b == BothBlocks(r)
<1>0. /\ binlog \in Seq(Block) /\ Whole(binlog) /\ Len(binlog) \in Nat
      /\ comp \in CompactorState /\ comp.till \in Nat /\ comp.till <= Len(binlog)
      /\ comp.from \in Nat /\ comp.from <= Len(binlog) /\ binlogOpen
      /\ comp.temp \in Seq(Block)
  BY DEF TypeInv, TypeOK, DiskTypeOK, StepInv, CompactorState, DiskInv, WriteRecord
<1>1. /\ binlog' = binlog \o b /\ b \in Seq(Block)
      /\ \A k \in Keys : Replay(binlog')[k] = After(r, Replay(binlog)[k], k)
  BY <1>0, Appends, OneRecord
<1> HIDE DEF b
<1>2. ReadingInv'
  <2> SUFFICES ASSUME comp.at \in {"reading", "asked"} PROVE ReadingInv'
    BY DEF ReadingInv
  <2>1. Even(comp.till) /\ (comp.at = "reading" => comp.keys = {})
    BY <1>0 DEF CompInv, ReadingInv
  <2>2. Source' = Source /\ Rest' = Rest \o b
    BY <1>0, <1>1, CutAppended DEF Source, Rest
  <2>3. Rest \in Seq(Block) /\ Whole(Rest)
    BY <1>0, <2>1, WholeSplit DEF Rest
  <2>4. \A k \in Keys : Mentions(Rest \o b, k) <=> Mentions(Rest, k) \/ r[k] # Same
    BY <2>3, RecordAppended DEF b
  <2>5. Pending' = Pending
    BY <2>2 DEF Pending
  <2>6. ASSUME NEW k \in Keys, ~Mentions(Rest', k)
        PROVE  \/ comp.list[k] = Replay(binlog')[k]
               \/ comp.list[k] = None /\ (map'[k] = None \/ k \in Pending)
    <3>1. ~Mentions(Rest, k) /\ r[k] = Same
      BY <2>2, <2>4, <2>6
    <3>2. Replay(binlog')[k] = Replay(binlog)[k]
      BY <1>1, <3>1 DEF After
    <3>3. map'[k] \in {map[k], None}
      BY <3>1
    <3>4. \/ comp.list[k] = Replay(binlog)[k]
          \/ comp.list[k] = None /\ (map[k] = None \/ k \in Pending)
      BY <1>0, <3>1 DEF CompInv, ReadingInv
    <3> QED BY <3>2, <3>3, <3>4
  <2> QED BY <2>1, <2>5, <2>6 DEF ReadingInv
<1>3. CopyInv'
  <2> SUFFICES ASSUME comp.at \in {"catchingUp", "done"} PROVE CopyInv'
    BY DEF CopyInv
  <2>1. /\ Even(comp.from) /\ Whole(Compacted)
        /\ \A k \in Keys : \/ Replay(Compacted)[k] = Replay(binlog)[k]
                           \/ Replay(Compacted)[k] = None /\ map[k] = None
    BY <1>0 DEF CompInv, CopyInv
  <2>2. Compacted' = Compacted \o b
    <3> DEFINE s == SubSeq(binlog, comp.from + 1, Len(binlog))
    <3>1. SubSeq(binlog \o b, comp.from + 1, Len(binlog \o b)) = s \o b
      BY <1>0, <1>1, CutAppended
    <3>2. s \in Seq(Block)
      BY <1>0, <2>1, WholeSplit
    <3> HIDE DEF s
    <3>3. comp.temp \o (s \o b) = (comp.temp \o s) \o b
      <4>1. comp.temp \in Seq(Block) /\ s \in Seq(Block) /\ b \in Seq(Block)
        BY <1>0, <1>1, <3>2
      <4> QED BY <4>1, BlocksJoin
    <3> QED BY <1>1, <3>1, <3>3 DEF Compacted, s
  <2>3. Compacted \in Seq(Block)
    BY <1>0, CompactedType
  <2>4. /\ Whole(Compacted \o b)
        /\ \A k \in Keys : Replay(Compacted \o b)[k] = After(r, Replay(Compacted)[k], k)
    BY <2>1, <2>3, RecordAppended DEF b
  <2>5. ASSUME NEW k \in Keys
        PROVE  \/ Replay(Compacted')[k] = Replay(binlog')[k]
               \/ Replay(Compacted')[k] = None /\ map'[k] = None
    BY <1>1, <2>1, <2>2, <2>4 DEF After
  <2> QED BY <2>1, <2>2, <2>4, <2>5 DEF CopyInv
<1> QED BY <1>2, <1>3 DEF CompInv

\* The compactor while nothing is written.
LEMMA CompactorRests ==
  ASSUME CompInv, comp' = comp, binlog' = binlog, binlogOpen' => binlogOpen,
         \A k \in Keys : map'[k] \in {map[k], None}
  PROVE  CompInv'
<1>1. Source' = Source /\ Rest' = Rest /\ Compacted' = Compacted
  BY DEF Source, Rest, Compacted
<1>2. Pending' = Pending
  BY <1>1 DEF Pending
<1>3. ReadingInv'
  BY <1>1, <1>2 DEF CompInv, ReadingInv
<1>4. CopyInv'
  BY <1>1 DEF CompInv, CopyInv
<1> QED BY <1>3, <1>4 DEF CompInv

\* A compactor that starts has all the binlog before it.
LEMMA CompactorStarts ==
  ASSUME CheckCompactor, binlog' \in Seq(Block), Whole(binlog)',
         comp' = comp => CompInv'
  PROVE  CompInv'
<1>1. CASE UNCHANGED comp
  BY <1>1
<1>2. ASSUME NEW n, n = Len(binlog'), comp' = [NoCompactor EXCEPT !.at = "reading", !.till = n]
      PROVE  CompInv'
  <2>1. /\ comp'.at = "reading" /\ comp'.till = n /\ comp'.keys = {} /\ comp'.read = 0
        /\ \A k \in Keys : comp'.list[k] = None
    BY <1>2 DEF NoCompactor, NoEntries
  <2>2. n \in Nat /\ Even(n)
    BY <1>2, WholeIsEven
  <2>3. Source' = binlog'
    BY <1>2, <2>1, SubSeqFull DEF Source
  <2>4. ASSUME NEW k \in Keys, Replay(binlog')[k] # None PROVE k \in Pending'
    <3>1. PICK i \in Readable(binlog') : RecordAt(binlog', i)[k] \notin {None, Same}
      BY <2>4, ReplayComesFrom
    <3>2. Readable(binlog') = 1 .. WholeRecords(binlog')
      BY WholeReads
    <3>3. i \in 0 + 1 .. WholeRecords(binlog')
      BY <3>1, <3>2
    <3>4. k \in StoredKeys(binlog', 0, WholeRecords(binlog'))
      BY <3>1, <3>3 DEF StoredKeys
    <3> QED BY <2>1, <2>3, <3>4 DEF Pending
  <2>5. ReadingInv'
    BY <2>1, <2>2, <2>4 DEF ReadingInv
  <2>6. CopyInv'
    BY <2>1 DEF CopyInv
  <2> QED BY <2>5, <2>6 DEF CompInv
<1> QED BY <1>1, <1>2 DEF CheckCompactor

-----------------------------------------------------------------------------
(* The steps of the database, by what they do to the map and to the binlog.    *)

Working == step \notin {"closed", "replacing", "renaming"}

\* Some entries go, and a record may tell of keys that have none.
Erases ==
  /\ \A k \in Keys : map'[k] \in {map[k], None}
  /\ \/ binlog' = binlog /\ (binlogOpen' => binlogOpen /\ offset' = offset)
     \/ \E gone \in SUBSET Keys : /\ WriteRecord(MultiRemoveRecord(gone))
                                  /\ \A k \in gone : map'[k] = None

LEMMA StateIs ==
  ASSUME TypeInv
  PROVE  /\ binlog \in Seq(Block) /\ Len(binlog) \in Nat
         /\ map \in [Keys -> MaybeEntry] /\ removing \in SUBSET Keys /\ binlogOpen \in BOOLEAN
         /\ Replay(binlog) \in [Keys -> MaybeEntry]
         /\ ready # None => ready \in Seq(Block)
         /\ comp \in CompactorState
BY ReplayType DEF TypeInv, TypeOK, DatabaseTypeOK, DiskTypeOK

\* What the two kinds of records do to the map that the binlog makes.
LEMMA RemoveAppends ==
  ASSUME TypeInv, DiskInv, offset = Len(binlog), NEW gone \in SUBSET Keys,
         WriteRecord(MultiRemoveRecord(gone))
  PROVE  /\ binlog' \in Seq(Block) /\ Whole(binlog') /\ offset' = Len(binlog')
         /\ \A k \in Keys : Replay(binlog')[k] = IF k \in gone THEN None ELSE Replay(binlog)[k]
<1> DEFINE r == MultiRemoveRecord(gone)
<1>1. r \in Record /\ \A k \in Keys : r[k] = IF k \in gone THEN None ELSE Same
  BY RecordTypes DEF MultiRemoveRecord
<1>2. WriteRecord(r)
  OBVIOUS
<1> HIDE DEF r
<1>3. \A k \in Keys : After(r, Replay(binlog)[k], k) = IF k \in gone THEN None ELSE Replay(binlog)[k]
  BY <1>1, SentinelAssumption DEF After
<1> QED BY <1>1, <1>2, <1>3, StateIs, Appends DEF DiskInv

LEMMA StoreAppends ==
  ASSUME TypeInv, DiskInv, offset = Len(binlog), NEW k \in Keys, NEW e \in Entry,
         WriteRecord(StoreRecord(k, e))
  PROVE  /\ binlog' \in Seq(Block) /\ Whole(binlog') /\ offset' = Len(binlog')
         /\ \A j \in Keys : Replay(binlog')[j] = IF j = k THEN e ELSE Replay(binlog)[j]
<1> DEFINE r == StoreRecord(k, e)
<1>1. r \in Record /\ \A j \in Keys : r[j] = IF j = k THEN e ELSE Same
  BY RecordTypes DEF StoreRecord
<1>2. WriteRecord(r)
  OBVIOUS
<1> HIDE DEF r
<1>3. \A j \in Keys : After(r, Replay(binlog)[j], j) = IF j = k THEN e ELSE Replay(binlog)[j]
  BY <1>1, SentinelAssumption DEF After
<1> QED BY <1>1, <1>2, <1>3, StateIs, Appends DEF DiskInv

LEMMA Erased ==
  ASSUME TypeInv, DiskInv, MapInv, CompInv, Erases, Working, Working', ready' = ready,
         \A k \in removing' : map'[k] = None
  PROVE  DiskInv' /\ MapInv' /\ (comp' = comp => CompInv')
<1>1. Apart(map)'
  BY DEF Apart, MapInv, Erases
<1>2. step' \notin {"closed", "replacing", "renaming"} /\ ready' = None
  BY DEF Working, DiskInv
<1>3. CASE binlog' = binlog /\ (binlogOpen' => binlogOpen /\ offset' = offset)
  <2>1. binlogOpen' => offset' = Len(binlog') /\ Follows(binlog)'
    BY <1>3 DEF MapInv, Follows, Erases
  <2>2. comp' = comp => CompInv'
    BY <1>3, CompactorRests DEF Erases
  <2> QED BY <1>1, <1>2, <1>3, <2>1, <2>2 DEF DiskInv, MapInv
<1>4. ASSUME NEW gone \in SUBSET Keys, WriteRecord(MultiRemoveRecord(gone)),
             \A k \in gone : map'[k] = None
      PROVE  DiskInv' /\ MapInv' /\ (comp' = comp => CompInv')
  <2> DEFINE r == MultiRemoveRecord(gone)
  <2>1. r \in Record /\ \A k \in Keys : r[k] = IF k \in gone THEN None ELSE Same
    BY RecordTypes DEF MultiRemoveRecord
  <2>2. binlogOpen /\ binlogOpen' /\ offset = Len(binlog) /\ Follows(binlog)
    BY <1>4, StateIs DEF WriteRecord, MapInv
  <2>3. WriteRecord(r)
    BY <1>4
  <2> HIDE DEF r
  <2>4. /\ binlog' \in Seq(Block) /\ Whole(binlog') /\ offset' = Len(binlog')
        /\ \A k \in Keys : Replay(binlog')[k] = IF k \in gone THEN None ELSE Replay(binlog)[k]
    BY <1>4, <2>2, RemoveAppends
  <2>5. Apart(Replay(binlog'))
    BY <2>4 DEF DiskInv, Apart
  <2>6. Follows(binlog)'
    BY <1>4, <2>2, <2>4 DEF Follows, Erases
  <2>7. comp' = comp => CompInv'
    BY <2>1, <2>2, <2>3, CompactorWatches DEF Erases
  <2> QED BY <1>1, <1>2, <2>4, <2>5, <2>6, <2>7 DEF DiskInv, MapInv
<1> QED BY <1>3, <1>4 DEF Erases

\* One entry is set, in a place that no other key has.
LEMMA Stored ==
  ASSUME TypeInv, DiskInv, MapInv, CompInv, Working, Working',
         ready' = ready, comp' = comp,
         NEW k \in Keys, NEW e \in Entry,
         WriteRecord(StoreRecord(k, e)), map' = [map EXCEPT ![k] = e],
         NoOther(map, k, e.place), NoOther(Replay(binlog), k, e.place),
         removing' \subseteq removing \ {k}
  PROVE  DiskInv' /\ MapInv' /\ CompInv'
<1> DEFINE r == StoreRecord(k, e)
<1>0. step' \notin {"closed", "replacing", "renaming"} /\ ready' = None
  BY DEF Working, DiskInv
<1>1. e \notin {None, Same}
  BY SentinelAssumption
<1>2. r \in Record /\ \A j \in Keys : r[j] = IF j = k THEN e ELSE Same
  BY RecordTypes DEF StoreRecord
<1>3. WriteRecord(r) /\ binlogOpen /\ binlogOpen' /\ offset = Len(binlog) /\ Follows(binlog)
  BY StateIs DEF WriteRecord, MapInv
<1> HIDE DEF r
<1>4. /\ binlog' \in Seq(Block) /\ Whole(binlog') /\ offset' = Len(binlog')
      /\ \A j \in Keys : Replay(binlog')[j] = IF j = k THEN e ELSE Replay(binlog)[j]
  BY <1>3, StoreAppends
<1>5. \A j \in Keys : map'[j] = IF j = k THEN e ELSE map[j]
  BY StateIs
<1>6. Apart(map')
  BY <1>5 DEF MapInv, Apart, NoOther
<1>7. Apart(Replay(binlog'))
  BY <1>4 DEF DiskInv, Apart, NoOther
<1>8. Follows(binlog)'
  BY <1>3, <1>4, <1>5 DEF Follows
<1>9. CompInv'
  BY <1>2, <1>3, <1>5, SentinelAssumption, CompactorWatches
<1>10. \A j \in removing' : map'[j] = None
  BY StateIs DEF MapInv
<1> QED BY <1>0, <1>3, <1>4, <1>6, <1>7, <1>8, <1>9, <1>10 DEF DiskInv, MapInv

\* Writing the bundle, whether it succeeds or not.
LEMMA BundleErases ==
  ASSUME NEW ks \in SUBSET Keys, WriteMultiRemove(ks), \A k \in ks : map'[k] = None,
         \A k \in Keys : map'[k] \in {map[k], None}
  PROVE  Erases /\ removing' = {}
BY DEF WriteMultiRemove, WriteFails, Erases

LEMMA RemoveErases ==
  ASSUME TypeInv, MapInv, NEW k \in Keys, RemoveEntry(k)
  PROVE  Erases /\ map' = [map EXCEPT ![k] = None] /\ \A j \in removing' : map'[j] = None
<1>1. map' = [map EXCEPT ![k] = None]
  BY DEF RemoveEntry
<1>2. \A j \in Keys : map'[j] = IF j = k THEN None ELSE map[j]
  BY <1>1, StateIs
<1>3. \A j \in removing \cup {k} : j \in Keys /\ map'[j] = None
  BY <1>2, StateIs DEF MapInv
<1>4. CASE WriteMultiRemove(removing \cup {k})
  <2>1. removing \cup {k} \in SUBSET Keys
    BY <1>3
  <2> QED BY <1>1, <1>2, <1>3, <1>4, <2>1, BundleErases
<1>5. CASE removing' = removing \cup {k} /\ UNCHANGED <<binlog, offset, binlogOpen>>
  BY <1>1, <1>2, <1>3, <1>5 DEF Erases
<1> QED BY <1>4, <1>5 DEF RemoveEntry

\* A place that isFreePlace allows is one that no key has, in the map or in the binlog.
LEMMA FreeIsNoOther ==
  ASSUME TypeInv, NEW p \in FreePlaces, NEW k
  PROVE  NoOther(map, k, p) /\ NoOther(Replay(binlog), k, p)
<1>1. /\ p \notin Mentioned(map)
      /\ \A i \in 1..Len(binlog) : p \notin Mentioned(binlog[i][1])
  BY DEF FreePlaces
<1>2. NoOther(map, k, p)
  <2> SUFFICES ASSUME NEW j \in Keys, map[j] # None, map[j].place = p PROVE FALSE
    BY DEF NoOther
  <2>1. map[j] # Same
    BY StateIs, SentinelAssumption DEF MaybeEntry
  <2> QED BY <1>1, <2>1 DEF Mentioned
<1>3. NoOther(Replay(binlog), k, p)
  BY <1>1, StateIs, ReplayPlaces DEF NoOther
<1> QED BY <1>2, <1>3

-----------------------------------------------------------------------------
(* Every step keeps the invariant.                                             *)

LEMMA PutRecordKeeps ==
  ASSUME PlacesInv, NEW k \in Keys, NEW v \in Values, PutRecord(k, v)
  PROVE  DiskInv' /\ MapInv' /\ MovingInv' /\ CompInv'
<1>1. PICK p \in (IF map[k] = None THEN FreePlaces ELSE {map[k].place}) :
        /\ WriteRecord(StoreRecord(k, [place |-> p, value |-> v]))
        /\ map' = [map EXCEPT ![k] = [place |-> p, value |-> v]]
  BY DEF PutRecord
<1>2. /\ step = "idle" /\ step' = "putting" /\ ready' = ready /\ comp' = comp
      /\ removing' = removing \ {k}
  BY DEF PutRecord, Idle, StillWanted
<1>3. binlogOpen /\ Follows(binlog) /\ Apart(map) /\ Apart(Replay(binlog))
  BY <1>1 DEF WriteRecord, PlacesInv, MapInv, DiskInv
<1>4. p \in Places /\ NoOther(map, k, p) /\ NoOther(Replay(binlog), k, p)
  <2>1. CASE map[k] = None
    BY <1>1, <2>1, FreeIsNoOther DEF FreePlaces, PlacesInv
  <2>2. CASE map[k] # None
    <3>1. p = map[k].place /\ map[k] \in Entry /\ Replay(binlog)[k] = map[k]
      BY <1>1, <1>3, <2>2, StateIs DEF Follows, MaybeEntry, PlacesInv
    <3> QED BY <1>3, <2>2, <3>1 DEF NoOther, Apart, Entry
  <2> QED BY <2>1, <2>2
<1> DEFINE e == [place |-> p, value |-> v]
<1>5. e \in Entry /\ e.place = p
  BY <1>4 DEF Entry
<1>6. WriteRecord(StoreRecord(k, e)) /\ map' = [map EXCEPT ![k] = e]
  BY <1>1
<1> HIDE DEF e
<1>7. Working /\ Working'
  BY <1>2 DEF Working
<1>8. DiskInv' /\ MapInv' /\ CompInv'
  BY <1>2, <1>4, <1>5, <1>6, <1>7, Stored DEF PlacesInv
<1>9. MovingInv'
  BY <1>2 DEF MovingInv
<1> QED BY <1>8, <1>9

LEMMA MoveRemovesKeeps ==
  ASSUME PlacesInv, NEW from \in Keys, NEW to \in Keys, MoveRemoves(from, to)
  PROVE  DiskInv' /\ MapInv' /\ MovingInv' /\ CompInv'
<1>1. /\ step = "idle" /\ map[to] = None /\ map[from] # None
      /\ map' = [map EXCEPT ![from] = None] /\ WriteMultiRemove(removing \cup {from})
      /\ ready' = ready /\ comp' = comp
  BY DEF MoveRemoves, Idle
<1>2. step' \in {"moving", "idle"}
  BY <1>1 DEF MoveRemoves
<1>3. \A j \in Keys : map'[j] = IF j = from THEN None ELSE map[j]
  BY <1>1, StateIs DEF PlacesInv
<1>4. removing \cup {from} \in SUBSET Keys /\ \A j \in removing \cup {from} : map'[j] = None
  BY <1>3, StateIs DEF PlacesInv, MapInv
<1>5. Erases /\ removing' = {}
  BY <1>1, <1>3, <1>4, BundleErases
<1>6. Working /\ Working'
  BY <1>1, <1>2 DEF Working
<1>7. DiskInv' /\ MapInv' /\ CompInv'
  BY <1>1, <1>5, <1>6, Erased DEF PlacesInv
<1>8. ASSUME step' = "moving" PROVE MovingInv'
  <2>1. binlogOpen' /\ job' = [key |-> to, entry |-> map[from]]
    BY <1>1, <1>8 DEF MoveRemoves
  <2>2. WriteRecord(MultiRemoveRecord(removing \cup {from}))
    BY <1>1, <2>1 DEF WriteMultiRemove, WriteFails
  <2>3. binlogOpen /\ offset = Len(binlog) /\ Replay(binlog)[from] = map[from]
    BY <1>1, <2>2 DEF WriteRecord, PlacesInv, MapInv, Follows
  <2>4. \A j \in Keys : Replay(binlog')[j] =
                          IF j \in removing \cup {from} THEN None ELSE Replay(binlog)[j]
    BY <1>4, <2>2, <2>3, RemoveAppends DEF PlacesInv
  <2>5. NoOther(map', to, map[from].place)
    BY <1>1, <1>3 DEF NoOther, PlacesInv, MapInv, Apart
  <2>6. NoOther(Replay(binlog'), to, map[from].place)
    BY <1>1, <2>3, <2>4 DEF NoOther, PlacesInv, DiskInv, Apart
  <2>7. job'.key = to /\ job'.entry = map[from] /\ map'[to] = None
    BY <1>1, <1>3, <2>1
  <2> QED BY <1>5, <2>5, <2>6, <2>7 DEF MovingInv
<1>9. MovingInv'
  BY <1>8 DEF MovingInv
<1> QED BY <1>7, <1>9

LEMMA MoveStoresKeeps ==
  ASSUME PlacesInv, MoveStores
  PROVE  DiskInv' /\ MapInv' /\ MovingInv' /\ CompInv'
<1>1. /\ step = "moving" /\ step' = "idle" /\ removing' = removing
      /\ ready' = ready /\ comp' = comp
  BY DEF MoveStores
<1>2. job.key \in Keys /\ job.entry \in Entry
  BY <1>1 DEF PlacesInv, TypeInv, TypeOK, DatabaseTypeOK, StepInv
<1>3. Working /\ Working' /\ MovingInv'
  BY <1>1 DEF Working, MovingInv
<1>4. CASE WriteRecord(StoreRecord(job.key, job.entry)) /\ map' = [map EXCEPT ![job.key] = job.entry]
  <2>1. /\ NoOther(map, job.key, job.entry.place)
        /\ NoOther(Replay(binlog), job.key, job.entry.place)
    BY <1>1, <1>4 DEF PlacesInv, MovingInv, WriteRecord
  <2>2. removing' \subseteq removing \ {job.key}
    BY <1>1 DEF PlacesInv, MovingInv
  <2>3. DiskInv' /\ MapInv' /\ CompInv'
    BY <1>1, <1>2, <1>3, <1>4, <2>1, <2>2, Stored DEF PlacesInv
  <2> QED BY <1>3, <2>3
<1>5. CASE WriteFails /\ UNCHANGED map
  <2>1. Erases /\ \A k \in removing' : map'[k] = None
    BY <1>1, <1>5 DEF WriteFails, Erases, PlacesInv, MapInv
  <2> QED BY <1>1, <1>3, <2>1, Erased DEF PlacesInv
<1> QED BY <1>4, <1>5 DEF MoveStores

\* A handler that at most erases.
LEMMA QuietKeeps ==
  ASSUME PlacesInv, TypeInv', Erases, Working, step' \in {"idle", "clearing"}, ready' = ready,
         \A k \in removing' : map'[k] = None, comp' = comp \/ CheckCompactor
  PROVE  DiskInv' /\ MapInv' /\ MovingInv' /\ CompInv'
<1>1. Working'
  BY DEF Working
<1>2. DiskInv' /\ MapInv' /\ (comp' = comp => CompInv')
  BY <1>1, Erased DEF PlacesInv
<1>3. binlog' \in Seq(Block) /\ Whole(binlog)'
  BY <1>2 DEF TypeInv, TypeOK, DiskTypeOK, DiskInv
<1>4. CompInv'
  BY <1>2, <1>3, CompactorStarts
<1>5. MovingInv'
  BY DEF MovingInv
<1> QED BY <1>2, <1>4, <1>5

\* A handler that leaves the map and the disk alone.
LEMMA AsideKeeps ==
  ASSUME PlacesInv, TypeInv', Working, step' \in {"idle", "clearing"},
         map' = map, removing' \subseteq removing, ready' = ready, binlog' = binlog,
         binlogOpen' => binlogOpen /\ offset' = offset, comp' = comp \/ CheckCompactor
  PROVE  DiskInv' /\ MapInv' /\ MovingInv' /\ CompInv'
<1>1. Erases /\ \A k \in removing' : map'[k] = None
  BY DEF Erases, PlacesInv, MapInv
<1> QED BY <1>1, QuietKeeps

LEMMA DatabaseKeeps ==
  ASSUME PlacesInv, TypeInv', DatabaseStep
  PROVE  DiskInv' /\ MapInv' /\ MovingInv' /\ CompInv'
<1> DEFINE Kept == DiskInv' /\ MapInv' /\ MovingInv' /\ CompInv'
<1>0. /\ TypeInv /\ DiskInv /\ MapInv /\ MovingInv /\ CompInv
      /\ binlogOpen' \in BOOLEAN
  BY DEF PlacesInv, TypeInv, TypeOK, DatabaseTypeOK
<1> HIDE DEF Kept
<1> USE DEF Idle, Working
<1>1. ASSUME NEW k \in Keys, NEW v \in Values, PutRecord(k, v) PROVE Kept
  BY <1>1, PutRecordKeeps DEF Kept
<1>2. ASSUME NEW k \in Keys, NEW v \in Values, PutSame(k, v) PROVE Kept
  BY <1>2, AsideKeeps DEF PutSame, StillWanted, diskVars, Kept
<1>3. ASSUME NEW k \in Keys, NEW v \in Values, PutNotWritten(k, v) PROVE Kept
  BY <1>3, AsideKeeps DEF PutNotWritten, WriteFails, StillWanted, Kept
<1>4. CASE PutData
  BY <1>4, AsideKeeps DEF PutData, Kept
<1>5. CASE PutDataFails
  <2>1. job.key \in Keys
    BY <1>5 DEF PutDataFails, TypeInv, TypeOK, DatabaseTypeOK, StepInv, PlacesInv
  <2>2. Erases /\ \A j \in removing' : map'[j] = None
    BY <1>0, <1>5, <2>1, RemoveErases DEF PutDataFails
  <2> QED BY <1>5, <2>2, QuietKeeps DEF PutDataFails, Kept
<1>6. ASSUME NEW k \in Keys, Get(k) PROVE Kept
  <2>1. CASE UNCHANGED <<dbVars, diskVars>> /\ CheckCompactor
    BY <1>6, <2>1, AsideKeeps DEF Get, dbVars, diskVars, Kept
  <2>2. CASE RemoveEntry(k) /\ UNCHANGED <<step, job, stale, comp, ready>>
    <3>1. Erases /\ \A j \in removing' : map'[j] = None
      BY <1>0, <2>2, RemoveErases
    <3> QED BY <1>6, <2>2, <3>1, QuietKeeps DEF Get, Kept
  <2> QED BY <1>6, <2>1, <2>2 DEF Get
<1>7. ASSUME NEW k \in Keys, Remove(k) PROVE Kept
  <2>1. Erases /\ \A j \in removing' : map'[j] = None
    BY <1>0, <1>7, RemoveErases DEF Remove
  <2> QED BY <1>7, <2>1, QuietKeeps DEF Remove, Kept
<1>8. ASSUME NEW from \in Keys, NEW to \in Keys, MoveRemoves(from, to) PROVE Kept
  BY <1>8, MoveRemovesKeeps DEF Kept
<1>9. CASE MoveStores
  BY <1>9, MoveStoresKeeps DEF Kept
<1>10. ASSUME NEW ks \in SUBSET Keys, StartStaleClear(ks) PROVE Kept
  BY <1>10, AsideKeeps DEF StartStaleClear, diskVars, Kept
<1>11. CASE ClearStaleChunk
  <2>1. PICK k \in stale :
          \/ RemoveEntry(k)
          \/ UNCHANGED <<map, removing, binlog, offset, binlogOpen, files, mayRead>>
    BY <1>11 DEF ClearStaleChunk
  <2>2. /\ step \in {"clearing", "idle"} /\ step' = "idle" /\ ready' = ready
        /\ comp' = comp \/ CheckCompactor
    BY <1>11 DEF ClearStaleChunk
  <2>3. k \in Keys
    BY <1>0 DEF TypeInv, TypeOK, DatabaseTypeOK
  <2>4. CASE RemoveEntry(k)
    <3>1. Erases /\ \A j \in removing' : map'[j] = None
      BY <1>0, <2>3, <2>4, RemoveErases
    <3> QED BY <2>2, <3>1, QuietKeeps DEF Kept
  <2>5. CASE UNCHANGED <<map, removing, binlog, offset, binlogOpen, files, mayRead>>
    BY <2>2, <2>5, AsideKeeps DEF Kept
  <2> QED BY <2>1, <2>4, <2>5
<1>12. CASE WriteBundles
  <2>1. /\ WriteMultiRemove(removing) /\ CheckCompactor /\ map' = map /\ step = "idle"
        /\ step' = "idle" /\ ready' = ready
    BY <1>12 DEF WriteBundles
  <2>2. \A k \in removing : map'[k] = None
    BY <1>0, <2>1 DEF MapInv
  <2>3. Erases /\ removing' = {}
    BY <1>0, <2>1, <2>2, StateIs, BundleErases
  <2> QED BY <2>1, <2>3, QuietKeeps DEF Kept
<1>13. CASE CompactorFail
  <2>1. /\ comp' = NoCompactor /\ ready' = None /\ UNCHANGED <<dbVars, binlog, files, mayRead>>
        /\ step = "idle"
    BY <1>13 DEF CompactorFail
  <2>2. NoCompactor.at = "none"
    BY DEF NoCompactor
  <2>3. CompInv'
    BY <2>1, <2>2 DEF CompInv, ReadingInv, CopyInv
  <2> QED BY <1>0, <2>1, <2>3 DEF DiskInv, MapInv, MovingInv, Follows, dbVars, Kept
<1>14. CASE DatabaseAnswers
  <2> DEFINE list == [k \in Keys |-> IF comp.list[k] = None /\ k \in comp.keys
                                     THEN map[k] ELSE comp.list[k]]
  <2>1. /\ UNCHANGED <<dbVars, diskVars, mayRead>> /\ comp.at = "asked"
        /\ comp' = [comp EXCEPT !.at = "reading", !.keys = {}, !.list = list]
    BY <1>14 DEF DatabaseAnswers
  <2>2. \A k \in Keys : list[k] = IF comp.list[k] = None /\ k \in comp.keys
                                  THEN map[k] ELSE comp.list[k]
    OBVIOUS
  <2> HIDE DEF list
  <2>3. /\ comp'.at = "reading" /\ comp'.keys = {} /\ comp'.list = list
        /\ comp'.till = comp.till /\ comp'.read = comp.read
    BY <1>0, <2>1, StateIs DEF CompactorState
  <2>4. Rest' = Rest /\ Source' = Source
    BY <2>1, <2>3 DEF Rest, Source, diskVars
  <2>5. ASSUME binlogOpen, NEW k \in Keys, ~Mentions(Rest, k)
        PROVE  \/ list[k] = Replay(binlog)[k]
               \/ list[k] = None /\ (map[k] = None \/ k \in Pending')
    <3>1. \/ comp.list[k] = Replay(binlog)[k]
          \/ comp.list[k] = None /\ (map[k] = None \/ k \in Pending)
      BY <1>0, <2>1, <2>5 DEF CompInv, ReadingInv
    <3>2. map[k] \in {Replay(binlog)[k], None}
      BY <1>0, <2>5 DEF MapInv, Follows
    <3>3. k \in Pending => k \in comp.keys \/ k \in Pending'
      BY <2>3, <2>4 DEF Pending
    <3> QED BY <2>2, <3>1, <3>2, <3>3
  <2>6. ReadingInv'
    BY <1>0, <2>1, <2>3, <2>4, <2>5 DEF CompInv, ReadingInv, dbVars, diskVars
  <2>7. CompInv'
    BY <2>3, <2>6 DEF CompInv, CopyInv
  <2> QED BY <1>0, <2>1, <2>7 DEF DiskInv, MapInv, MovingInv, Follows, dbVars, diskVars, Kept
<1>15. CASE CompactorDone
  <2>1. /\ comp' = NoCompactor /\ comp.at = "done" /\ step = "idle"
        /\ UNCHANGED <<job, binlogOpen, offset, map, removing, stale, binlog, files, mayRead>>
        /\ \/ binlogOpen /\ ready' = Compacted /\ step' = "replacing"
           \/ ready' = None /\ step' = step
    BY <1>15 DEF CompactorDone
  <2>2. NoCompactor.at = "none"
    BY DEF NoCompactor
  <2>3. CompInv' /\ MovingInv'
    BY <2>1, <2>2 DEF CompInv, ReadingInv, CopyInv, MovingInv
  <2>4. CASE binlogOpen /\ ready' = Compacted /\ step' = "replacing"
    <3>1. /\ Whole(Compacted)
          /\ \A k \in Keys : \/ Replay(Compacted)[k] = Replay(binlog)[k]
                             \/ Replay(Compacted)[k] = None /\ map[k] = None
      BY <1>0, <2>1, <2>4 DEF CompInv, CopyInv
    <3>2. Apart(Replay(Compacted))
      BY <1>0, <3>1 DEF DiskInv, Apart
    <3>3. \A k \in Keys : map[k] \in {Replay(Compacted)[k], None}
      BY <1>0, <2>4, <3>1 DEF MapInv, Follows
    <3>4. Follows(ready)'
      BY <2>1, <2>4, <3>3 DEF Follows
    <3>5. DiskInv'
      BY <1>0, <2>1, <2>4, <3>1, <3>2 DEF DiskInv
    <3>6. MapInv'
      BY <1>0, <2>1, <2>4, <3>4 DEF MapInv, Follows
    <3> QED BY <2>3, <3>5, <3>6 DEF Kept
  <2>5. CASE ready' = None /\ step' = step
    BY <1>0, <2>1, <2>3, <2>5 DEF DiskInv, MapInv, Follows, Kept
  <2> QED BY <2>1, <2>4, <2>5
<1>16. CASE RemoveOldBinlog
  <2>1. /\ step = "replacing" /\ step' = "renaming" /\ ~binlogOpen' /\ binlog' = <<>>
        /\ UNCHANGED <<job, map, removing, stale, comp, ready, files, mayRead>>
    BY <1>16 DEF RemoveOldBinlog
  <2>2. DiskInv'
    BY <1>0, <2>1, EmptyLog DEF DiskInv, Apart
  <2> QED BY <1>0, <2>1, <2>2 DEF MapInv, MovingInv, CompInv, ReadingInv, CopyInv, Follows, Kept
<1>17. CASE RenameReady
  <2>1. /\ step = "renaming" /\ step' = "idle" /\ binlog' = ready /\ offset' = Len(ready)
        /\ ready' = None /\ UNCHANGED <<job, map, removing, stale, comp, files, mayRead>>
    BY <1>17 DEF RenameReady
  <2>2. comp = NoCompactor /\ ready # None
    BY <1>0, <2>1 DEF TypeInv, StepInv
  <2>3. CompInv'
    BY <2>1, <2>2 DEF CompInv, ReadingInv, CopyInv, NoCompactor
  <2>4. DiskInv'
    BY <1>0, <2>1, <2>2 DEF DiskInv
  <2> QED BY <1>0, <2>1, <2>3, <2>4 DEF MapInv, MovingInv, Follows, Kept
<1>18. CASE RenameReadyFails
  <2>1. /\ step = "renaming" /\ step' = "idle" /\ ready' = None
        /\ UNCHANGED <<job, binlogOpen, offset, map, removing, stale, comp, binlog, files, mayRead>>
    BY <1>18 DEF RenameReadyFails
  <2>2. ~binlogOpen
    BY <1>0, <2>1 DEF MapInv
  <2> QED BY <1>0, <2>1, <2>2 DEF DiskInv, MapInv, MovingInv, CompInv, ReadingInv, CopyInv, Kept
<1> QED
  BY <1>1, <1>2, <1>3, <1>4, <1>5, <1>6, <1>7, <1>8, <1>9, <1>10, <1>11, <1>12, <1>13,
     <1>14, <1>15, <1>16, <1>17, <1>18 DEF DatabaseStep, Kept

\* The list of the compactor and the rest of the binlog make the map of the binlog.
LEMMA FinishKeeps ==
  ASSUME PlacesInv, CompactorFinishes
  PROVE  CompInv'
<1>0. /\ comp \in CompactorState /\ comp.till \in Nat /\ comp.till <= Len(binlog)
      /\ comp.list \in [Keys -> MaybeEntry] /\ comp.at = "reading"
      /\ binlog \in Seq(Block) /\ Whole(binlog)
  BY DEF PlacesInv, TypeInv, TypeOK, DiskTypeOK, StepInv, CompactorState, DiskInv,
     CompactorFinishes
<1>1. PICK temp : temp = (IF comp.list = NoEntries THEN <<>>
                          ELSE BothBlocks(MultiStoreRecord(comp.list)))
  OBVIOUS
<1>2. /\ comp' = [comp EXCEPT !.at = "catchingUp", !.read = 0, !.list = NoEntries,
                              !.from = comp.till, !.temp = temp]
      /\ StoredKeys(Source, comp.read, WholeRecords(Source)) = {}
      /\ UNCHANGED <<dbVars, diskVars, mayRead>>
  BY <1>1 DEF CompactorFinishes
<1>3. comp'.at = "catchingUp" /\ comp'.from = comp.till /\ comp'.temp = temp
  BY <1>0, <1>2 DEF CompactorState
<1>4. /\ temp \in Seq(Block) /\ Whole(temp)
      /\ \A k \in Keys : Replay(temp)[k] = comp.list[k]
  <2>1. CASE comp.list = NoEntries
    BY <1>1, <2>1, EmptyLog DEF NoEntries
  <2>2. CASE comp.list # NoEntries
    <3> DEFINE r == MultiStoreRecord(comp.list)
    <3>1. r \in Record /\ \A k \in Keys : r[k] = IF comp.list[k] = None THEN Same ELSE comp.list[k]
      BY <1>0, RecordTypes DEF MultiStoreRecord
    <3>2. temp = BothBlocks(r)
      BY <1>1, <2>2
    <3> HIDE DEF r
    <3>3. \A k \in Keys : After(r, None, k) = comp.list[k]
      BY <1>0, <3>1, SentinelAssumption DEF After, MaybeEntry
    <3> QED BY <3>1, <3>2, <3>3, OneRecord
  <2> QED BY <2>1, <2>2
<1>5. SUFFICES ASSUME binlogOpen PROVE CopyInv'
  BY <1>2, <1>3 DEF CompInv, ReadingInv, CopyInv, dbVars
<1>6. /\ Even(comp.till)
      /\ \A k \in Keys : ~Mentions(Rest, k) =>
           \/ comp.list[k] = Replay(binlog)[k]
           \/ comp.list[k] = None /\ map[k] = None
  <2>1. Even(comp.till) /\ Pending = {}
    BY <1>0, <1>2, <1>5 DEF PlacesInv, CompInv, ReadingInv, Pending
  <2> QED BY <1>0, <1>5, <2>1 DEF PlacesInv, CompInv, ReadingInv
<1>7. /\ Source \in Seq(Block) /\ Rest \in Seq(Block) /\ Whole(Source) /\ Whole(Rest)
      /\ binlog = Source \o Rest
  BY <1>0, <1>6, WholeSplit DEF Source, Rest
<1>8. Compacted' = temp \o Rest
  BY <1>2, <1>3 DEF Compacted, Rest, diskVars
<1>9. ASSUME NEW k \in Keys
      PROVE  \/ Replay(temp \o Rest)[k] = Replay(binlog)[k]
             \/ Replay(temp \o Rest)[k] = None /\ map[k] = None
  <2>1. /\ Replay(temp \o Rest)[k] = IF Mentions(Rest, k) THEN Replay(Rest)[k] ELSE comp.list[k]
        /\ Mentions(Rest, k) => Replay(binlog)[k] = Replay(Rest)[k]
    BY <1>4, <1>7, WholeConcat
  <2> QED BY <1>6, <2>1
<1>10. Whole(temp \o Rest)
  BY <1>4, <1>7, WholeConcat
<1> QED BY <1>2, <1>3, <1>6, <1>8, <1>9, <1>10 DEF CopyInv, dbVars, diskVars

LEMMA CompactorKeeps ==
  ASSUME PlacesInv, TypeInv', CompactorStep
  PROVE  DiskInv' /\ MapInv' /\ MovingInv' /\ CompInv'
<1>0. UNCHANGED <<dbVars, diskVars, mayRead>>
  BY DEF CompactorStep, CompactorReads, CompactorFinishes, CompactorCatchesUp, CompactorGivesUp
<1>1. DiskInv' /\ MapInv' /\ MovingInv'
  BY <1>0 DEF PlacesInv, DiskInv, MapInv, MovingInv, Follows, dbVars, diskVars
<1>2. /\ comp \in CompactorState /\ binlog \in Seq(Block) /\ Len(binlog) \in Nat
      /\ comp.till <= Len(binlog) /\ comp.from <= Len(binlog) /\ CompInv /\ Whole(binlog)
      /\ comp.till \in Nat /\ comp.from \in Nat /\ comp.read \in Nat
  BY DEF PlacesInv, TypeInv, TypeOK, DiskTypeOK, StepInv, CompactorState, DiskInv
<1>3. CASE CompactorReads
  <2>1. PICK n \in comp.read + 1 .. WholeRecords(Source) :
          comp' = [comp EXCEPT !.at = "asked", !.read = n,
                               !.keys = StoredKeys(Source, comp.read, n)]
    BY <1>3 DEF CompactorReads
  <2>2. /\ comp.at = "reading" /\ comp'.at = "asked" /\ comp'.till = comp.till
        /\ comp'.list = comp.list /\ comp'.read = n
        /\ comp'.keys = StoredKeys(Source, comp.read, n)
    BY <1>2, <1>3, <2>1 DEF CompactorReads, CompactorState
  <2>3. Source' = Source /\ Rest' = Rest
    BY <1>0, <2>2 DEF Source, Rest, diskVars
  <2>4. WholeRecords(Source) \in Nat
    BY <1>2, SourceType, ReadableFacts
  <2>5. StoredKeys(Source, comp.read, WholeRecords(Source)) \subseteq
          StoredKeys(Source, comp.read, n) \cup StoredKeys(Source, n, WholeRecords(Source))
    <3>1. ASSUME NEW i \in comp.read + 1 .. WholeRecords(Source)
          PROVE  i \in comp.read + 1 .. n \/ i \in n + 1 .. WholeRecords(Source)
      BY <1>2, <2>1, <2>4
    <3> QED BY <3>1 DEF StoredKeys
  <2>6. binlogOpen => Pending \subseteq Pending'
    BY <1>2, <2>2, <2>3, <2>5 DEF Pending, CompInv, ReadingInv
  <2>7. ReadingInv'
    BY <1>0, <1>2, <2>2, <2>3, <2>6 DEF CompInv, ReadingInv, dbVars, diskVars
  <2> QED BY <1>1, <2>2, <2>7 DEF CompInv, CopyInv
<1>4. CASE CompactorFinishes
  BY <1>1, <1>4, FinishKeeps
<1>5. CASE CompactorCatchesUp
  <2>1. PICK a \in {"done", "catchingUp"}, more \in Nat :
          comp' = [comp EXCEPT !.at = a, !.temp = Compacted, !.from = Len(binlog), !.last = more]
    <3>1. Len(binlog) - comp.from \in Nat
      BY <1>2
    <3> QED BY <1>5, <3>1 DEF CompactorCatchesUp
  <2>2. /\ comp.at = "catchingUp" /\ comp'.at = a
        /\ comp'.temp = Compacted /\ comp'.from = Len(binlog)
    BY <1>2, <1>5, <2>1 DEF CompactorCatchesUp, CompactorState
  <2>3. Compacted \in Seq(Block)
    BY <1>2, CompactedType
  <2>4. Compacted' = Compacted
    <3>1. SubSeq(binlog, Len(binlog) + 1, Len(binlog)) = <<>>
      BY <1>2, SubSeqEmpty
    <3>2. Compacted \o <<>> = Compacted
      BY <2>3, ConcatEmptySeq
    <3>3. Compacted' = comp'.temp \o SubSeq(binlog', comp'.from + 1, Len(binlog'))
      BY DEF Compacted
    <3> QED BY <1>0, <2>2, <3>1, <3>2, <3>3 DEF diskVars
  <2>5. Even(Len(binlog))
    BY <1>2, WholeIsEven
  <2>6. CopyInv'
    BY <1>0, <1>2, <2>2, <2>4, <2>5 DEF CompInv, CopyInv, dbVars, diskVars
  <2> QED BY <1>1, <2>2, <2>6 DEF CompInv, ReadingInv
<1>6. CASE CompactorGivesUp
  <2>1. comp' = [NoCompactor EXCEPT !.at = "failed"]
    BY <1>6 DEF CompactorGivesUp
  <2>2. comp'.at = "failed"
    BY <2>1 DEF NoCompactor
  <2> QED BY <1>1, <2>2 DEF CompInv, ReadingInv, CopyInv
<1> QED BY <1>3, <1>4, <1>5, <1>6 DEF CompactorStep

\* The last bundle, while closing.
LEMMA CloseIs ==
  ASSUME PlacesInv, Close
  PROVE  /\ binlog' \in Seq(Block) /\ Whole(binlog)' /\ Forget
         /\ \A k \in Keys :
              Replay(binlog')[k] = IF binlogOpen /\ k \in removing THEN None ELSE Replay(binlog)[k]
<1>0. binlog \in Seq(Block) /\ Whole(binlog) /\ removing \in SUBSET Keys /\ Forget
  BY StateIs DEF PlacesInv, DiskInv, Close
<1>1. CASE binlogOpen /\ removing # {}
  <2> DEFINE r == MultiRemoveRecord(removing)
  <2>1. r \in Record /\ \A k \in Keys : r[k] = IF k \in removing THEN None ELSE Same
    BY <1>0, RecordTypes DEF MultiRemoveRecord
  <2>2. binlog' = Written(binlog, offset, r) /\ offset = Len(binlog)
    BY <1>1 DEF Close, PlacesInv, MapInv
  <2> HIDE DEF r
  <2>3. binlog' = binlog \o BothBlocks(r)
    BY <1>0, <2>1, <2>2, WrittenAtEnd
  <2>4. \A k \in Keys : After(r, Replay(binlog)[k], k) = IF k \in removing THEN None ELSE Replay(binlog)[k]
    BY <2>1, SentinelAssumption DEF After
  <2> QED BY <1>0, <1>1, <2>1, <2>3, <2>4, RecordAppended
<1>2. CASE ~(binlogOpen /\ removing # {})
  BY <1>0, <1>2 DEF Close
<1> QED BY <1>1, <1>2

LEMMA ProcessKeeps ==
  ASSUME PlacesInv, TypeInv', ProcessStep, "torn" \notin Mishaps
  PROVE  DiskInv' /\ MapInv' /\ MovingInv' /\ CompInv'
<1> DEFINE Kept == DiskInv' /\ MapInv' /\ MovingInv' /\ CompInv'
<1>0. /\ TypeInv /\ DiskInv /\ MapInv /\ MovingInv /\ CompInv
      /\ binlog \in Seq(Block) /\ Whole(binlog)
  BY StateIs DEF PlacesInv, DiskInv
<1>1. ASSUME Forget, DiskInv' PROVE Kept
  <2>1. /\ step' = "closed" /\ ~binlogOpen' /\ removing' = {} /\ comp' = NoCompactor
        /\ \A k \in Keys : map'[k] = None
    BY <1>1 DEF Forget, NoEntries
  <2>2. MapInv' /\ MovingInv'
    BY <2>1 DEF MapInv, MovingInv, Apart
  <2>3. CompInv'
    BY <2>1 DEF CompInv, ReadingInv, CopyInv
  <2> QED BY <1>1, <2>2, <2>3
<1> HIDE DEF Kept
<1>2. CASE Close
  <2>1. /\ Forget /\ Whole(binlog)' /\ ready' = ready
        /\ \A k \in Keys : Replay(binlog')[k] \in {Replay(binlog)[k], None}
    BY <1>2, CloseIs DEF Close
  <2>2. Apart(Replay(binlog'))
    BY <1>0, <2>1 DEF DiskInv, Apart
  <2>3. step' = "closed"
    BY <2>1 DEF Forget
  <2>4. DiskInv'
    BY <1>0, <2>1, <2>2, <2>3 DEF DiskInv
  <2> QED BY <1>1, <2>1, <2>4 DEF Kept
<1>3. CASE Crash
  <2>1. Forget /\ binlog' = binlog /\ ready' = ready /\ step' = "closed"
    BY <1>3 DEF Crash, Forget, diskVars
  <2>2. DiskInv'
    BY <1>0, <2>1 DEF DiskInv
  <2> QED BY <1>1, <2>1, <2>2 DEF Kept
<1>4. CASE CrashInWrite
  BY <1>4 DEF CrashInWrite
<1>5. CASE OpenDiscards
  <2>1. /\ step = "closed" /\ binlog' = <<>> /\ UNCHANGED <<dbVars, comp, ready, files, mayRead>>
    BY <1>5 DEF OpenDiscards
  <2>2. ~binlogOpen
    BY <1>0, <2>1 DEF MapInv
  <2>3. DiskInv'
    BY <1>0, <2>1, EmptyLog DEF DiskInv, Apart, dbVars
  <2> QED BY <1>0, <2>1, <2>2, <2>3
        DEF MapInv, MovingInv, CompInv, ReadingInv, CopyInv, Follows, dbVars, Kept
<1>6. CASE OpenRenames
  <2>1. /\ step = "closed" /\ binlog' = ready /\ ready # None /\ ready' = None
        /\ UNCHANGED <<dbVars, comp, files, mayRead>>
    BY <1>6 DEF OpenRenames
  <2>2. ~binlogOpen
    BY <1>0, <2>1 DEF MapInv
  <2>3. DiskInv'
    BY <1>0, <2>1 DEF DiskInv, dbVars
  <2> QED BY <1>0, <2>1, <2>2, <2>3
        DEF MapInv, MovingInv, CompInv, ReadingInv, CopyInv, Follows, dbVars, Kept
<1>7. CASE Open
  <2>1. /\ step = "closed" /\ step' = "idle" /\ CheckCompactor /\ UNCHANGED <<job, removing, stale>>
        /\ map' = Replay(binlog) /\ offset' = 2 * WholeRecords(binlog)
        /\ binlog' = binlog /\ UNCHANGED <<ready, files, mayRead>> /\ ready = None
    BY <1>7 DEF Open, diskVars
  <2>2. offset' = Len(binlog)
    BY <1>0, <2>1, WholeReads
  <2>3. \A k \in removing' : map'[k] = None
    <3>1. removing = {}
      BY <1>0, <2>1 DEF MapInv
    <3> QED BY <2>1, <3>1
  <2>4. DiskInv' /\ MapInv' /\ MovingInv'
    BY <1>0, <2>1, <2>2, <2>3 DEF DiskInv, MapInv, MovingInv, Follows
  <2>5. CompInv'
    <3>1. comp.at = "none"
      BY <1>0, <2>1 DEF TypeInv, StepInv, NoCompactor
    <3>2. comp' = comp => CompInv'
      BY <3>1 DEF CompInv, ReadingInv, CopyInv
    <3> QED BY <1>0, <2>1, <3>2, CompactorStarts
  <2> QED BY <2>4, <2>5 DEF Kept
<1> QED BY <1>2, <1>3, <1>4, <1>5, <1>6, <1>7 DEF ProcessStep, Kept

-----------------------------------------------------------------------------
(* No two keys share a data file. *)

LEMMA PlacesInit == Init => PlacesInv
<1> SUFFICES ASSUME Init PROVE PlacesInv
  OBVIOUS
<1>1. TypeInv
  BY TypeInit
<1>2. /\ step = "closed" /\ ~binlogOpen /\ removing = {} /\ binlog = <<>> /\ ready = None
      /\ comp.at = "none" /\ \A k \in Keys : map[k] = None
  BY DEF Init, NoCompactor, NoEntries
<1>3. DiskInv
  BY <1>2, EmptyLog DEF DiskInv, Apart
<1>4. MapInv /\ MovingInv
  BY <1>2 DEF MapInv, MovingInv, Apart
<1>5. CompInv
  BY <1>2 DEF CompInv, ReadingInv, CopyInv
<1> QED BY <1>1, <1>3, <1>4, <1>5 DEF PlacesInv

LEMMA PlacesStep ==
  ASSUME "torn" \notin Mishaps
  PROVE  PlacesInv /\ [Next]_vars => PlacesInv'
<1> SUFFICES ASSUME PlacesInv, [Next]_vars PROVE PlacesInv'
  OBVIOUS
<1>1. TypeInv'
  BY TypeStep DEF PlacesInv
<1>2. CASE DatabaseStep
  BY <1>1, <1>2, DatabaseKeeps DEF PlacesInv
<1>3. CASE CompactorStep
  BY <1>1, <1>3, CompactorKeeps DEF PlacesInv
<1>4. CASE ProcessStep
  BY <1>1, <1>4, ProcessKeeps DEF PlacesInv
<1>5. CASE UNCHANGED vars
  <2>1. DiskInv' /\ MapInv' /\ MovingInv'
    BY <1>5 DEF PlacesInv, DiskInv, MapInv, MovingInv, Follows, vars, dbVars, diskVars
  <2>2. CompInv'
    BY <1>5, CompactorRests DEF PlacesInv, vars, dbVars, diskVars
  <2> QED BY <1>1, <2>1, <2>2 DEF PlacesInv
<1> QED BY <1>2, <1>3, <1>4, <1>5 DEF Next

LEMMA PlacesHold ==
  ASSUME "torn" \notin Mishaps
  PROVE  Spec => []PlacesInv
<1>1. PlacesInv /\ [Next]_vars => PlacesInv'
  BY PlacesStep
<1> QED BY <1>1, PlacesInit, PTL DEF Spec

\* Unless a record was torn by a crash in the middle of its write, no two keys ever
\* have the same data file, whatever else fails: isFreePlace draws a place that
\* neither the map nor the binlog has, moveIfEmpty hands a place over only after the
\* MultiRemove of the old key is written, and a compaction brings neither back.
THEOREM PlacesAreDistinct ==
  ASSUME "torn" \notin Mishaps
  PROVE  Spec => []PlacesDistinct
<1>1. Spec => []PlacesInv
  BY PlacesHold
<1>2. PlacesInv => PlacesDistinct
  BY DEF PlacesInv, MapInv, Apart, PlacesDistinct
<1> QED BY <1>1, <1>2, PTL

-----------------------------------------------------------------------------
(* What callers were told, while the disk takes what is written to the binlog.  *)
(* Data files may fail, compactions may fail, and the process may die anywhere. *)

Calm == Mishaps \subseteq {"dataFails", "compactFails"}

\* What get finds for an entry among these files.
Found(e, fs) == IF e # None /\ fs[e.place] = e.value THEN e.value ELSE None

\* Where the binlog still has an entry that the map lost, the data file is gone.
Dead(log) ==
  \A k \in Keys : map[k] = None /\ Replay(log)[k] # None => files[Replay(log)[k].place] = None

DeadInv == (Working => Dead(binlog)) /\ (step \in {"replacing", "renaming"} => Dead(ready))

\* Between its two halves a handler finds what it left; what is being stored is not
\* about to be cleared.
HandlerInv ==
  /\ step = "putting" => map[job.key] = job.entry
  /\ step \in {"putting", "moving"} => job.key \notin stale

\* The database, or the next one if there is none, finds what callers were told.
ToldInv ==
  /\ step \in {"closed", "renaming"} \/ binlogOpen
  /\ \A k \in stale : None \in mayRead[k]
  /\ \A k \in Keys : Found(IF step = "closed" THEN Replay(OnDisk)[k] ELSE map[k], files) \in mayRead[k]

KeptInv == PlacesInv /\ DeadInv /\ HandlerInv /\ ToldInv

\* The binlog and the map it follows are read alike.
LEMMA ReadsAlike ==
  ASSUME TypeInv, NEW log \in Seq(Block), Follows(log), Dead(log), NEW k \in Keys
  PROVE  Found(Replay(log)[k], files) = Found(map[k], files)
<1>1. Replay(log)[k] \in MaybeEntry
  BY ReplayType
<1>2. CASE map[k] # None
  BY <1>2 DEF Follows
<1>3. CASE map[k] = None /\ Replay(log)[k] # None
  <2>1. files[Replay(log)[k].place] = None
    BY <1>3 DEF Dead
  <2>2. Replay(log)[k].value # None
    BY <1>1, <1>3, SentinelAssumption DEF MaybeEntry, Entry
  <2> QED BY <1>3, <2>1, <2>2 DEF Found
<1> QED BY <1>2, <1>3

\* The next process would find what this one does.
LEMMA NextFindsTheSame ==
  ASSUME KeptInv, step # "closed", NEW k \in Keys
  PROVE  Found(Replay(OnDisk)[k], files) = Found(map[k], files)
<1>1. TypeInv /\ DiskInv /\ MapInv /\ DeadInv /\ ToldInv
  BY DEF KeptInv, PlacesInv
<1>2. CASE Working
  <2>1. binlogOpen /\ OnDisk = binlog
    BY <1>1, <1>2 DEF ToldInv, DiskInv, Working, OnDisk
  <2> QED BY <1>1, <1>2, <2>1, StateIs, ReadsAlike DEF MapInv, DeadInv
<1>3. CASE step \in {"replacing", "renaming"}
  <2>1. ready \in Seq(Block) /\ OnDisk = ready
    BY <1>1, <1>3, StateIs DEF TypeInv, StepInv, OnDisk
  <2> QED BY <1>1, <1>3, <2>1, ReadsAlike DEF MapInv, DeadInv
<1> QED BY <1>2, <1>3 DEF Working

\* Nothing else can go wrong with the binlog.
LEMMA NeverFails ==
  ASSUME Calm, KeptInv, Working
  PROVE  ~WriteFails /\ binlogOpen /\ offset = Len(binlog) /\ Follows(binlog) /\ Dead(binlog)
BY DEF Calm, WriteFails, KeptInv, ToldInv, Working, DeadInv, PlacesInv, MapInv

\* The entry of one key goes, with its file.
LEMMA RemoveTells ==
  ASSUME Calm, KeptInv, Working, NEW k \in Keys, map[k] # None, RemoveEntry(k)
  PROVE  /\ binlogOpen' /\ Dead(binlog)'
         /\ \A j \in Keys : /\ map'[j] = IF j = k THEN None ELSE map[j]
                            /\ Found(map'[j], files') = IF j = k THEN None ELSE Found(map[j], files)
<1>0. /\ TypeInv /\ DiskInv /\ MapInv
      /\ ~WriteFails /\ binlogOpen /\ offset = Len(binlog) /\ Follows(binlog) /\ Dead(binlog)
  BY NeverFails DEF KeptInv, PlacesInv
<1>1. /\ map' = [map EXCEPT ![k] = None]
      /\ files' = [files EXCEPT ![map[k].place] = None]
  BY DEF RemoveEntry
<1>2. /\ files \in [Places -> Values \cup {None}]
      /\ map \in [Keys -> MaybeEntry] /\ map[k].place \in Places
  BY <1>0 DEF TypeInv, TypeOK, DatabaseTypeOK, DiskTypeOK, MaybeEntry, Entry
<1>3. /\ \A j \in Keys : map'[j] = IF j = k THEN None ELSE map[j]
      /\ \A p \in Places : files'[p] = IF p = map[k].place THEN None ELSE files[p]
  BY <1>1, <1>2
<1>4. ASSUME NEW j \in Keys
      PROVE  Found(map'[j], files') = IF j = k THEN None ELSE Found(map[j], files)
  <2>1. j # k /\ map[j] # None => map[j].place \in Places /\ map[j].place # map[k].place
    BY <1>0, <1>2 DEF MapInv, Apart, MaybeEntry, Entry
  <2> QED BY <1>3, <2>1 DEF Found
<1>5. /\ binlogOpen' /\ \A j \in Keys : Replay(binlog')[j] \in {Replay(binlog)[j], None}
  <2>1. CASE WriteMultiRemove(removing \cup {k})
    <3>1. removing \cup {k} \in SUBSET Keys
      BY <1>0, StateIs
    <3>2. WriteRecord(MultiRemoveRecord(removing \cup {k}))
      BY <1>0, <2>1 DEF WriteMultiRemove
    <3>3. binlogOpen'
      BY <1>0, <3>2 DEF WriteRecord
    <3> QED BY <1>0, <3>1, <3>2, <3>3, RemoveAppends
  <2>2. CASE UNCHANGED <<binlog, offset, binlogOpen>>
    BY <1>0, <2>2
  <2> QED BY <2>1, <2>2 DEF RemoveEntry
<1>6. ASSUME NEW j \in Keys, map'[j] = None, Replay(binlog')[j] # None
      PROVE  files'[Replay(binlog')[j].place] = None
  <2>1. Replay(binlog')[j] = Replay(binlog)[j] /\ Replay(binlog)[j] \in Entry
    BY <1>0, <1>5, <1>6, ReplayType, StateIs DEF MaybeEntry
  <2>2. Replay(binlog)[j].place \in Places
    BY <2>1 DEF Entry
  <2>3. CASE j = k
    <3>1. Replay(binlog)[j] = map[k]
      BY <1>0, <2>3 DEF Follows
    <3> QED BY <1>3, <2>1, <2>2, <3>1
  <2>4. CASE j # k
    <3>1. files[Replay(binlog)[j].place] = None
      BY <1>0, <1>3, <1>6, <2>1, <2>4 DEF Dead
    <3> QED BY <1>3, <2>1, <2>2, <3>1
  <2> QED BY <2>3, <2>4
<1> QED BY <1>3, <1>4, <1>5, <1>6 DEF Dead

\* What is left to show of a step from which the database goes on working.
Goes ==
  /\ Working' /\ binlogOpen' /\ Dead(binlog)' /\ HandlerInv'
  /\ \A k \in stale' : None \in mayRead'[k]
  /\ \A k \in Keys : Found(map'[k], files') \in mayRead'[k]

LEMMA GoesOn ==
  ASSUME Goes
  PROVE  DeadInv' /\ HandlerInv' /\ ToldInv'
BY DEF Goes, DeadInv, ToldInv, Working

\* A step of a working database that changes nothing of what is read.
LEMMA TellsTheSame ==
  ASSUME Calm, KeptInv, Working, Working', UNCHANGED <<binlogOpen, binlog, map, files>>, HandlerInv',
         \A k \in Keys : Found(map[k], files) \in mayRead[k] => Found(map[k], files) \in mayRead'[k],
         \A k \in stale' : None \in mayRead'[k]
  PROVE  DeadInv' /\ HandlerInv' /\ ToldInv'
<1>1. binlogOpen' /\ Dead(binlog)'
  BY NeverFails DEF Dead
<1>2. \A k \in Keys : Found(map'[k], files') \in mayRead'[k]
  BY DEF KeptInv, ToldInv, Working
<1> QED BY <1>1, <1>2, GoesOn DEF Goes

LEMMA PutRecordTells ==
  ASSUME Calm, KeptInv, NEW k \in Keys, NEW v \in Values, PutRecord(k, v)
  PROVE  DeadInv' /\ HandlerInv' /\ ToldInv'
<1>1. PICK p \in (IF map[k] = None THEN FreePlaces ELSE {map[k].place}) :
        /\ WriteRecord(StoreRecord(k, [place |-> p, value |-> v]))
        /\ map' = [map EXCEPT ![k] = [place |-> p, value |-> v]]
        /\ job' = [key |-> k, entry |-> [place |-> p, value |-> v]]
  BY DEF PutRecord
<1>2. /\ step = "idle" /\ step' = "putting" /\ stale' = stale \ {k}
      /\ mayRead' = [mayRead EXCEPT ![k] = {None, v}] /\ files' = files
  BY DEF PutRecord, Idle, StillWanted
<1>3. /\ TypeInv /\ DiskInv /\ Working /\ offset = Len(binlog) /\ Dead(binlog)
      /\ map \in [Keys -> MaybeEntry] /\ mayRead \in [Keys -> SUBSET (Values \cup {None})]
  BY <1>2, StateIs, NeverFails DEF KeptInv, PlacesInv, Working, TypeInv, TypeOK
<1> DEFINE e == [place |-> p, value |-> v]
<1>4. e \in Entry /\ e.value = v
  <2>1. p \in Places
    BY <1>1, <1>3 DEF FreePlaces, MaybeEntry, Entry
  <2> QED BY <2>1 DEF Entry
<1>5. /\ WriteRecord(StoreRecord(k, e)) /\ map' = [map EXCEPT ![k] = e]
      /\ job'.key = k /\ job'.entry = e
  BY <1>1
<1> HIDE DEF e
<1>6. \A j \in Keys : /\ map'[j] = IF j = k THEN e ELSE map[j]
                      /\ Replay(binlog')[j] = IF j = k THEN e ELSE Replay(binlog)[j]
                      /\ mayRead'[j] = IF j = k THEN {None, v} ELSE mayRead[j]
  BY <1>2, <1>3, <1>4, <1>5, StoreAppends
<1>7. e # None
  BY <1>4, SentinelAssumption
<1>8. Dead(binlog)'
  BY <1>2, <1>3, <1>6, <1>7 DEF Dead
<1>9. Working' /\ binlogOpen' /\ HandlerInv'
  BY <1>2, <1>5, <1>6 DEF Working, HandlerInv, WriteRecord
<1>10. \A j \in stale' : None \in mayRead'[j]
  BY <1>2, <1>3, <1>6 DEF KeptInv, ToldInv, TypeInv, TypeOK, DatabaseTypeOK
<1>11. \A j \in Keys : Found(map'[j], files') \in mayRead'[j]
  BY <1>2, <1>4, <1>6 DEF KeptInv, ToldInv, Found
<1> QED BY <1>8, <1>9, <1>10, <1>11, GoesOn DEF Goes

LEMMA PutDataTells ==
  ASSUME Calm, KeptInv, PutData
  PROVE  DeadInv' /\ HandlerInv' /\ ToldInv'
<1> DEFINE k == job.key
           e == job.entry
<1>1. /\ step = "putting" /\ step' = "idle"
      /\ files' = [files EXCEPT ![e.place] = e.value]
      /\ mayRead' = [mayRead EXCEPT ![k] = {e.value}]
      /\ UNCHANGED <<binlogOpen, map, stale, binlog>>
  BY DEF PutData
<1>2. /\ TypeInv /\ DiskInv /\ MapInv /\ Working /\ binlogOpen /\ Follows(binlog) /\ Dead(binlog)
      /\ mayRead \in [Keys -> SUBSET (Values \cup {None})]
      /\ files \in [Places -> Values \cup {None}] /\ map \in [Keys -> MaybeEntry]
      /\ Replay(binlog) \in [Keys -> MaybeEntry]
  BY <1>1, StateIs, NeverFails DEF KeptInv, PlacesInv, Working, TypeInv, TypeOK, DiskTypeOK
<1>3. k \in Keys /\ e \in Entry /\ map[k] = e /\ k \notin stale
  BY <1>1, <1>2 DEF KeptInv, HandlerInv, TypeInv, TypeOK, DatabaseTypeOK, StepInv
<1> HIDE DEF k, e
<1>4. e # None /\ e.place \in Places /\ Replay(binlog)[k] = e
  BY <1>2, <1>3, SentinelAssumption DEF Entry, Follows
<1>5. /\ \A p \in Places : files'[p] = IF p = e.place THEN e.value ELSE files[p]
      /\ \A j \in Keys : mayRead'[j] = IF j = k THEN {e.value} ELSE mayRead[j]
  BY <1>1, <1>2, <1>4
<1>6. ASSUME NEW j \in Keys, j # k
      PROVE  /\ map[j] # None => map[j].place \in Places \ {e.place}
             /\ Replay(binlog)[j] # None => Replay(binlog)[j].place \in Places \ {e.place}
  BY <1>2, <1>3, <1>4, <1>6 DEF MapInv, DiskInv, Apart, MaybeEntry, Entry
<1>7. \A j \in Keys : Found(map'[j], files') \in mayRead'[j]
  <2> TAKE j \in Keys
  <2>1. CASE j = k
    BY <1>1, <1>3, <1>4, <1>5, <2>1 DEF Found
  <2>2. CASE j # k
    <3>1. Found(map[j], files') = Found(map[j], files)
      BY <1>5, <1>6, <2>2 DEF Found
    <3> QED BY <1>1, <1>5, <2>2, <3>1 DEF KeptInv, ToldInv
  <2> QED BY <2>1, <2>2
<1>8. Dead(binlog)'
  <2> SUFFICES ASSUME NEW j \in Keys, map[j] = None, Replay(binlog)[j] # None
               PROVE  files'[Replay(binlog)[j].place] = None
    BY <1>1 DEF Dead
  <2>1. j # k
    BY <1>3, <1>4
  <2>2. files[Replay(binlog)[j].place] = None
    BY <1>2 DEF Dead
  <2> QED BY <1>5, <1>6, <2>1, <2>2
<1>9. \A j \in stale' : None \in mayRead'[j]
  BY <1>1, <1>2, <1>3, <1>5 DEF KeptInv, ToldInv, TypeInv, TypeOK, DatabaseTypeOK
<1>10. Working' /\ binlogOpen' /\ HandlerInv'
  BY <1>1, <1>2 DEF Working, HandlerInv
<1> QED BY <1>7, <1>8, <1>9, <1>10, GoesOn DEF Goes

\* An entry is removed, and callers know, or have no reason to expect it.
LEMMA RemovalTells ==
  ASSUME Calm, KeptInv, Working, step' = "idle", NEW k \in Keys, map[k] # None, RemoveEntry(k),
         stale' \subseteq stale, None \in mayRead'[k],
         \A j \in Keys \ {k} : mayRead'[j] = mayRead[j]
  PROVE  DeadInv' /\ HandlerInv' /\ ToldInv'
<1>1. /\ binlogOpen' /\ Dead(binlog)'
      /\ \A j \in Keys : Found(map'[j], files') = IF j = k THEN None ELSE Found(map[j], files)
  BY RemoveTells
<1>2. stale \subseteq Keys
  BY DEF KeptInv, PlacesInv, TypeInv, TypeOK, DatabaseTypeOK
<1>3. \A j \in Keys : Found(map'[j], files') \in mayRead'[j]
  BY <1>1 DEF KeptInv, ToldInv, Working
<1>4. \A j \in stale' : None \in mayRead'[j]
  BY <1>2 DEF KeptInv, ToldInv
<1>5. Working' /\ HandlerInv'
  BY DEF Working, HandlerInv
<1> QED BY <1>1, <1>3, <1>4, <1>5, GoesOn DEF Goes

LEMMA MoveRemovesTells ==
  ASSUME Calm, KeptInv, NEW from \in Keys, NEW to \in Keys, MoveRemoves(from, to)
  PROVE  DeadInv' /\ HandlerInv' /\ ToldInv'
<1>1. /\ step = "idle" /\ map[to] = None /\ map[from] # None /\ files' = files
      /\ map' = [map EXCEPT ![from] = None] /\ WriteMultiRemove(removing \cup {from})
  BY DEF MoveRemoves, Idle
<1>2. /\ TypeInv /\ DiskInv /\ Working /\ offset = Len(binlog) /\ Dead(binlog) /\ ~WriteFails
      /\ map \in [Keys -> MaybeEntry] /\ mayRead \in [Keys -> SUBSET (Values \cup {None})]
      /\ stale \subseteq Keys
  BY <1>1, StateIs, NeverFails
     DEF KeptInv, PlacesInv, Working, TypeInv, TypeOK, DatabaseTypeOK
<1>3. WriteRecord(MultiRemoveRecord(removing \cup {from})) /\ binlogOpen'
  BY <1>1, <1>2 DEF WriteMultiRemove, WriteRecord
<1>4. /\ step' = "moving" /\ job' = [key |-> to, entry |-> map[from]] /\ stale' = stale \ {to}
      /\ mayRead' = [mayRead EXCEPT ![from] = {None}, ![to] = {None, Content(map)[from]}]
  BY <1>3 DEF MoveRemoves
<1>5. removing \cup {from} \in SUBSET Keys
  BY <1>2, StateIs
<1>6. \A j \in Keys : Replay(binlog')[j] = IF j \in removing \cup {from} THEN None ELSE Replay(binlog)[j]
  BY <1>2, <1>3, <1>5, RemoveAppends
<1>7. /\ from # to
      /\ \A j \in Keys : map'[j] = IF j = from THEN None ELSE map[j]
      /\ \A j \in Keys : None \in mayRead'[j] \/ (j \notin {from, to} /\ mayRead'[j] = mayRead[j])
  <2> DEFINE told == {None, Content(map)[from]}
  <2>1. /\ None \in told
        /\ mayRead' = [mayRead EXCEPT ![from] = {None}, ![to] = told]
    BY <1>4
  <2> HIDE DEF told
  <2>2. \A j \in Keys : mayRead'[j] = IF j = to THEN told
                                      ELSE IF j = from THEN {None} ELSE mayRead[j]
    BY <1>2, <2>1
  <2> QED BY <1>1, <1>2, <2>1, <2>2
<1>8. Dead(binlog)'
  BY <1>1, <1>2, <1>6, <1>7 DEF Dead
<1>9. \A j \in Keys : Found(map'[j], files') \in mayRead'[j]
  <2> TAKE j \in Keys
  <2>1. CASE j \in {from, to}
    <3>1. map'[j] = None /\ None \in mayRead'[j]
      BY <1>1, <1>7, <2>1
    <3> QED BY <3>1 DEF Found
  <2>2. CASE j \notin {from, to}
    <3>1. /\ map'[j] = map[j] /\ Found(map[j], files) \in mayRead[j]
          /\ None \in mayRead'[j] \/ mayRead'[j] = mayRead[j]
      BY <1>1, <1>7, <2>2 DEF KeptInv, ToldInv
    <3>2. mayRead'[j] = mayRead[j]
      BY <1>1, <1>2, <1>4, <2>2
    <3> QED BY <1>1, <3>1, <3>2
  <2> QED BY <2>1, <2>2
<1>10. \A j \in stale' : None \in mayRead'[j]
  BY <1>2, <1>4, <1>7 DEF KeptInv, ToldInv
<1>11. Working' /\ HandlerInv'
  BY <1>4 DEF Working, HandlerInv
<1> QED BY <1>3, <1>8, <1>9, <1>10, <1>11, GoesOn DEF Goes

LEMMA MoveStoresTells ==
  ASSUME Calm, KeptInv, MoveStores
  PROVE  DeadInv' /\ HandlerInv' /\ ToldInv'
<1> DEFINE k == job.key
           e == job.entry
<1>1. /\ step = "moving" /\ step' = "idle" /\ UNCHANGED <<stale, files>>
  BY DEF MoveStores
<1>2. /\ TypeInv /\ DiskInv /\ Working /\ offset = Len(binlog) /\ Dead(binlog) /\ ~WriteFails
      /\ map \in [Keys -> MaybeEntry] /\ mayRead \in [Keys -> SUBSET (Values \cup {None})]
      /\ stale \subseteq Keys
  BY <1>1, StateIs, NeverFails
     DEF KeptInv, PlacesInv, Working, TypeInv, TypeOK, DatabaseTypeOK
<1>3. /\ WriteRecord(StoreRecord(k, e)) /\ map' = [map EXCEPT ![k] = e]
      /\ mayRead' = [mayRead EXCEPT ![k] = {Content(map')[k]}]
  BY <1>2 DEF MoveStores
<1>4. k \in Keys /\ e \in Entry /\ k \notin stale
  BY <1>1, <1>2 DEF KeptInv, HandlerInv, TypeInv, TypeOK, DatabaseTypeOK, StepInv
<1> HIDE DEF k, e
<1>5. e # None
  BY <1>4, SentinelAssumption
<1>6. \A j \in Keys : /\ map'[j] = IF j = k THEN e ELSE map[j]
                      /\ Replay(binlog')[j] = IF j = k THEN e ELSE Replay(binlog)[j]
                      /\ mayRead'[j] = IF j = k THEN {Content(map')[k]} ELSE mayRead[j]
  BY <1>2, <1>3, <1>4, StoreAppends
<1>7. Content(map')[k] = Found(map'[k], files)
  BY <1>4 DEF Content, Found
<1>8. Dead(binlog)'
  BY <1>1, <1>2, <1>5, <1>6 DEF Dead
<1>9. \A j \in Keys : Found(map'[j], files') \in mayRead'[j]
  BY <1>1, <1>6, <1>7 DEF KeptInv, ToldInv
<1>10. \A j \in stale' : None \in mayRead'[j]
  BY <1>1, <1>2, <1>4, <1>6 DEF KeptInv, ToldInv
<1>11. Working' /\ binlogOpen' /\ HandlerInv'
  BY <1>1, <1>3 DEF Working, HandlerInv, WriteRecord
<1> QED BY <1>8, <1>9, <1>10, <1>11, GoesOn DEF Goes

LEMMA DatabaseTells ==
  ASSUME Calm, KeptInv, TypeInv', DatabaseStep
  PROVE  DeadInv' /\ HandlerInv' /\ ToldInv'
<1> DEFINE Kept == DeadInv' /\ HandlerInv' /\ ToldInv'
<1>0. /\ TypeInv /\ DiskInv /\ MapInv /\ CompInv /\ DeadInv /\ HandlerInv /\ ToldInv
      /\ stale \subseteq Keys /\ mayRead \in [Keys -> SUBSET (Values \cup {None})]
      /\ \A k \in Keys : Content(map)[k] = Found(map[k], files)
  BY DEF KeptInv, PlacesInv, TypeInv, TypeOK, DatabaseTypeOK, Content, Found
<1> HIDE DEF Kept
<1> USE DEF Idle, Working
<1>1. ASSUME NEW k \in Keys, NEW v \in Values, PutRecord(k, v) PROVE Kept
  BY <1>1, PutRecordTells DEF Kept
<1>2. ASSUME NEW k \in Keys, NEW v \in Values, PutSame(k, v) PROVE Kept
  <2>1. /\ step = "idle" /\ Content(map)[k] = v /\ stale' = stale \ {k}
        /\ mayRead' = [mayRead EXCEPT ![k] = {v}]
        /\ UNCHANGED <<step, binlogOpen, binlog, map, files>>
    BY <1>2 DEF PutSame, StillWanted, diskVars
  <2>2. \A j \in Keys : mayRead'[j] = IF j = k THEN {Found(map[k], files)} ELSE mayRead[j]
    BY <1>0, <2>1
  <2>3. HandlerInv'
    BY <2>1 DEF HandlerInv
  <2>4. \A j \in stale' : None \in mayRead'[j]
    BY <1>0, <2>1, <2>2 DEF ToldInv
  <2> QED BY <2>1, <2>2, <2>3, <2>4, TellsTheSame DEF Kept
<1>3. ASSUME NEW k \in Keys, NEW v \in Values, PutNotWritten(k, v) PROVE Kept
  BY <1>3, NeverFails DEF PutNotWritten
<1>4. CASE PutData
  BY <1>4, PutDataTells DEF Kept
<1>5. CASE PutDataFails
  <2>1. /\ step = "putting" /\ step' = "idle" /\ RemoveEntry(job.key) /\ stale' = stale
        /\ mayRead' = [mayRead EXCEPT ![job.key] = {None}]
    BY <1>5 DEF PutDataFails
  <2>2. job.key \in Keys /\ map[job.key] # None
    BY <1>0, <2>1, SentinelAssumption
       DEF HandlerInv, TypeInv, TypeOK, DatabaseTypeOK, StepInv
  <2>3. None \in mayRead'[job.key] /\ \A j \in Keys \ {job.key} : mayRead'[j] = mayRead[j]
    BY <1>0, <2>1, <2>2
  <2> QED BY <2>1, <2>2, <2>3, RemovalTells DEF Kept
<1>6. ASSUME NEW k \in Keys, Get(k) PROVE Kept
  <2>1. CASE UNCHANGED <<dbVars, diskVars>>
    BY <1>0, <1>6, <2>1, TellsTheSame DEF Get, dbVars, diskVars, Kept, HandlerInv, ToldInv
  <2>2. CASE RemoveEntry(k) /\ Content(map)[k] = None /\ UNCHANGED <<step, job, stale, comp, ready>>
    <3>1. step = "idle" /\ step' = "idle" /\ map[k] # None /\ mayRead' = mayRead
      BY <1>6, <2>2 DEF Get
    <3>2. None \in mayRead[k]
      BY <1>0, <2>2, <3>1 DEF ToldInv
    <3> QED BY <2>2, <3>1, <3>2, RemovalTells DEF Kept
  <2> QED BY <1>6, <2>1, <2>2 DEF Get
<1>7. ASSUME NEW k \in Keys, Remove(k) PROVE Kept
  <2>1. /\ step = "idle" /\ step' = "idle" /\ RemoveEntry(k) /\ stale' = stale /\ map[k] # None
        /\ mayRead' = [mayRead EXCEPT ![k] = {None}]
    BY <1>7 DEF Remove
  <2>2. None \in mayRead'[k] /\ \A j \in Keys \ {k} : mayRead'[j] = mayRead[j]
    BY <1>0, <2>1
  <2> QED BY <2>1, <2>2, RemovalTells DEF Kept
<1>8. ASSUME NEW from \in Keys, NEW to \in Keys, MoveRemoves(from, to) PROVE Kept
  BY <1>8, MoveRemovesTells DEF Kept
<1>9. CASE MoveStores
  BY <1>9, MoveStoresTells DEF Kept
<1>10. ASSUME NEW ks \in SUBSET Keys, StartStaleClear(ks) PROVE Kept
  <2>1. /\ step = "idle" /\ step' \in {"clearing", "idle"} /\ stale' = stale \cup ks
        /\ mayRead' = [k \in Keys |-> mayRead[k] \cup IF k \in ks THEN {None} ELSE {}]
        /\ UNCHANGED <<binlogOpen, binlog, map, files>>
    BY <1>10 DEF StartStaleClear, diskVars
  <2>2. \A k \in Keys : mayRead[k] \subseteq mayRead'[k]
    BY <1>0, <2>1
  <2>3. \A k \in stale' : None \in mayRead'[k]
    BY <1>0, <2>1 DEF ToldInv
  <2>4. HandlerInv'
    BY <2>1 DEF HandlerInv
  <2> QED BY <2>1, <2>2, <2>3, <2>4, TellsTheSame DEF Kept
<1>11. CASE ClearStaleChunk
  <2>1. PICK k \in stale :
          /\ stale' = stale \ {k}
          /\ \/ map[k] # None /\ RemoveEntry(k) /\ mayRead' = [mayRead EXCEPT ![k] = @ \cap {None}]
             \/ UNCHANGED <<map, removing, binlog, offset, binlogOpen, files, mayRead>>
    BY <1>11 DEF ClearStaleChunk
  <2>2. step \in {"clearing", "idle"} /\ step' = "idle" /\ k \in Keys
    BY <1>0, <1>11 DEF ClearStaleChunk
  <2>3. CASE map[k] # None /\ RemoveEntry(k) /\ mayRead' = [mayRead EXCEPT ![k] = @ \cap {None}]
    <3>1. None \in mayRead'[k] /\ \A j \in Keys \ {k} : mayRead'[j] = mayRead[j]
      BY <1>0, <2>2, <2>3 DEF ToldInv
    <3> QED BY <2>1, <2>2, <2>3, <3>1, RemovalTells DEF Kept
  <2>4. CASE UNCHANGED <<map, removing, binlog, offset, binlogOpen, files, mayRead>>
    BY <1>0, <2>1, <2>2, <2>4, TellsTheSame DEF Kept, HandlerInv, ToldInv
  <2> QED BY <2>1, <2>3, <2>4
<1>12. CASE WriteBundles
  <2>1. /\ WriteMultiRemove(removing) /\ step = "idle" /\ step' = "idle"
        /\ UNCHANGED <<map, stale, files, mayRead>>
    BY <1>12 DEF WriteBundles
  <2>2. /\ WriteRecord(MultiRemoveRecord(removing)) /\ binlogOpen' /\ offset = Len(binlog)
        /\ Dead(binlog) /\ removing \in SUBSET Keys
    <3>1. offset = Len(binlog) /\ Dead(binlog) /\ ~WriteFails /\ removing \in SUBSET Keys
      BY <1>0, <2>1, StateIs, NeverFails
    <3>2. WriteRecord(MultiRemoveRecord(removing))
      BY <2>1, <3>1 DEF WriteMultiRemove
    <3> QED BY <3>1, <3>2 DEF WriteRecord
  <2>3. \A k \in Keys : Replay(binlog')[k] = IF k \in removing THEN None ELSE Replay(binlog)[k]
    BY <1>0, <2>2, RemoveAppends
  <2>4. Dead(binlog)'
    BY <2>1, <2>2, <2>3 DEF Dead
  <2> QED BY <1>0, <2>1, <2>2, <2>4, GoesOn DEF Goes, HandlerInv, ToldInv, Kept
<1>13. CASE CompactorFail \/ DatabaseAnswers
  BY <1>0, <1>13, TellsTheSame
     DEF CompactorFail, DatabaseAnswers, dbVars, diskVars, HandlerInv, ToldInv, Kept
<1>14. CASE CompactorDone
  <2>1. /\ comp.at = "done" /\ step = "idle" /\ binlogOpen /\ Dead(binlog)
        /\ UNCHANGED <<job, binlogOpen, offset, map, removing, stale, binlog, files, mayRead>>
        /\ \/ ready' = Compacted /\ step' = "replacing"
           \/ step' = step
    BY <1>14, NeverFails DEF CompactorDone
  <2>2. CASE ready' = Compacted /\ step' = "replacing"
    <3>1. \A k \in Keys : \/ Replay(Compacted)[k] = Replay(binlog)[k]
                          \/ Replay(Compacted)[k] = None
      BY <1>0, <2>1 DEF CompInv, CopyInv
    <3>2. Dead(ready)'
      BY <2>1, <2>2, <3>1 DEF Dead
    <3> QED BY <1>0, <2>1, <2>2, <3>2 DEF DeadInv, HandlerInv, ToldInv, Kept
  <2>3. CASE step' = step
    BY <1>0, <2>1, <2>3, TellsTheSame DEF HandlerInv, ToldInv, Kept
  <2> QED BY <2>1, <2>2, <2>3
<1>15. CASE RemoveOldBinlog
  <2>1. /\ step = "replacing" /\ step' = "renaming"
        /\ UNCHANGED <<job, map, removing, stale, comp, ready, files, mayRead>>
    BY <1>15 DEF RemoveOldBinlog
  <2>2. Dead(ready)'
    BY <1>0, <2>1 DEF DeadInv, Dead
  <2> QED BY <1>0, <2>1, <2>2 DEF DeadInv, HandlerInv, ToldInv, Kept
<1>16. CASE RenameReady
  <2>1. /\ step = "renaming" /\ step' = "idle" /\ binlogOpen' /\ binlog' = ready
        /\ UNCHANGED <<job, map, removing, stale, comp, files, mayRead>>
    BY <1>16 DEF RenameReady
  <2>2. Dead(binlog)'
    BY <1>0, <2>1 DEF DeadInv, Dead
  <2> QED BY <1>0, <2>1, <2>2 DEF DeadInv, HandlerInv, ToldInv, Kept
<1>17. CASE RenameReadyFails
  BY <1>17 DEF RenameReadyFails, Calm
<1> QED
  BY <1>1, <1>2, <1>3, <1>4, <1>5, <1>6, <1>7, <1>8, <1>9, <1>10, <1>11, <1>12, <1>13,
     <1>14, <1>15, <1>16, <1>17 DEF DatabaseStep, Kept

LEMMA ProcessTells ==
  ASSUME Calm, KeptInv, ProcessStep
  PROVE  DeadInv' /\ HandlerInv' /\ ToldInv'
<1> DEFINE Kept == DeadInv' /\ HandlerInv' /\ ToldInv'
<1>0. /\ TypeInv /\ DiskInv /\ MapInv /\ DeadInv /\ HandlerInv /\ ToldInv
  BY DEF KeptInv, PlacesInv
<1>1. ASSUME step' = "closed", stale' = {}, mayRead' = mayRead,
             \A k \in Keys : Found(Replay(OnDisk')[k], files') \in mayRead[k]
      PROVE  Kept
  BY <1>1 DEF DeadInv, HandlerInv, ToldInv, Working
<1> HIDE DEF Kept
<1>2. CASE Close
  <2>1. /\ step = "idle" /\ step' = "closed" /\ stale' = {} /\ UNCHANGED <<ready, files, mayRead>>
    BY <1>2 DEF Close, Idle, Forget
  <2>2. ready = None /\ binlogOpen /\ OnDisk = binlog /\ OnDisk' = binlog'
    BY <1>0, <2>1 DEF DiskInv, ToldInv, OnDisk
  <2>3. \A k \in Keys : Replay(binlog')[k] = IF k \in removing THEN None ELSE Replay(binlog)[k]
    BY <1>2, <2>2, CloseIs DEF KeptInv
  <2>4. ASSUME NEW k \in Keys PROVE Found(Replay(OnDisk')[k], files') \in mayRead[k]
    <3>1. Found(map[k], files) \in mayRead[k]
      BY <1>0, <2>1 DEF ToldInv
    <3>2. Found(Replay(binlog)[k], files) = Found(map[k], files)
      BY <2>1, <2>2, NextFindsTheSame
    <3>3. k \in removing => map[k] = None
      BY <1>0 DEF MapInv
    <3> QED BY <2>1, <2>2, <2>3, <3>1, <3>2, <3>3 DEF Found
  <2> QED BY <1>1, <2>1, <2>4 DEF Kept
<1>3. CASE Crash
  <2>1. /\ step # "closed" /\ step' = "closed" /\ stale' = {} /\ UNCHANGED <<binlog, ready, files, mayRead>>
    BY <1>3 DEF Crash, Forget, diskVars
  <2>2. OnDisk' = OnDisk
    BY <2>1 DEF OnDisk
  <2>3. ASSUME NEW k \in Keys PROVE Found(Replay(OnDisk')[k], files') \in mayRead[k]
    <3>1. Found(map[k], files) \in mayRead[k]
      BY <1>0, <2>1 DEF ToldInv
    <3>2. Found(Replay(OnDisk)[k], files) = Found(map[k], files)
      BY <2>1, NextFindsTheSame
    <3> QED BY <2>1, <2>2, <3>1, <3>2
  <2> QED BY <1>1, <2>1, <2>3 DEF Kept
<1>4. CASE CrashInWrite
  BY <1>4 DEF CrashInWrite, Calm
<1>5. CASE OpenDiscards \/ OpenRenames
  <2>1. /\ step = "closed" /\ UNCHANGED <<dbVars, files, mayRead>> /\ OnDisk' = OnDisk
    BY <1>5 DEF OpenDiscards, OpenRenames, OnDisk
  <2> QED BY <1>0, <2>1 DEF DeadInv, HandlerInv, ToldInv, Working, dbVars, Kept
<1>6. CASE Open
  <2>1. /\ step = "closed" /\ ready = None /\ step' = "idle" /\ binlogOpen'
        /\ map' = Replay(binlog) /\ UNCHANGED <<job, removing, stale, diskVars, mayRead>>
    BY <1>6 DEF Open
  <2>2. OnDisk = binlog /\ binlog' = binlog /\ files' = files
    BY <2>1 DEF OnDisk, diskVars
  <2>3. Dead(binlog)'
    BY <2>1, <2>2 DEF Dead
  <2> QED BY <1>0, <2>1, <2>2, <2>3 DEF DeadInv, HandlerInv, ToldInv, Kept
<1> QED BY <1>2, <1>3, <1>4, <1>5, <1>6 DEF ProcessStep, Kept

LEMMA KeptInit == Init => KeptInv
<1> SUFFICES ASSUME Init PROVE KeptInv
  OBVIOUS
<1>1. /\ step = "closed" /\ stale = {} /\ OnDisk = <<>>
      /\ \A k \in Keys : None \in mayRead[k]
  BY DEF Init, OnDisk
<1>2. ToldInv
  BY <1>1, EmptyLog DEF ToldInv, Found
<1> QED BY <1>1, <1>2, PlacesInit DEF KeptInv, DeadInv, HandlerInv, Working

LEMMA KeptStep ==
  ASSUME Calm
  PROVE  KeptInv /\ [Next]_vars => KeptInv'
<1> SUFFICES ASSUME KeptInv, [Next]_vars PROVE KeptInv'
  OBVIOUS
<1>1. PlacesInv'
  BY PlacesStep DEF Calm, KeptInv
<1>2. CASE DatabaseStep
  BY <1>1, <1>2, DatabaseTells DEF KeptInv, PlacesInv
<1>3. ASSUME UNCHANGED <<dbVars, diskVars, mayRead>> PROVE KeptInv'
  <2>1. OnDisk' = OnDisk
    BY <1>3 DEF OnDisk, diskVars
  <2> QED BY <1>1, <1>3, <2>1
          DEF KeptInv, DeadInv, HandlerInv, ToldInv, Working, Dead, dbVars, diskVars
<1>4. CASE CompactorStep
  BY <1>3, <1>4 DEF CompactorStep, CompactorReads, CompactorFinishes, CompactorCatchesUp,
      CompactorGivesUp
<1>5. CASE ProcessStep
  BY <1>1, <1>5, ProcessTells DEF KeptInv
<1>6. CASE UNCHANGED vars
  BY <1>3, <1>6 DEF vars
<1> QED BY <1>2, <1>4, <1>5, <1>6 DEF Next

LEMMA KeptHolds ==
  ASSUME Calm
  PROVE  Spec => []KeptInv
<1>1. KeptInv /\ [Next]_vars => KeptInv'
  BY KeptStep
<1> QED BY <1>1, KeptInit, PTL DEF Spec

\* What get returns is the value of the last put that succeeded, or nothing where
\* something removed, cleared or moved it or a put failed, through any compactions,
\* failures of data files and of compactions, and deaths of the process between two
\* writes (get, put, remove, moveIfEmpty, clearStaleChunk).
THEOREM CallersReadWhatWasPut ==
  ASSUME Calm
  PROVE  Spec => []ReadsWhatWasPut
<1>1. Spec => []KeptInv
  BY KeptHolds
<1>2. KeptInv => ReadsWhatWasPut
  BY DEF KeptInv, ToldInv, ReadsWhatWasPut, Content, Found
<1> QED BY <1>1, <1>2, PTL

\* Whenever the process dies, between two writes, the next one reads from the binlog,
\* or from the compacted one that was about to take its place, what callers were told
\* (openBinlog, compactorDone, writeBundles).
THEOREM CrashesLoseNothing ==
  ASSUME Calm
  PROVE  Spec => []KeepsWhatWasPut
<1>1. Spec => []KeptInv
  BY KeptHolds
<1>2. KeptInv => KeepsWhatWasPut
  <2> SUFFICES ASSUME KeptInv, NEW k \in Keys
               PROVE  Found(Replay(OnDisk)[k], files) \in mayRead[k]
    BY DEF KeepsWhatWasPut, Content, Found
  <2>1. CASE step = "closed"
    BY <2>1 DEF KeptInv, ToldInv
  <2>2. CASE step # "closed"
    <3>1. Found(map[k], files) \in mayRead[k]
      BY <2>2 DEF KeptInv, ToldInv
    <3> QED BY <2>2, <3>1, NextFindsTheSame
  <2> QED BY <2>1, <2>2
<1> QED BY <1>1, <1>2, PTL

\* What the compactor has written, with the rest of the binlog after it, reads as the
\* binlog does while the database goes on writing (processValues, finish, CatchUp).
THEOREM CompactionsAreFaithful ==
  ASSUME Calm
  PROVE  Spec => []CompactionFaithful
<1>1. Spec => []KeptInv
  BY KeptHolds
<1>2. KeptInv => CompactionFaithful
  <2> SUFFICES ASSUME KeptInv, comp.at \in {"catchingUp", "done"}
               PROVE  Content(Replay(Compacted)) = Content(Replay(binlog))
    BY DEF CompactionFaithful
  <2>1. Working
    BY DEF Working, KeptInv, PlacesInv, TypeInv, StepInv, NoCompactor
  <2>2. binlogOpen /\ Dead(binlog)
    BY <2>1 DEF KeptInv, DeadInv, ToldInv, Working
  <2>3. Replay(binlog) \in [Keys -> MaybeEntry]
    BY StateIs DEF KeptInv, PlacesInv
  <2>4. ASSUME NEW k \in Keys
        PROVE  Found(Replay(Compacted)[k], files) = Found(Replay(binlog)[k], files)
    <3>1. \/ Replay(Compacted)[k] = Replay(binlog)[k]
          \/ Replay(Compacted)[k] = None /\ map[k] = None
      BY <2>2 DEF KeptInv, PlacesInv, CompInv, CopyInv
    <3>2. map[k] = None => Found(Replay(binlog)[k], files) = None
      BY <2>2, <2>3, SentinelAssumption DEF Dead, Found, MaybeEntry, Entry
    <3> QED BY <3>1, <3>2 DEF Found
  <2> QED BY <2>4 DEF Content, Found
<1> QED BY <1>1, <1>2, PTL
=============================================================================
