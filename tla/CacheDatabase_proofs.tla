------------------------ MODULE CacheDatabase_proofs ------------------------
(***************************************************************************)
(* Theorems about the cache on disk, for any keys, values and file names,  *)
(* any size of a bundle, and any of the mishaps.                           *)
(***************************************************************************)
EXTENDS CacheDatabase, TLAPS, FiniteSetTheorems, SequenceTheorems, WellFoundedInduction

-----------------------------------------------------------------------------
(* The binlog: what the operators on its blocks return. *)

\* A nonempty set of the numbers up to n has a greatest element.
LEMMA Greatest ==
  ASSUME NEW n \in Nat, NEW S \in SUBSET (1..n), S # {}
  PROVE  \E i \in S : \A j \in S : j <= i
<1> DEFINE T == {m \in Nat : \E i \in S : m = n - i}
<1>1. T \subseteq Nat /\ T # {}
  <2>1. PICK i \in S : TRUE
    OBVIOUS
  <2>2. n - i \in T
    OBVIOUS
  <2> QED BY <2>2
<1>2. \E x \in T : \A y \in T : ~ (<<y, x>> \in OpToRel(<, Nat))
  <2> HIDE DEF T
  <2> QED BY <1>1, NatLessThanWellFounded, WFMin
<1>3. PICK x \in T : \A y \in T : ~ (<<y, x>> \in OpToRel(<, Nat))
  BY <1>2
<1>4. \A y \in T : x <= y
  <2> TAKE y \in T
  <2>1. x \in Nat /\ y \in Nat
    BY <1>1
  <2>2. ~(y < x)
    BY <1>3, <2>1 DEF OpToRel
  <2> QED BY <2>1, <2>2
<1>5. PICK i \in S : x = n - i
  BY <1>3
<1>6. ASSUME NEW j \in S PROVE j <= i
  <2>1. n - j \in T
    OBVIOUS
  <2>2. x <= n - j
    BY <1>4, <2>1
  <2> QED BY <1>5, <2>2
<1> QED BY <1>5, <1>6

\* The places of whole records: finitely many, each with its two blocks in the log.
LEMMA ReadableFacts ==
  ASSUME NEW log \in Seq(Block)
  PROVE  /\ Readable(log) \subseteq 1..Len(log)
         /\ \A i \in Readable(log) : 2 * i <= Len(log)
         /\ WholeRecords(log) \in Nat
         /\ 2 * WholeRecords(log) <= Len(log)
<1>1. Len(log) \in Nat
  OBVIOUS
<1>2. PICK h \in Nat : 2 * h <= Len(log) /\ Len(log) <= 2 * h + 1
  <2>1. \A n \in Nat : n \div 2 \in Nat /\ 2 * (n \div 2) <= n /\ n <= 2 * (n \div 2) + 1
    OBVIOUS
  <2> QED BY <1>1, <2>1
<1>3. Readable(log) \subseteq 1..Len(log)
  BY DEF Readable
<1>4. \A i \in Readable(log) : 2 * i <= Len(log)
  BY <1>1 DEF Readable, IsRecordAt
<1>5. Readable(log) \subseteq 1..h
  BY <1>1, <1>2, <1>3, <1>4, SMT
<1>6. IsFiniteSet(1..h) /\ Cardinality(1..h) = h
  BY FS_Interval
<1>7. WholeRecords(log) \in Nat /\ WholeRecords(log) <= h
  BY <1>5, <1>6, FS_Subset, FS_CardinalityType DEF WholeRecords
<1> QED BY <1>1, <1>2, <1>3, <1>4, <1>7

\* The record of two blocks in the log is a record.
LEMMA RecordAtType ==
  ASSUME NEW log \in Seq(Block), NEW i \in 1..Len(log), 2 * i <= Len(log)
  PROVE  RecordAt(log, i) \in Record
<1>1. 2 * i \in 1..Len(log)
  OBVIOUS
<1>2. log[2 * i] \in Block
  BY <1>1, ElementOfSeq
<1> QED BY <1>2 DEF RecordAt, Block

\* Replaying any binlog makes a map of entries.
LEMMA ReplayType ==
  ASSUME NEW log \in Seq(Block)
  PROVE  Replay(log) \in [Keys -> MaybeEntry]
<1> DEFINE About(k) == {i \in Readable(log) : RecordAt(log, i)[k] # Same}
           At(k) == IF About(k) = {} THEN None
                    ELSE RecordAt(log, CHOOSE i \in About(k) : \A j \in About(k) : j <= i)[k]
<1>1. ASSUME NEW k \in Keys PROVE At(k) \in MaybeEntry
  <2>1. CASE About(k) = {}
    BY <2>1 DEF MaybeEntry
  <2>2. CASE About(k) # {}
    <3>1. Len(log) \in Nat /\ About(k) \in SUBSET (1..Len(log))
      BY ReadableFacts
    <3>2. PICK i \in About(k) : i = CHOOSE m \in About(k) : \A j \in About(k) : j <= m
      BY <2>2, <3>1, Greatest
    <3>3. RecordAt(log, i) \in Record
      BY <3>1, <3>2, ReadableFacts, RecordAtType
    <3>4. RecordAt(log, i)[k] \in MaybeEntry \cup {Same} /\ RecordAt(log, i)[k] # Same
      BY <3>3 DEF Record
    <3> QED BY <2>2, <3>2, <3>4
  <2> QED BY <2>1, <2>2
<1> HIDE DEF At
<1>2. [k \in Keys |-> At(k)] \in [Keys -> MaybeEntry]
  BY <1>1
<1> QED BY <1>2 DEF At, Replay

\* Writing a record where the log is long enough keeps it a log and ends in it.
LEMMA WrittenType ==
  ASSUME NEW log \in Seq(Block), NEW at \in Nat, at <= Len(log), NEW r \in Record
  PROVE  /\ Written(log, at, r) \in Seq(Block)
         /\ Len(Written(log, at, r)) \in Nat
         /\ Len(Written(log, at, r)) >= Len(log)
         /\ Len(Written(log, at, r)) >= at + 2
<1> DEFINE n == IF Len(log) > at + 2 THEN Len(log) ELSE at + 2
           e(i) == IF i \in {at + 1, at + 2} THEN <<r, i - at>> ELSE log[i]
<1>1. n \in Nat /\ n >= Len(log) /\ n >= at + 2
  OBVIOUS
<1>2. ASSUME NEW i \in 1..n PROVE e(i) \in Block
  <2>1. CASE i \in {at + 1, at + 2}
    BY <2>1 DEF Block
  <2>2. CASE i \notin {at + 1, at + 2}
    <3>1. i \in 1..Len(log)
      BY <2>2
    <3> QED BY <2>2, <3>1, ElementOfSeq
  <2> QED BY <2>1, <2>2
<1> DEFINE w == [i \in 1..n |-> e(i)]
<1>3. w = Written(log, at, r)
  BY DEF Written
<1> HIDE DEF n, e
<1>4. w \in [1..n -> Block]
  BY <1>2
<1> HIDE DEF w
<1>5. w \in Seq(Block) /\ Len(w) = n
  BY <1>1, <1>4, SeqDef
<1> QED BY <1>1, <1>3, <1>5

-----------------------------------------------------------------------------
(* The bundle of removed keys. *)

BundleInv == IsFiniteSet(removing) /\ BundleFits

\* A handler that sets or removes an entry, or writes the bundle, keeps room in it.
LEMMA BundleWritten ==
  ASSUME NEW ks, WriteMultiRemove(ks)
  PROVE  BundleInv'
BY BundleAssumption, FS_EmptySet DEF WriteMultiRemove, BundleInv, BundleFits

LEMMA BundleKept ==
  ASSUME BundleInv, NEW k, removing' = removing \ {k}
  PROVE  BundleInv'
<1>1. Cardinality(removing) \in Nat /\ Cardinality(removing \ {k}) \in Nat
  BY FS_CardinalityType, FS_RemoveElement DEF BundleInv
<1>2. IsFiniteSet(removing \ {k}) /\ Cardinality(removing \ {k}) <= Cardinality(removing)
  BY FS_Subset DEF BundleInv
<1> QED BY <1>1, <1>2, BundleAssumption DEF BundleInv, BundleFits

LEMMA BundleGrows ==
  ASSUME BundleInv, NEW k, RemoveEntry(k)
  PROVE  BundleInv'
<1> DEFINE more == removing \cup {k}
<1>1. IsFiniteSet(more) /\ Cardinality(more) \in Nat /\ Cardinality(removing) \in Nat
  BY FS_AddElement, FS_CardinalityType DEF BundleInv
<1>2. Cardinality(more) <= Cardinality(removing) + 1
  BY <1>1, FS_AddElement DEF BundleInv
<1>3. CASE Cardinality(more) = MaxBundledRecords
  BY <1>3, BundleWritten DEF RemoveEntry
<1>4. CASE Cardinality(more) # MaxBundledRecords
  <2>1. removing' = more
    BY <1>4 DEF RemoveEntry
  <2>2. Cardinality(more) < MaxBundledRecords
    BY <1>1, <1>2, <1>4, BundleAssumption DEF BundleInv, BundleFits
  <2> QED BY <1>1, <2>1, <2>2 DEF BundleInv, BundleFits
<1> QED BY <1>3, <1>4

\* Every step keeps room for one more key in the bundle.
LEMMA BundleStep == BundleInv /\ [Next]_vars => BundleInv'
<1> SUFFICES ASSUME BundleInv, [Next]_vars PROVE BundleInv'
  OBVIOUS
<1>1. ASSUME UNCHANGED removing PROVE BundleInv'
  BY <1>1 DEF BundleInv, BundleFits
<1>2. ASSUME removing' = {} PROVE BundleInv'
  BY <1>2, BundleAssumption, FS_EmptySet DEF BundleInv, BundleFits
<1>3. CASE DatabaseStep
  <2>1. ASSUME NEW k \in Keys, NEW v \in Values,
               PutRecord(k, v) \/ PutSame(k, v) \/ PutNotWritten(k, v)
        PROVE  BundleInv'
    BY <2>1, BundleKept DEF PutRecord, PutSame, PutNotWritten, StillWanted
  <2>2. CASE PutDataFails
    BY <2>2, BundleGrows DEF PutDataFails
  <2>3. ASSUME NEW k \in Keys, Get(k) \/ Remove(k) PROVE BundleInv'
    BY <2>3, <1>1, BundleGrows DEF Get, Remove, dbVars
  <2>4. ASSUME NEW from \in Keys, NEW to \in Keys, MoveRemoves(from, to) PROVE BundleInv'
    BY <2>4, BundleWritten DEF MoveRemoves
  <2>5. CASE ClearStaleChunk
    BY <2>5, <1>1, BundleGrows DEF ClearStaleChunk
  <2>6. CASE WriteBundles
    BY <2>6, BundleWritten DEF WriteBundles
  <2>7. CASE \/ PutData \/ MoveStores \/ \E ks \in SUBSET Keys : StartStaleClear(ks)
             \/ DatabaseAnswers \/ CompactorFail \/ CompactorDone
             \/ RemoveOldBinlog \/ RenameReady \/ RenameReadyFails
    BY <2>7, <1>1 DEF PutData, MoveStores, StartStaleClear, DatabaseAnswers,
        CompactorFail, CompactorDone, RemoveOldBinlog, RenameReady, RenameReadyFails, dbVars
  <2> QED BY <1>3, <2>1, <2>2, <2>3, <2>4, <2>5, <2>6, <2>7 DEF DatabaseStep
<1>4. CASE CompactorStep
  BY <1>1, <1>4 DEF CompactorStep, CompactorReads, CompactorFinishes, CompactorCatchesUp,
      CompactorGivesUp, dbVars
<1>5. CASE ProcessStep
  BY <1>1, <1>2, <1>5 DEF ProcessStep, Close, Crash, CrashInWrite, OpenDiscards,
      OpenRenames, Open, Forget, dbVars
<1>6. CASE UNCHANGED vars
  BY <1>1, <1>6 DEF vars, dbVars
<1> QED BY <1>3, <1>4, <1>5, <1>6 DEF Next

\* The assertion of writeMultiRemove is met by every way to it: whatever is put,
\* removed, moved, cleared or compacted, one more key fits into the bundle.
THEOREM BundlesFit == Spec => []BundleFits
<1>1. Init => BundleInv
  BY BundleAssumption, FS_EmptySet DEF Init, BundleInv, BundleFits
<1>2. BundleInv => BundleFits
  BY DEF BundleInv
<1> QED BY <1>1, <1>2, BundleStep, PTL DEF Spec

-----------------------------------------------------------------------------
(* Types. *)

\* Inside a handler there is what the rest of it builds on; while no binlog is open
\* nothing compacts it; and nobody reads or writes beyond the end of the binlog.
StepInv ==
  /\ step \in {"putting", "moving"} => job # None
  /\ step \in {"replacing", "renaming"} => ready # None
  /\ step \in {"closed", "replacing", "renaming"} => comp = NoCompactor
  /\ step = "closed" => offset = 0
  /\ offset <= Len(binlog) /\ comp.till <= Len(binlog) /\ comp.from <= Len(binlog)

TypeInv == TypeOK /\ StepInv

LEMMA NoCompactorType ==
  NoCompactor \in CompactorState /\ NoCompactor.till = 0 /\ NoCompactor.from = 0
<1>1. NoEntries \in [Keys -> MaybeEntry] /\ <<>> \in Seq(Block)
  BY DEF NoEntries, MaybeEntry
<1> QED BY <1>1 DEF NoCompactor, CompactorState

\* checkCompactor starts a compactor that reads up to the end.
LEMMA CheckCompactorType ==
  ASSUME CheckCompactor, comp \in CompactorState, binlog' \in Seq(Block),
         comp.till <= Len(binlog'), comp.from <= Len(binlog')
  PROVE  /\ comp' \in CompactorState
         /\ comp'.till <= Len(binlog') /\ comp'.from <= Len(binlog')
<1>1. CASE UNCHANGED comp
  BY <1>1
<1>2. ASSUME NEW n, n = Len(binlog'), comp' = [NoCompactor EXCEPT !.at = "reading", !.till = n]
      PROVE  /\ comp' \in CompactorState
             /\ comp'.till <= Len(binlog') /\ comp'.from <= Len(binlog')
  <2>1. n \in Nat
    BY <1>2
  <2>2. comp' \in CompactorState /\ comp'.till = n /\ comp'.from = 0
    BY <1>2, <2>1, NoCompactorType DEF CompactorState
  <2> QED BY <1>2, <2>1, <2>2
<1> QED BY <1>1, <1>2 DEF CheckCompactor

\* The writer and its file.
LogOK == binlog \in Seq(Block) /\ offset \in Nat /\ offset <= Len(binlog) /\ binlogOpen \in BOOLEAN

LEMMA WriteRecordType ==
  ASSUME LogOK, NEW r \in Record, WriteRecord(r) \/ WriteFails
  PROVE  LogOK' /\ Len(binlog') >= Len(binlog)
<1>1. CASE WriteRecord(r)
  BY <1>1, WrittenType DEF LogOK, WriteRecord
<1>2. CASE WriteFails
  <2>1. binlog' = binlog /\ offset' = offset /\ binlogOpen' = FALSE
    BY <1>2 DEF WriteFails
  <2>2. Len(binlog) \in Nat
    BY DEF LogOK
  <2>3. binlogOpen' \in BOOLEAN
    BY <2>1
  <2> QED BY <2>1, <2>2, <2>3 DEF LogOK
<1> QED BY <1>1, <1>2

LEMMA RecordTypes ==
  /\ \A k \in Keys, e \in Entry : StoreRecord(k, e) \in Record
  /\ \A m \in [Keys -> MaybeEntry] : MultiStoreRecord(m) \in Record
  /\ \A ks \in SUBSET Keys : MultiRemoveRecord(ks) \in Record
<1>1. ASSUME NEW k \in Keys, NEW e \in Entry PROVE StoreRecord(k, e) \in Record
  BY DEF StoreRecord, Record, MaybeEntry
<1>2. ASSUME NEW m \in [Keys -> MaybeEntry] PROVE MultiStoreRecord(m) \in Record
  BY DEF MultiStoreRecord, Record
<1>3. ASSUME NEW ks \in SUBSET Keys PROVE MultiRemoveRecord(ks) \in Record
  BY DEF MultiRemoveRecord, Record, MaybeEntry
<1> QED BY <1>1, <1>2, <1>3

LEMMA WriteMultiRemoveType ==
  ASSUME LogOK, NEW ks \in SUBSET Keys, WriteMultiRemove(ks)
  PROVE  LogOK' /\ Len(binlog') >= Len(binlog) /\ removing' \subseteq Keys
BY WriteRecordType, RecordTypes DEF WriteMultiRemove

LEMMA RemoveEntryType ==
  ASSUME LogOK, map \in [Keys -> MaybeEntry], removing \subseteq Keys,
         files \in [Places -> Values \cup {None}], NEW k \in Keys, RemoveEntry(k)
  PROVE  /\ LogOK' /\ Len(binlog') >= Len(binlog) /\ removing' \subseteq Keys
         /\ map' \in [Keys -> MaybeEntry] /\ files' \in [Places -> Values \cup {None}]
<1>1. map' \in [Keys -> MaybeEntry] /\ files' \in [Places -> Values \cup {None}]
  BY DEF RemoveEntry, MaybeEntry
<1>2. CASE WriteMultiRemove(removing \cup {k})
  BY <1>1, <1>2, WriteMultiRemoveType
<1>3. CASE removing' = removing \cup {k} /\ UNCHANGED <<binlog, offset, binlogOpen>>
  BY <1>1, <1>3 DEF LogOK
<1> QED BY <1>2, <1>3 DEF RemoveEntry

\* What is read under a key is a value or nothing.
LEMMA ContentType ==
  ASSUME NEW m \in [Keys -> MaybeEntry]
  PROVE  Content(m) \in [Keys -> Values \cup {None}]
BY DEF Content, MaybeEntry, Entry

\* The compacted binlog is a binlog.
LEMMA CompactedType ==
  ASSUME binlog \in Seq(Block), comp \in CompactorState
  PROVE  Compacted \in Seq(Block)
<1>1. comp.temp \in Seq(Block) /\ comp.from \in Nat /\ Len(binlog) \in Nat
  BY DEF CompactorState
<1>2. \A i \in comp.from + 1 .. Len(binlog) : binlog[i] \in Block
  BY <1>1, ElementOfSeq
<1>3. SubSeq(binlog, comp.from + 1, Len(binlog)) \in Seq(Block)
  BY <1>1, <1>2, SubSeqProperties
<1> QED BY <1>1, <1>3, ConcatProperties DEF Compacted

LEMMA SourceType ==
  ASSUME binlog \in Seq(Block), comp \in CompactorState, comp.till <= Len(binlog)
  PROVE  Source \in Seq(Block)
<1>1. comp.till \in Nat /\ Len(binlog) \in Nat
  BY DEF CompactorState
<1>2. \A i \in 1 .. comp.till : binlog[i] \in Block
  BY <1>1, ElementOfSeq
<1> QED BY <1>1, <1>2, SubSeqProperties DEF Source

\* Every step of the database keeps the types, and leaves a handler only where it may
\* go on.
LEMMA DatabaseTypeStep == TypeInv /\ DatabaseStep => TypeInv'
<1> SUFFICES ASSUME TypeInv, DatabaseStep PROVE TypeInv'
  OBVIOUS
<1> DEFINE MayReadOK == mayRead \in [Keys -> SUBSET (Values \cup {None})]
<1>0. /\ LogOK /\ Len(binlog) \in Nat
      /\ Content(map) \in [Keys -> Values \cup {None}]
      /\ comp \in CompactorState /\ comp.till <= Len(binlog) /\ comp.from <= Len(binlog)
      /\ comp.till \in Nat /\ comp.from \in Nat
  BY ContentType DEF TypeInv, TypeOK, DatabaseTypeOK, DiskTypeOK, StepInv, LogOK, CompactorState
<1>1. ASSUME NEW k \in Keys, NEW v \in Values, PutRecord(k, v) PROVE TypeInv'
  <2>1. PICK e \in Entry : WriteRecord(StoreRecord(k, e)) /\ map' = [map EXCEPT ![k] = e]
                           /\ job' = [key |-> k, entry |-> e]
    BY <1>1 DEF PutRecord, FreePlaces, Entry, TypeInv, TypeOK, DatabaseTypeOK, MaybeEntry
  <2>2. LogOK' /\ Len(binlog') >= Len(binlog)
    BY <1>0, <2>1, WriteRecordType, RecordTypes
  <2>3. DatabaseTypeOK'
    BY <1>1, <2>1, <2>2 DEF PutRecord, StillWanted, TypeInv, TypeOK, DatabaseTypeOK,
        MaybeEntry, LogOK
  <2>4. comp' \in CompactorState /\ DiskTypeOK' /\ MayReadOK'
    BY <1>1, <2>2 DEF PutRecord, TypeInv, TypeOK, DiskTypeOK, LogOK
  <2>5. StepInv'
    <3>1. job' # None
      BY <2>1, SentinelAssumption DEF Entry
    <3> QED BY <1>0, <1>1, <2>2, <3>1 DEF PutRecord, StepInv, LogOK
  <2> QED BY <2>3, <2>4, <2>5 DEF TypeInv, TypeOK
<1>2. CASE PutData
  <2>1. job.key \in Keys /\ job.entry \in Entry
    BY <1>2 DEF PutData, TypeInv, TypeOK, DatabaseTypeOK, StepInv
  <2>2. DatabaseTypeOK' /\ DiskTypeOK' /\ MayReadOK'
    BY <1>2, <2>1 DEF PutData, TypeInv, TypeOK, DatabaseTypeOK, DiskTypeOK, Entry
  <2>3. CheckCompactor /\ binlog' = binlog /\ offset' = offset /\ step' = "idle"
    BY <1>2 DEF PutData
  <2>4. comp' \in CompactorState /\ comp'.till <= Len(binlog') /\ comp'.from <= Len(binlog')
    BY <1>0, <2>3, CheckCompactorType DEF LogOK
  <2>5. StepInv'
    BY <1>0, <2>3, <2>4 DEF StepInv, LogOK
  <2> QED BY <2>2, <2>4, <2>5 DEF TypeInv, TypeOK
<1>3. CASE PutDataFails
  <2>1. job.key \in Keys
    BY <1>3 DEF PutDataFails, TypeInv, TypeOK, DatabaseTypeOK, StepInv
  <2>2. /\ LogOK' /\ Len(binlog') >= Len(binlog) /\ removing' \subseteq Keys
        /\ map' \in [Keys -> MaybeEntry] /\ files' \in [Places -> Values \cup {None}]
    BY <1>0, <1>3, <2>1, RemoveEntryType
      DEF PutDataFails, TypeInv, TypeOK, DatabaseTypeOK, DiskTypeOK
  <2>3. DatabaseTypeOK' /\ comp' \in CompactorState /\ DiskTypeOK' /\ MayReadOK'
    BY <1>3, <2>1, <2>2 DEF PutDataFails, TypeInv, TypeOK, DatabaseTypeOK, DiskTypeOK, LogOK
  <2>4. StepInv'
    BY <1>0, <1>3, <2>2 DEF PutDataFails, StepInv, LogOK
  <2> QED BY <2>3, <2>4 DEF TypeInv, TypeOK
<1>4. ASSUME NEW k \in Keys, NEW v \in Values, PutSame(k, v) PROVE TypeInv'
  <2>1. DatabaseTypeOK' /\ DiskTypeOK' /\ MayReadOK'
    BY <1>4 DEF PutSame, StillWanted, TypeInv, TypeOK, DatabaseTypeOK, DiskTypeOK, diskVars
  <2>2. /\ CheckCompactor /\ binlog' = binlog /\ offset' = offset
        /\ step = "idle" /\ step' = "idle"
    BY <1>4 DEF PutSame, diskVars, Idle
  <2>3. comp' \in CompactorState /\ comp'.till <= Len(binlog') /\ comp'.from <= Len(binlog')
    BY <1>0, <2>2, CheckCompactorType DEF LogOK
  <2>4. StepInv'
    BY <1>0, <2>2, <2>3 DEF StepInv, LogOK
  <2> QED BY <2>1, <2>3, <2>4 DEF TypeInv, TypeOK
<1>5. ASSUME NEW k \in Keys, NEW v \in Values, PutNotWritten(k, v) PROVE TypeInv'
  <2>1. /\ binlog' = binlog /\ offset' = offset /\ comp' = comp
        /\ step = "idle" /\ step' = "idle"
    BY <1>5 DEF PutNotWritten, WriteFails, Idle
  <2>2. binlogOpen' \in BOOLEAN
    BY <1>5 DEF PutNotWritten, WriteFails
  <2>3. DatabaseTypeOK' /\ DiskTypeOK' /\ MayReadOK'
    BY <1>5, <2>1, <2>2 DEF PutNotWritten, StillWanted, TypeInv, TypeOK, DatabaseTypeOK,
        DiskTypeOK
  <2>4. StepInv'
    BY <1>0, <2>1 DEF StepInv, LogOK
  <2> QED BY <1>0, <2>1, <2>3, <2>4 DEF TypeInv, TypeOK
<1>6. ASSUME NEW k \in Keys, Get(k) PROVE TypeInv'
  <2>1. CASE Content(map)[k] # None
    <3>1. /\ CheckCompactor /\ UNCHANGED <<dbVars, diskVars, mayRead>> /\ step = "idle"
      BY <1>6, <2>1 DEF Get, Idle
    <3>2. comp' \in CompactorState /\ comp'.till <= Len(binlog') /\ comp'.from <= Len(binlog')
      BY <1>0, <3>1, CheckCompactorType DEF LogOK, diskVars
    <3>3. StepInv'
      BY <1>0, <3>1, <3>2 DEF StepInv, LogOK, dbVars, diskVars
    <3> QED BY <3>1, <3>2, <3>3 DEF TypeInv, TypeOK, DatabaseTypeOK, DiskTypeOK, dbVars, diskVars
  <2>2. CASE Content(map)[k] = None
    <3>1. /\ RemoveEntry(k) /\ UNCHANGED <<step, job, stale, comp, ready, mayRead>>
          /\ step = "idle"
      BY <1>6, <2>2 DEF Get, Idle
    <3>2. /\ LogOK' /\ Len(binlog') >= Len(binlog) /\ removing' \subseteq Keys
          /\ map' \in [Keys -> MaybeEntry] /\ files' \in [Places -> Values \cup {None}]
      BY <1>0, <3>1, RemoveEntryType DEF TypeInv, TypeOK, DatabaseTypeOK, DiskTypeOK
    <3>3. StepInv'
      BY <1>0, <3>1, <3>2 DEF StepInv, LogOK
    <3> QED BY <3>1, <3>2, <3>3 DEF TypeInv, TypeOK, DatabaseTypeOK, DiskTypeOK, LogOK
  <2> QED BY <2>1, <2>2
<1>7. ASSUME NEW k \in Keys, Remove(k) PROVE TypeInv'
  <2>1. /\ RemoveEntry(k) /\ UNCHANGED <<step, job, stale, comp, ready>> /\ step = "idle"
    BY <1>7 DEF Remove, Idle
  <2>2. /\ LogOK' /\ Len(binlog') >= Len(binlog) /\ removing' \subseteq Keys
        /\ map' \in [Keys -> MaybeEntry] /\ files' \in [Places -> Values \cup {None}]
    BY <1>0, <2>1, RemoveEntryType DEF TypeInv, TypeOK, DatabaseTypeOK, DiskTypeOK
  <2>3. MayReadOK'
    BY <1>7 DEF Remove, TypeInv, TypeOK
  <2>4. StepInv'
    BY <1>0, <2>1, <2>2 DEF StepInv, LogOK
  <2> QED BY <2>1, <2>2, <2>3, <2>4 DEF TypeInv, TypeOK, DatabaseTypeOK, DiskTypeOK, LogOK
<1>8. ASSUME NEW from \in Keys, NEW to \in Keys, MoveRemoves(from, to) PROVE TypeInv'
  <2>1. LogOK' /\ Len(binlog') >= Len(binlog) /\ removing' \subseteq Keys
    <3>1. removing \cup {from} \in SUBSET Keys
      BY DEF TypeInv, TypeOK, DatabaseTypeOK
    <3> QED BY <1>0, <1>8, <3>1, WriteMultiRemoveType DEF MoveRemoves
  <2>2. map' \in [Keys -> MaybeEntry] /\ map[from] \in Entry
    BY <1>8 DEF MoveRemoves, TypeInv, TypeOK, DatabaseTypeOK, MaybeEntry
  <2>3. MayReadOK'
    BY <1>0, <1>8 DEF MoveRemoves, TypeInv, TypeOK
  <2>4. /\ step' \in {"moving", "idle"} /\ stale' \subseteq Keys
        /\ job' \in [key : Keys, entry : Entry] \cup {None}
        /\ step' = "moving" => job' # None
    <3>1. CASE binlogOpen'
      <4>1. job' = [key |-> to, entry |-> map[from]] /\ step' = "moving" /\ stale' = stale \ {to}
        BY <1>8, <3>1 DEF MoveRemoves
      <4>2. job' # None
        BY <2>2, <4>1, SentinelAssumption
      <4> QED BY <2>2, <4>1, <4>2 DEF TypeInv, TypeOK, DatabaseTypeOK
    <3>2. CASE ~binlogOpen'
      BY <1>8, <3>2 DEF MoveRemoves, Idle, TypeInv, TypeOK, DatabaseTypeOK
    <3> QED BY <3>1, <3>2
  <2>5. UNCHANGED <<comp, ready, files>>
    BY <1>8 DEF MoveRemoves
  <2>6. StepInv'
    BY <1>0, <2>1, <2>4, <2>5 DEF StepInv, LogOK
  <2> QED BY <2>1, <2>2, <2>3, <2>4, <2>5, <2>6
        DEF TypeInv, TypeOK, DatabaseTypeOK, DiskTypeOK, LogOK
<1>9. CASE MoveStores
  <2>1. job.key \in Keys /\ job.entry \in Entry
    BY <1>9 DEF MoveStores, TypeInv, TypeOK, DatabaseTypeOK, StepInv
  <2>2. LogOK' /\ Len(binlog') >= Len(binlog)
    BY <1>0, <1>9, <2>1, WriteRecordType, RecordTypes DEF MoveStores
  <2>3. map' \in [Keys -> MaybeEntry]
    BY <1>9, <2>1 DEF MoveStores, TypeInv, TypeOK, DatabaseTypeOK, MaybeEntry
  <2>4. /\ step' = "idle" /\ job' = None
        /\ UNCHANGED <<removing, stale, comp, ready, files>>
    BY <1>9 DEF MoveStores
  <2>5. MayReadOK'
    <3>1. Content(map')[job.key] \in Values \cup {None}
      BY <2>1, <2>3 DEF Content, MaybeEntry, Entry
    <3> QED BY <1>9, <2>1, <3>1 DEF MoveStores, TypeInv, TypeOK
  <2>6. StepInv'
    BY <1>0, <2>2, <2>4 DEF StepInv, LogOK
  <2> QED BY <2>2, <2>3, <2>4, <2>5, <2>6
        DEF TypeInv, TypeOK, DatabaseTypeOK, DiskTypeOK, LogOK
<1>10. ASSUME NEW ks \in SUBSET Keys, StartStaleClear(ks) PROVE TypeInv'
  <2>1. /\ step' \in {"clearing", "idle"} /\ stale' = stale \cup ks
        /\ UNCHANGED <<job, binlogOpen, offset, map, removing, comp, binlog, ready, files>>
    BY <1>10 DEF StartStaleClear, diskVars
  <2>2. MayReadOK'
    <3>1. \A k \in Keys : mayRead[k] \cup (IF k \in ks THEN {None} ELSE {})
                           \in SUBSET (Values \cup {None})
      BY DEF TypeInv, TypeOK
    <3> QED BY <1>10, <3>1 DEF StartStaleClear
  <2>3. StepInv'
    BY <1>0, <2>1 DEF TypeInv, StepInv
  <2> QED BY <2>1, <2>2, <2>3 DEF TypeInv, TypeOK, DatabaseTypeOK, DiskTypeOK
<1>11. CASE ClearStaleChunk
  <2>1. PICK k \in stale :
          /\ stale' = stale \ {k}
          /\ \/ RemoveEntry(k) /\ mayRead' = [mayRead EXCEPT ![k] = @ \cap {None}]
             \/ UNCHANGED <<map, removing, binlog, offset, binlogOpen, files, mayRead>>
    BY <1>11 DEF ClearStaleChunk
  <2>2. k \in Keys
    BY DEF TypeInv, TypeOK, DatabaseTypeOK
  <2>3. /\ LogOK' /\ Len(binlog') >= Len(binlog) /\ removing' \subseteq Keys
        /\ map' \in [Keys -> MaybeEntry] /\ files' \in [Places -> Values \cup {None}]
    <3>1. CASE RemoveEntry(k)
      BY <1>0, <2>2, <3>1, RemoveEntryType DEF TypeInv, TypeOK, DatabaseTypeOK, DiskTypeOK
    <3>2. CASE UNCHANGED <<map, removing, binlog, offset, binlogOpen, files, mayRead>>
      BY <1>0, <3>2 DEF TypeInv, TypeOK, DatabaseTypeOK, DiskTypeOK, LogOK
    <3> QED BY <2>1, <3>1, <3>2
  <2>4. MayReadOK'
    BY <2>1, <2>2 DEF TypeInv, TypeOK
  <2>5. step' = "idle" /\ (CheckCompactor \/ UNCHANGED comp) /\ UNCHANGED <<job, ready>>
    BY <1>11 DEF ClearStaleChunk
  <2>6. comp' \in CompactorState /\ comp'.till <= Len(binlog') /\ comp'.from <= Len(binlog')
    <3>1. binlog' \in Seq(Block) /\ Len(binlog') \in Nat
      BY <2>3 DEF LogOK
    <3>2. comp.till <= Len(binlog') /\ comp.from <= Len(binlog')
      BY <1>0, <2>3, <3>1
    <3> QED BY <1>0, <2>5, <3>1, <3>2, CheckCompactorType
  <2>7. StepInv'
    BY <2>3, <2>5, <2>6 DEF StepInv, LogOK
  <2> QED BY <2>1, <2>3, <2>4, <2>5, <2>6, <2>7
        DEF TypeInv, TypeOK, DatabaseTypeOK, DiskTypeOK, LogOK
<1>12. CASE WriteBundles
  <2>1. /\ WriteMultiRemove(removing) /\ CheckCompactor /\ step = "idle"
        /\ UNCHANGED <<step, job, map, stale, ready, files, mayRead>>
    BY <1>12 DEF WriteBundles, Idle
  <2>2. LogOK' /\ Len(binlog') >= Len(binlog) /\ removing' \subseteq Keys
    <3>1. removing \in SUBSET Keys
      BY DEF TypeInv, TypeOK, DatabaseTypeOK
    <3> QED BY <1>0, <2>1, <3>1, WriteMultiRemoveType
  <2>3. comp' \in CompactorState /\ comp'.till <= Len(binlog') /\ comp'.from <= Len(binlog')
    <3>1. binlog' \in Seq(Block) /\ Len(binlog') \in Nat
      BY <2>2 DEF LogOK
    <3>2. comp.till <= Len(binlog') /\ comp.from <= Len(binlog')
      BY <1>0, <2>2, <3>1
    <3> QED BY <1>0, <2>1, <3>1, <3>2, CheckCompactorType
  <2>4. StepInv'
    BY <1>0, <2>1, <2>2, <2>3 DEF StepInv, LogOK
  <2> QED BY <2>1, <2>2, <2>3, <2>4 DEF TypeInv, TypeOK, DatabaseTypeOK, DiskTypeOK, LogOK
<1>13. CASE DatabaseAnswers
  <2> DEFINE list == [k \in Keys |-> IF comp.list[k] = None /\ k \in comp.keys
                                     THEN map[k] ELSE comp.list[k]]
  <2>1. list \in [Keys -> MaybeEntry]
    BY <1>0 DEF TypeInv, TypeOK, DatabaseTypeOK, CompactorState
  <2>2. comp' = [comp EXCEPT !.at = "reading", !.keys = {}, !.list = list]
    BY <1>13 DEF DatabaseAnswers
  <2> HIDE DEF list
  <2>3. comp' \in CompactorState /\ comp'.till = comp.till /\ comp'.from = comp.from
    BY <1>0, <2>1, <2>2 DEF CompactorState
  <2>4. UNCHANGED <<dbVars, diskVars, mayRead>> /\ step = "idle"
    BY <1>13 DEF DatabaseAnswers, Idle
  <2>5. StepInv'
    BY <1>0, <2>3, <2>4 DEF TypeInv, StepInv, dbVars, diskVars
  <2> QED BY <2>3, <2>4, <2>5 DEF TypeInv, TypeOK, DatabaseTypeOK, DiskTypeOK, dbVars, diskVars
<1>14. CASE CompactorFail
  <2>1. comp' = NoCompactor /\ ready' = None /\ UNCHANGED <<dbVars, binlog, files, mayRead>>
        /\ step = "idle"
    BY <1>14 DEF CompactorFail, Idle
  <2>2. StepInv'
    BY <1>0, <2>1, NoCompactorType DEF StepInv, dbVars, LogOK
  <2> QED BY <2>1, <2>2, NoCompactorType
        DEF TypeInv, TypeOK, DatabaseTypeOK, DiskTypeOK, dbVars
<1>15. CASE CompactorDone
  <2>1. /\ comp' = NoCompactor
        /\ \/ ready' = Compacted /\ step' = "replacing"
           \/ ready' = None /\ step' = "idle"
        /\ UNCHANGED <<job, binlogOpen, offset, map, removing, stale, binlog, files, mayRead>>
    BY <1>15 DEF CompactorDone, Idle
  <2>2. Compacted \in Seq(Block) /\ Compacted # None
    BY <1>0, CompactedType, SentinelAssumption DEF LogOK
  <2>3. StepInv'
    BY <1>0, <2>1, <2>2, NoCompactorType DEF StepInv, LogOK
  <2> QED BY <2>1, <2>2, <2>3, NoCompactorType
        DEF TypeInv, TypeOK, DatabaseTypeOK, DiskTypeOK
<1>16. CASE RemoveOldBinlog
  <2>1. /\ step = "replacing" /\ step' = "renaming" /\ binlogOpen' = FALSE
        /\ offset' = 0 /\ binlog' = <<>>
        /\ UNCHANGED <<job, map, removing, stale, comp, ready, files, mayRead>>
    BY <1>16 DEF RemoveOldBinlog
  <2>2. binlog' \in Seq(Block) /\ Len(binlog') = 0
    BY <2>1
  <2>3. StepInv'
    BY <1>0, <2>1, <2>2, NoCompactorType DEF TypeInv, StepInv
  <2>4. binlogOpen' \in BOOLEAN
    BY <2>1
  <2> QED BY <2>1, <2>2, <2>3, <2>4 DEF TypeInv, TypeOK, DatabaseTypeOK, DiskTypeOK
<1>17. CASE RenameReady
  <2>1. /\ step = "renaming" /\ step' = "idle"
        /\ offset' = Len(ready) /\ binlog' = ready /\ ready' = None
        /\ UNCHANGED <<job, map, removing, stale, comp, files, mayRead>>
    BY <1>17 DEF RenameReady
  <2>2. binlogOpen' \in BOOLEAN
    BY <1>17 DEF RenameReady
  <2>3. ready \in Seq(Block) /\ Len(ready) \in Nat /\ comp = NoCompactor
    BY <2>1 DEF StepInv, TypeInv, TypeOK, DiskTypeOK
  <2>4. StepInv'
    BY <2>1, <2>3, NoCompactorType DEF StepInv
  <2> QED BY <2>1, <2>2, <2>3, <2>4 DEF TypeInv, TypeOK, DatabaseTypeOK, DiskTypeOK
<1>18. CASE RenameReadyFails
  <2>1. /\ step' = "idle" /\ ready' = None
        /\ UNCHANGED <<job, binlogOpen, offset, map, removing, stale, comp, binlog, files,
                      mayRead>>
    BY <1>18 DEF RenameReadyFails
  <2>2. StepInv'
    BY <1>0, <2>1 DEF TypeInv, StepInv
  <2> QED BY <2>1, <2>2 DEF TypeInv, TypeOK, DatabaseTypeOK, DiskTypeOK
<1> QED
  BY <1>1, <1>2, <1>3, <1>4, <1>5, <1>6, <1>7, <1>8, <1>9, <1>10, <1>11, <1>12, <1>13,
     <1>14, <1>15, <1>16, <1>17, <1>18 DEF DatabaseStep

\* The compactor keeps to what it may read.
LEMMA CompactorTypeStep == TypeInv /\ CompactorStep => TypeInv'
<1> SUFFICES ASSUME TypeInv, CompactorStep PROVE TypeInv'
  OBVIOUS
<1>0. /\ binlog \in Seq(Block) /\ Len(binlog) \in Nat
      /\ comp \in CompactorState /\ comp.till <= Len(binlog) /\ comp.from <= Len(binlog)
      /\ comp.till \in Nat /\ comp.from \in Nat /\ comp.at # "none"
  <2>1. comp.at # "none"
    BY DEF CompactorStep, CompactorReads, CompactorFinishes, CompactorCatchesUp, CompactorGivesUp
  <2> QED BY <2>1 DEF TypeInv, TypeOK, DiskTypeOK, StepInv, CompactorState
<1>1. UNCHANGED <<dbVars, diskVars, mayRead>>
  BY DEF CompactorStep, CompactorReads, CompactorFinishes, CompactorCatchesUp, CompactorGivesUp
<1>2. step \notin {"closed", "replacing", "renaming"}
  <2>1. NoCompactor.at = "none"
    BY DEF NoCompactor
  <2> QED BY <1>0, <2>1 DEF TypeInv, StepInv
<1>3. SUFFICES comp' \in CompactorState /\ comp'.till <= Len(binlog) /\ comp'.from <= Len(binlog)
  <2>1. StepInv'
    BY <1>0, <1>1, <1>2, <1>3 DEF TypeInv, StepInv, dbVars, diskVars
  <2> QED BY <1>1, <1>3, <2>1 DEF TypeInv, TypeOK, DatabaseTypeOK, DiskTypeOK, dbVars, diskVars
<1>4. CASE CompactorReads
  <2>1. WholeRecords(Source) \in Nat
    BY <1>0, SourceType, ReadableFacts
  <2>2. PICK n \in comp.read + 1 .. WholeRecords(Source) :
          comp' = [comp EXCEPT !.at = "asked", !.read = n,
                               !.keys = StoredKeys(Source, comp.read, n)]
    BY <1>4 DEF CompactorReads
  <2>3. n \in Nat /\ StoredKeys(Source, comp.read, n) \in SUBSET Keys
    BY <1>0, <2>1 DEF CompactorState, StoredKeys
  <2> QED BY <1>0, <2>2, <2>3 DEF CompactorState
<1>5. CASE CompactorFinishes
  <2>1. PICK temp : temp = (IF comp.list = NoEntries THEN <<>>
                            ELSE BothBlocks(MultiStoreRecord(comp.list)))
    OBVIOUS
  <2>2. temp \in Seq(Block)
    <3>1. MultiStoreRecord(comp.list) \in Record
      BY <1>0, RecordTypes DEF CompactorState
    <3>2. BothBlocks(MultiStoreRecord(comp.list)) \in Seq(Block)
      BY <3>1 DEF BothBlocks, Block
    <3>3. <<>> \in Seq(Block)
      OBVIOUS
    <3> QED BY <2>1, <3>2, <3>3
  <2>3. comp' = [comp EXCEPT !.at = "catchingUp", !.read = 0, !.list = NoEntries,
                             !.from = comp.till, !.temp = temp]
    BY <1>5, <2>1 DEF CompactorFinishes
  <2>4. NoEntries \in [Keys -> MaybeEntry]
    BY DEF NoEntries, MaybeEntry
  <2> QED BY <1>0, <2>2, <2>3, <2>4 DEF CompactorState
<1>6. CASE CompactorCatchesUp
  <2>1. PICK a \in {"done", "catchingUp"}, more \in Nat, n \in Nat, temp \in Seq(Block) :
          /\ n = Len(binlog)
          /\ comp' = [comp EXCEPT !.at = a, !.temp = temp, !.from = n, !.last = more]
    <3>1. Len(binlog) - comp.from \in Nat
      BY <1>0
    <3>2. Compacted \in Seq(Block)
      BY <1>0, CompactedType
    <3> QED BY <1>0, <1>6, <3>1, <3>2 DEF CompactorCatchesUp
  <2>2. comp' \in CompactorState /\ comp'.till = comp.till /\ comp'.from = n
    BY <1>0, <2>1 DEF CompactorState
  <2> QED BY <1>0, <2>1, <2>2
<1>7. CASE CompactorGivesUp
  <2>1. comp' = [NoCompactor EXCEPT !.at = "failed"]
    BY <1>7 DEF CompactorGivesUp
  <2>2. comp' \in CompactorState /\ comp'.till = 0 /\ comp'.from = 0
    BY <2>1, NoCompactorType DEF CompactorState
  <2> QED BY <1>0, <2>2
<1> QED BY <1>4, <1>5, <1>6, <1>7 DEF CompactorStep

\* Opening, closing and dying keep the types, wherever the process was.
LEMMA ProcessTypeStep == TypeInv /\ ProcessStep => TypeInv'
<1> SUFFICES ASSUME TypeInv, ProcessStep PROVE TypeInv'
  OBVIOUS
<1>0. /\ LogOK /\ Len(binlog) \in Nat
      /\ comp \in CompactorState /\ comp.till <= Len(binlog) /\ comp.from <= Len(binlog)
  BY DEF TypeInv, TypeOK, DatabaseTypeOK, DiskTypeOK, StepInv, LogOK
<1>1. ASSUME Forget, binlog' \in Seq(Block), UNCHANGED <<ready, files, mayRead>>
      PROVE  TypeInv'
  <2>1. DatabaseTypeOK'
    <3>1. binlogOpen' \in BOOLEAN
      BY <1>1 DEF Forget
    <3> QED BY <1>1, <3>1 DEF Forget, DatabaseTypeOK, NoEntries, MaybeEntry
  <2>2. comp' \in CompactorState /\ comp'.till = 0 /\ comp'.from = 0
    BY <1>1, NoCompactorType DEF Forget
  <2>3. Len(binlog') \in Nat
    BY <1>1
  <2>4. StepInv'
    BY <1>1, <2>2, <2>3 DEF Forget, StepInv
  <2> QED BY <1>1, <2>1, <2>2, <2>4 DEF TypeInv, TypeOK, DiskTypeOK
<1>2. CASE Close
  <2>1. MultiRemoveRecord(removing) \in Record
    BY RecordTypes DEF TypeInv, TypeOK, DatabaseTypeOK
  <2>2. Written(binlog, offset, MultiRemoveRecord(removing)) \in Seq(Block)
    BY <1>0, <2>1, WrittenType DEF LogOK
  <2>3. binlog' \in Seq(Block)
    BY <1>0, <1>2, <2>2 DEF Close, LogOK
  <2> QED BY <1>1, <1>2, <2>3 DEF Close
<1>3. CASE Crash
  BY <1>0, <1>1, <1>3 DEF Crash, diskVars, LogOK
<1>4. CASE CrashInWrite
  <2> DEFINE n == IF Len(binlog) > offset THEN Len(binlog) ELSE offset + 1
             b(i) == IF i = offset + 1 THEN TornBlock ELSE binlog[i]
  <2>1. n \in Nat
    BY <1>0 DEF LogOK
  <2>2. ASSUME NEW i \in 1..n PROVE b(i) \in Block
    <3>1. CASE i = offset + 1
      BY <3>1 DEF TornBlock, Block, Record
    <3>2. CASE i # offset + 1
      <4>1. i \in 1..Len(binlog)
        BY <1>0, <3>2 DEF LogOK
      <4> QED BY <1>0, <3>2, <4>1, ElementOfSeq DEF LogOK
    <3> QED BY <3>1, <3>2
  <2>3. binlog' = [i \in 1..n |-> b(i)]
    BY <1>4 DEF CrashInWrite
  <2> HIDE DEF n, b
  <2>4. binlog' \in [1..n -> Block]
    BY <2>2, <2>3
  <2>5. binlog' \in Seq(Block)
    BY <2>1, <2>4, SeqDef
  <2> QED BY <1>1, <1>4, <2>5 DEF CrashInWrite
<1>5. CASE OpenDiscards
  <2>1. /\ step = "closed" /\ binlog' = <<>>
        /\ UNCHANGED <<dbVars, comp, ready, files, mayRead>>
    BY <1>5 DEF OpenDiscards
  <2>2. comp = NoCompactor /\ offset = 0
    BY <2>1 DEF TypeInv, StepInv
  <2>3. binlog' \in Seq(Block) /\ Len(binlog') = 0
    BY <2>1
  <2>4. StepInv'
    BY <2>1, <2>2, <2>3, NoCompactorType DEF StepInv, dbVars
  <2> QED BY <2>1, <2>3, <2>4 DEF TypeInv, TypeOK, DatabaseTypeOK, DiskTypeOK, dbVars
<1>6. CASE OpenRenames
  <2>1. /\ step = "closed" /\ binlog' = ready /\ ready # None /\ ready' = None
        /\ UNCHANGED <<dbVars, comp, files, mayRead>>
    BY <1>6 DEF OpenRenames
  <2>2. comp = NoCompactor /\ offset = 0
    BY <2>1 DEF TypeInv, StepInv
  <2>3. binlog' \in Seq(Block) /\ Len(binlog') \in Nat
    BY <2>1 DEF TypeInv, TypeOK, DiskTypeOK
  <2>4. StepInv'
    BY <2>1, <2>2, <2>3, NoCompactorType DEF StepInv, dbVars
  <2> QED BY <2>1, <2>3, <2>4 DEF TypeInv, TypeOK, DatabaseTypeOK, DiskTypeOK, dbVars
<1>7. CASE Open
  <2>1. /\ step' = "idle" /\ CheckCompactor /\ UNCHANGED <<job, removing, stale>>
        /\ map' = Replay(binlog) /\ offset' = 2 * WholeRecords(binlog)
        /\ binlog' = binlog /\ UNCHANGED <<ready, files, mayRead>>
    BY <1>7 DEF Open, diskVars
  <2>2. binlogOpen' \in BOOLEAN
    BY <1>7 DEF Open
  <2>3. map' \in [Keys -> MaybeEntry]
    BY <1>0, <2>1, ReplayType DEF LogOK
  <2>4. offset' \in Nat /\ offset' <= Len(binlog)
    <3>1. WholeRecords(binlog) \in Nat /\ 2 * WholeRecords(binlog) <= Len(binlog)
      BY <1>0, ReadableFacts DEF LogOK
    <3> QED BY <2>1, <3>1
  <2>5. comp' \in CompactorState /\ comp'.till <= Len(binlog') /\ comp'.from <= Len(binlog')
    BY <1>0, <2>1, CheckCompactorType DEF LogOK
  <2>6. StepInv'
    BY <2>1, <2>4, <2>5 DEF StepInv
  <2> QED BY <2>1, <2>2, <2>3, <2>4, <2>5, <2>6 DEF TypeInv, TypeOK, DatabaseTypeOK, DiskTypeOK
<1> QED BY <1>2, <1>3, <1>4, <1>5, <1>6, <1>7 DEF ProcessStep

LEMMA TypeInit == Init => TypeInv
<1> SUFFICES ASSUME Init PROVE TypeInv
  OBVIOUS
<1>1. binlogOpen \in BOOLEAN
  BY DEF Init
<1>2. DatabaseTypeOK /\ mayRead \in [Keys -> SUBSET (Values \cup {None})]
  BY <1>1 DEF Init, DatabaseTypeOK, NoEntries, MaybeEntry
<1>3. comp \in CompactorState /\ DiskTypeOK /\ Len(binlog) = 0
  BY NoCompactorType DEF Init, DiskTypeOK
<1>4. StepInv
  BY <1>3, NoCompactorType DEF Init, StepInv
<1> QED BY <1>2, <1>3, <1>4 DEF TypeInv, TypeOK

LEMMA TypeStep == TypeInv /\ [Next]_vars => TypeInv'
<1>1. TypeInv /\ UNCHANGED vars => TypeInv'
  BY DEF TypeInv, TypeOK, DatabaseTypeOK, DiskTypeOK, StepInv, vars, dbVars, diskVars
<1> QED BY <1>1, DatabaseTypeStep, CompactorTypeStep, ProcessTypeStep DEF Next

LEMMA TypesHold == Spec => []TypeInv
BY TypeInit, TypeStep, PTL DEF Spec

\* The types hold, and with them what each interrupted handler builds on: an entry
\* that is being put or moved, a compacted binlog that is to be renamed, places of
\* the writer and of the compactor that are not beyond the end of the binlog.
THEOREM TypeCorrect == Spec => []TypeOK
<1>1. TypeInv => TypeOK
  BY DEF TypeInv
<1> QED BY <1>1, TypesHold, PTL
=============================================================================
