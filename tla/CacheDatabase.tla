---------------------------- MODULE CacheDatabase ----------------------------
(***************************************************************************)
(* The key-value cache on disk (storage/cache): the database object on its *)
(* queue, the compactor on another queue, the files of one version of the  *)
(* database, and the death of the process at any moment.                   *)
(*                                                                         *)
(* A record of the binlog takes two blocks, so that a write may stop in    *)
(* the middle.  A value stands for the bytes of an entry with their tag,   *)
(* size and checksum.  The records that only tell when an entry was used   *)
(* (MultiAccess) and the times of use are left out: they decide what is    *)
(* pruned, and here any keys may be.                                       *)
(*                                                                         *)
(* A definition marked "Variant" is not part of the specification: it is a *)
(* plausible slip of the definition after it, kept to see which property   *)
(* notices.                                                                *)
(***************************************************************************)
EXTENDS Integers, Sequences, FiniteSets

CONSTANTS
    Keys, Values, Places,   \* the keys, their values, the names of data files
    MaxBundledRecords,      \* Settings::maxBundledRecords
    MaxBlocks,              \* bound of the model: blocks of the binlog
    Mishaps,                \* what may go wrong
    None,                   \* no value, no entry, no file
    Same                    \* in a record: the key is not mentioned

Entry == [place : Places, value : Values]
MaybeEntry == Entry \cup {None}
NoEntries == [k \in Keys |-> None]

\* What a record does to each key: Store and MultiStore set entries,
\* MultiRemove erases them.
Record == [Keys -> MaybeEntry \cup {Same}]
Block  == Record \X {1, 2}

ASSUME BundleAssumption == MaxBundledRecords \in Nat \ {0}
ASSUME BoundAssumption == MaxBlocks \in Nat
ASSUME SentinelAssumption ==
    /\ None # Same
    /\ None \notin Values \cup Places
    /\ Entry \cap {None, Same} = {}
    /\ None \notin [key : Keys, entry : Entry] \cup Seq(Block)
ASSUME MishapAssumption ==
    Mishaps \subseteq {"writeFails", "dataFails", "compactFails", "swapFails", "torn"}

VARIABLES
    \* the database object
    step,           \* "closed", "idle" between two handlers, or the point inside one
    job,            \* the key and the entry of the handler inside which we are
    binlogOpen,     \* _binlog.isOpen()
    offset,         \* the blocks before the place where _binlog writes next
    map,            \* _map
    removing,       \* _removing
    stale,          \* _stale
    \* the compactor, and its "binlog-temp"
    comp,
    \* the disk
    binlog,         \* the blocks of "binlog"
    ready,          \* the blocks of "binlog-ready", or None
    files,          \* the value in each data file, or None
    \* history
    mayRead         \* what a caller who was told the results so far may read

dbVars   == <<step, job, binlogOpen, offset, map, removing, stale>>
diskVars == <<binlog, ready, files>>
vars     == <<dbVars, comp, diskVars, mayRead>>

-----------------------------------------------------------------------------
(* The binlog. *)

StoreRecord(k, e)     == [[j \in Keys |-> Same] EXCEPT ![k] = e]
MultiStoreRecord(m)   == [j \in Keys |-> IF m[j] = None THEN Same ELSE m[j]]
MultiRemoveRecord(ks) == [j \in Keys |-> IF j \in ks THEN None ELSE Same]

\* The first block of a record whose writing stopped there.
TornBlock == <<[j \in Keys |-> Same], 1>>

BothBlocks(r) == <<<<r, 1>>, <<r, 2>>>>

IsRecordAt(log, i) ==
    /\ 2 * i <= Len(log)
    /\ log[2 * i - 1] = <<log[2 * i][1], 1>>
    /\ log[2 * i][2] = 2

\* BinlogWrapper and BinlogReader read the whole records from the beginning, up to
\* the first place where there is none.
Readable(log) == {i \in 1..Len(log) : \A j \in 1..i : IsRecordAt(log, j)}

WholeRecords(log) == Cardinality(Readable(log))

RecordAt(log, i) == log[2 * i][1]

\* The reader stops at what cannot be the beginning of a record: an error for
\* the compactor, the end of the binlog for the database.
Unreadable(log) ==
    LET at == 2 * WholeRecords(log) + 1
    IN  at <= Len(log) /\ (log[at][2] = 2 \/ at < Len(log))

\* The map that the records make, the last record about a key having the say.
Replay(log) ==
    [k \in Keys |->
        LET about == {i \in Readable(log) : RecordAt(log, i)[k] # Same}
        IN  IF about = {} THEN None
            ELSE RecordAt(log, CHOOSE i \in about : \A j \in about : j <= i)[k]]

\* The keys of the Store records from the one after `from` up to `to`.
StoredKeys(log, from, to) ==
    {k \in Keys : \E i \in from + 1 .. to : RecordAt(log, i)[k] \notin {None, Same}}

\* File::write at the current offset, over what is there.
Written(log, at, r) ==
    [i \in 1..IF Len(log) > at + 2 THEN Len(log) ELSE at + 2 |->
        IF i \in {at + 1, at + 2} THEN <<r, i - at>> ELSE log[i]]
-----------------------------------------------------------------------------
(* What can be read. *)

\* What get finds under each key: the file has to have the size and the checksum
\* of the entry.
Content(entries) ==
    [k \in Keys |->
        IF entries[k] # None /\ files[entries[k].place] = entries[k].value
        THEN entries[k].value ELSE None]

\* The binlog that the next start reads.
OnDisk == IF ready # None THEN ready ELSE binlog

\* (Variant.)
CompactedOnly == comp.temp

\* The compacted binlog as it would be if it took the place of the old one now.
Compacted == comp.temp \o SubSeq(binlog, comp.from + 1, Len(binlog))

Mentioned(r) == {r[k].place : k \in {j \in Keys : r[j] \notin {None, Same}}}

\* (Variant.)
AnyPlace == Places

\* isFreePlace with a random name of 56 bits: one that nothing mentions.
FreePlaces ==
    {p \in Places :
        /\ files[p] = None
        /\ p \notin Mentioned(map) \cup Mentioned(comp.list)
        /\ \A log \in {binlog, comp.temp} : \A i \in 1..Len(log) : p \notin Mentioned(log[i][1])}

-----------------------------------------------------------------------------
(* The compactor as the database sees it. *)

NoCompactor ==
    [at |-> "none", till |-> 0, read |-> 0, keys |-> {}, list |-> NoEntries,
     temp |-> <<>>, from |-> 0, last |-> 0]

\* A key is mentioned twice: the older mention is in excess.
HasExcess(log) ==
    \E i, j \in Readable(log), k \in Keys :
        i # j /\ RecordAt(log, i)[k] # Same /\ RecordAt(log, j)[k] # Same

\* checkCompactor: whether the excess is enough, and whether the delay after a
\* failure is over, is left open.  What the file holds counts up to its end.
CheckCompactor ==
    \/ UNCHANGED comp
    \/ /\ comp.at = "none" /\ binlogOpen' /\ HasExcess(binlog')
       /\ comp' = [NoCompactor EXCEPT !.at = "reading", !.till = Len(binlog')]

-----------------------------------------------------------------------------
(* Writing to the binlog. *)

WriteRecord(r) ==
    /\ binlogOpen
    /\ offset + 2 <= MaxBlocks
    /\ binlog' = Written(binlog, offset, r)
    /\ offset' = offset + 2
    /\ UNCHANGED binlogOpen

\* _binlog.write returned false, now or before: the binlog is closed.
WriteFails ==
    /\ binlogOpen => "writeFails" \in Mishaps
    /\ binlogOpen' = FALSE
    /\ UNCHANGED <<binlog, offset>>

\* writeMultiRemove.
WriteMultiRemove(ks) ==
    /\ removing' = {}
    /\ WriteRecord(MultiRemoveRecord(ks)) \/ WriteFails

\* (Variant.)
RemoveEntryLater(k) ==
    /\ map' = [map EXCEPT ![k] = None]
    /\ files' = [files EXCEPT ![map[k].place] = None]
    /\ removing' = removing \cup {k}
    /\ UNCHANGED <<binlog, offset, binlogOpen>>

\* remove: the entry and its file go now, the record goes with a bundle.
RemoveEntry(k) ==
    /\ map' = [map EXCEPT ![k] = None]
    /\ files' = [files EXCEPT ![map[k].place] = None]
    /\ IF Cardinality(removing \cup {k}) = MaxBundledRecords
       THEN WriteMultiRemove(removing \cup {k})
       ELSE /\ removing' = removing \cup {k}
            /\ UNCHANGED <<binlog, offset, binlogOpen>>

-----------------------------------------------------------------------------
(* The database: one handler at a time, but the process may die inside one,  *)
(* and the compactor reads the files meanwhile.                              *)

Init ==
    /\ step = "closed" /\ job = None
    /\ binlogOpen = FALSE /\ offset = 0
    /\ map = NoEntries /\ removing = {} /\ stale = {}
    /\ comp = NoCompactor
    /\ binlog = <<>> /\ ready = None
    /\ files = [p \in Places |-> None]
    /\ mayRead = [k \in Keys |-> {None}]

Idle == step = "idle"

\* A key that is put again is not to be removed or cleared any more.
\* (Two variants.)
StillStale(k)    == removing' = removing \ {k} /\ stale' = stale
StillRemoving(k) == removing' = removing /\ stale' = stale \ {k}
StillWanted(k)   == removing' = removing \ {k} /\ stale' = stale \ {k}

\* put, up to the record: an existing key keeps its place.  (putIfEmpty and
\* copyIfEmpty are put under a condition.)
PutRecord(k, v) ==
    /\ Idle
    /\ Content(map)[k] # v
    /\ \E p \in IF map[k] = None THEN FreePlaces ELSE {map[k].place} :
        LET e == [place |-> p, value |-> v]
        IN  /\ WriteRecord(StoreRecord(k, e))
            /\ map' = [map EXCEPT ![k] = e]
            /\ job' = [key |-> k, entry |-> e]
    /\ step' = "putting"
    /\ StillWanted(k)
    /\ mayRead' = [mayRead EXCEPT ![k] = {None, v}]
    /\ UNCHANGED <<comp, ready, files>>

\* put, the data file.
PutData ==
    /\ step = "putting"
    /\ files' = [files EXCEPT ![job.entry.place] = job.entry.value]
    /\ mayRead' = [mayRead EXCEPT ![job.key] = {job.entry.value}]
    /\ step' = "idle" /\ job' = None
    /\ UNCHANGED <<binlogOpen, offset, map, removing, stale, binlog, ready>>
    /\ CheckCompactor

PutDataFails ==
    /\ step = "putting" /\ "dataFails" \in Mishaps
    /\ RemoveEntry(job.key)
    /\ mayRead' = [mayRead EXCEPT ![job.key] = {None}]
    /\ step' = "idle" /\ job' = None
    /\ UNCHANGED <<stale, comp, ready>>

\* put when the value is there already.
PutSame(k, v) ==
    /\ Idle
    /\ map[k] # None /\ Content(map)[k] = v
    /\ StillWanted(k)
    /\ mayRead' = [mayRead EXCEPT ![k] = {v}]
    /\ UNCHANGED <<step, job, binlogOpen, offset, map, diskVars>>
    /\ CheckCompactor

\* put when the record could not be written: the caller is told the same.
PutNotWritten(k, v) ==
    /\ Idle
    /\ Content(map)[k] # v
    /\ WriteFails
    /\ StillWanted(k)
    /\ mayRead' = [mayRead EXCEPT ![k] = {v}]
    /\ UNCHANGED <<step, job, map, comp, ready, files>>

\* get: an entry whose file is not what it should be is removed.
Get(k) ==
    /\ Idle
    /\ map[k] # None
    /\ \/ /\ Content(map)[k] # None
          /\ UNCHANGED <<dbVars, diskVars>>
          /\ CheckCompactor
       \/ /\ Content(map)[k] = None
          /\ RemoveEntry(k)
          /\ UNCHANGED <<step, job, stale, comp, ready>>
    /\ UNCHANGED mayRead

Remove(k) ==
    /\ Idle
    /\ map[k] # None
    /\ RemoveEntry(k)
    /\ mayRead' = [mayRead EXCEPT ![k] = {None}]
    /\ UNCHANGED <<step, job, stale, comp, ready>>

\* moveIfEmpty, up to the MultiRemove of the old key.
MoveRemoves(from, to) ==
    /\ Idle
    /\ map[to] = None /\ map[from] # None
    /\ map' = [map EXCEPT ![from] = None]
    /\ WriteMultiRemove(removing \cup {from})
    /\ IF binlogOpen'
       THEN /\ step' = "moving"
            /\ job' = [key |-> to, entry |-> map[from]]
            /\ stale' = stale \ {to}
            /\ mayRead' = [mayRead EXCEPT ![from] = {None}, ![to] = {None, Content(map)[from]}]
       ELSE /\ mayRead' = [mayRead EXCEPT ![from] = @ \cup {None}]
            /\ UNCHANGED <<step, job, stale>>
    /\ UNCHANGED <<comp, ready, files>>

\* moveIfEmpty, writeExistingPlace.
MoveStores ==
    /\ step = "moving"
    /\ \/ /\ WriteRecord(StoreRecord(job.key, job.entry))
          /\ map' = [map EXCEPT ![job.key] = job.entry]
          /\ mayRead' = [mayRead EXCEPT ![job.key] = {Content(map')[job.key]}]
       \/ /\ WriteFails
          /\ mayRead' = [mayRead EXCEPT ![job.key] = {None}]
          /\ UNCHANGED map
    /\ step' = "idle" /\ job' = None
    /\ UNCHANGED <<removing, stale, comp, ready, files>>

\* clearByTag and prune, which waits until nothing is stale: some keys.
StartStaleClear(ks) ==
    /\ Idle
    /\ ks # {} /\ \A k \in ks : map[k] # None
    /\ stale' = stale \cup ks
    /\ step' = IF stale = {} THEN "clearing" ELSE "idle"
    /\ mayRead' = [k \in Keys |-> mayRead[k] \cup IF k \in ks THEN {None} ELSE {}]
    /\ UNCHANGED <<job, binlogOpen, offset, map, removing, comp, diskVars>>

\* clearStaleChunk, in the same handler or posted to the queue: one key at a time.
ClearStaleChunk ==
    /\ step \in {"clearing", "idle"}
    /\ \E k \in stale :
        /\ stale' = stale \ {k}
        /\ IF map[k] # None
           THEN RemoveEntry(k) /\ mayRead' = [mayRead EXCEPT ![k] = @ \cap {None}]
           ELSE UNCHANGED <<map, removing, binlog, offset, binlogOpen, files, mayRead>>
    /\ step' = "idle"
    /\ IF stale' = {} THEN CheckCompactor ELSE UNCHANGED comp
    /\ UNCHANGED <<job, ready>>

\* writeBundles by its timer.
WriteBundles ==
    /\ Idle
    /\ removing # {}
    /\ WriteMultiRemove(removing)
    /\ CheckCompactor
    /\ UNCHANGED <<step, job, map, stale, ready, files, mayRead>>

\* clearState, or the end of the process.
Forget ==
    /\ step' = "closed" /\ job' = None
    /\ binlogOpen' = FALSE /\ offset' = 0
    /\ map' = NoEntries /\ removing' = {} /\ stale' = {}
    /\ comp' = NoCompactor

Close ==
    /\ Idle
    /\ IF binlogOpen /\ removing # {}
       THEN /\ offset + 2 <= MaxBlocks
            /\ binlog' = Written(binlog, offset, MultiRemoveRecord(removing))
       ELSE UNCHANGED binlog
    /\ Forget
    /\ UNCHANGED <<ready, files, mayRead>>

Crash ==
    /\ step # "closed"
    /\ Forget
    /\ UNCHANGED <<diskVars, mayRead>>

\* The process dies, or the machine, in the middle of writing a record.
CrashInWrite ==
    /\ Idle /\ "torn" \in Mishaps
    /\ binlogOpen /\ offset < MaxBlocks
    /\ binlog' = [i \in 1..IF Len(binlog) > offset THEN Len(binlog) ELSE offset + 1 |->
                    IF i = offset + 1 THEN TornBlock ELSE binlog[i]]
    /\ Forget
    /\ UNCHANGED <<ready, files, mayRead>>

\* openBinlog puts a compacted binlog in place first: File::Move removes the
\* destination, then renames.
OpenDiscards ==
    /\ step = "closed"
    /\ ready # None /\ binlog # <<>>
    /\ binlog' = <<>>
    /\ UNCHANGED <<dbVars, comp, ready, files, mayRead>>

\* (Variant.)
OpenRenamesAnyway ==
    /\ step = "closed"
    /\ binlog = <<>>
    /\ binlog' = ready /\ ready' = None
    /\ UNCHANGED <<dbVars, comp, files, mayRead>>

OpenRenames ==
    /\ step = "closed"
    /\ ready # None /\ binlog = <<>>
    /\ binlog' = ready /\ ready' = None
    /\ UNCHANGED <<dbVars, comp, files, mayRead>>

\* openBinlog, readBinlog: what is after the last whole record is written over.
Open ==
    /\ step = "closed"
    /\ ready = None
    /\ step' = "idle"
    /\ binlogOpen' = TRUE
    /\ map' = Replay(binlog)
    /\ offset' = 2 * WholeRecords(binlog)
    /\ UNCHANGED <<job, removing, stale, diskVars, mayRead>>
    /\ CheckCompactor

-----------------------------------------------------------------------------
(* The compactor. *)

\* What the compactor reads ends where the binlog ended when it was started.
Source == SubSeq(binlog, 1, comp.till)

\* parseChunk: some more keys, to be asked for.
CompactorReads ==
    /\ comp.at = "reading"
    /\ \E n \in comp.read + 1 .. WholeRecords(Source) :
        /\ StoredKeys(Source, comp.read, n) # {}
        /\ comp' = [comp EXCEPT !.at = "asked", !.read = n,
                                !.keys = StoredKeys(Source, comp.read, n)]
    /\ UNCHANGED <<dbVars, diskVars, mayRead>>

\* getManyRaw and processValues: each key once, with its present entry.
DatabaseAnswers ==
    /\ Idle
    /\ comp.at = "asked"
    /\ comp' = [comp EXCEPT !.at = "reading", !.keys = {},
                            !.list = [k \in Keys |-> IF comp.list[k] = None /\ k \in comp.keys
                                                     THEN map[k] ELSE comp.list[k]]]
    /\ UNCHANGED <<dbVars, diskVars, mayRead>>

\* finish: the entries are written.  (The code writes them in several lists.)
CompactorFinishes ==
    /\ comp.at = "reading"
    /\ StoredKeys(Source, comp.read, WholeRecords(Source)) = {}
    /\ ~Unreadable(Source)
    /\ comp' = [comp EXCEPT !.at = "catchingUp", !.read = 0, !.list = NoEntries,
                            !.from = comp.till,
                            !.temp = IF comp.list = NoEntries THEN <<>>
                                     ELSE BothBlocks(MultiStoreRecord(comp.list))]
    /\ UNCHANGED <<dbVars, diskVars, mayRead>>

\* finalize and CatchUp: copy what was written since, until there is little of it.
CompactorCatchesUp ==
    /\ comp.at = "catchingUp"
    /\ LET more == Len(binlog) - comp.from
           isLast == more = 0 \/ (comp.last > 0 /\ more >= comp.last)
       IN  comp' = [comp EXCEPT !.at = IF isLast THEN "done" ELSE "catchingUp",
                                !.temp = Compacted, !.from = Len(binlog),
                                !.last = IF isLast THEN 0 ELSE more]
    /\ UNCHANGED <<dbVars, diskVars, mayRead>>

\* fail: an unreadable record, or an error.
CompactorGivesUp ==
    /\ \/ comp.at = "reading" /\ Unreadable(Source)
       \/ comp.at \in {"reading", "catchingUp"} /\ "compactFails" \in Mishaps
    /\ comp' = [NoCompactor EXCEPT !.at = "failed"]
    /\ UNCHANGED <<dbVars, diskVars, mayRead>>

\* compactorFail.
CompactorFail ==
    /\ Idle
    /\ comp.at = "failed"
    /\ comp' = NoCompactor
    /\ ready' = None
    /\ UNCHANGED <<dbVars, binlog, files, mayRead>>

\* compactorDone: the rest is copied and the file declared ready ...
CompactorDone ==
    /\ Idle
    /\ comp.at = "done"
    /\ \/ /\ binlogOpen
          /\ ready' = Compacted
          /\ step' = "replacing"
          /\ comp' = NoCompactor
       \/ /\ binlogOpen => "compactFails" \in Mishaps
          /\ ready' = None
          /\ comp' = NoCompactor
          /\ UNCHANGED step
    /\ UNCHANGED <<job, binlogOpen, offset, map, removing, stale, binlog, files, mayRead>>

\* ... the old binlog is closed and removed ...
RemoveOldBinlog ==
    /\ step = "replacing"
    /\ step' = "renaming"
    /\ binlogOpen' = FALSE /\ offset' = 0
    /\ binlog' = <<>>
    /\ UNCHANGED <<job, map, removing, stale, comp, ready, files, mayRead>>

\* ... and the new one renamed, opened and continued at its end.
RenameReady ==
    /\ step = "renaming"
    /\ step' = "idle"
    /\ binlogOpen' = TRUE /\ offset' = Len(ready)
    /\ binlog' = ready /\ ready' = None
    /\ UNCHANGED <<job, map, removing, stale, comp, files, mayRead>>

\* The old binlog could be removed but the new one not renamed.
RenameReadyFails ==
    /\ step = "renaming" /\ "swapFails" \in Mishaps
    /\ step' = "idle"
    /\ ready' = None
    /\ UNCHANGED <<job, binlogOpen, offset, map, removing, stale, comp, binlog, files, mayRead>>

-----------------------------------------------------------------------------
DatabaseStep ==
    \/ \E k \in Keys, v \in Values : PutRecord(k, v) \/ PutSame(k, v) \/ PutNotWritten(k, v)
    \/ PutData \/ PutDataFails
    \/ \E k \in Keys : Get(k) \/ Remove(k)
    \/ \E from, to \in Keys : MoveRemoves(from, to)
    \/ MoveStores
    \/ \E ks \in SUBSET Keys : StartStaleClear(ks)
    \/ ClearStaleChunk \/ WriteBundles
    \/ DatabaseAnswers \/ CompactorFail
    \/ CompactorDone \/ RemoveOldBinlog \/ RenameReady \/ RenameReadyFails

CompactorStep ==
    CompactorReads \/ CompactorFinishes \/ CompactorCatchesUp \/ CompactorGivesUp

ProcessStep ==
    Close \/ Crash \/ CrashInWrite \/ OpenDiscards \/ OpenRenames \/ Open

Next == DatabaseStep \/ CompactorStep \/ ProcessStep

Spec == Init /\ [][Next]_vars

-----------------------------------------------------------------------------
(* Properties. *)

DatabaseTypeOK ==
    /\ step \in {"closed", "idle", "putting", "moving", "clearing", "replacing", "renaming"}
    /\ job \in [key : Keys, entry : Entry] \cup {None}
    /\ binlogOpen \in BOOLEAN /\ offset \in Nat
    /\ map \in [Keys -> MaybeEntry]
    /\ removing \subseteq Keys /\ stale \subseteq Keys

CompactorState ==
    [at : {"none", "reading", "asked", "catchingUp", "done", "failed"},
     till : Nat, read : Nat, keys : SUBSET Keys, list : [Keys -> MaybeEntry],
     temp : Seq(Block), from : Nat, last : Nat]

DiskTypeOK ==
    /\ binlog \in Seq(Block)
    /\ ready \in Seq(Block) \cup {None}
    /\ files \in [Places -> Values \cup {None}]

\* The variables keep their types: no handler builds on an entry, a record or a
\* file that is not there (put, moveIfEmpty, compactorDone).
TypeOK ==
    /\ DatabaseTypeOK /\ comp \in CompactorState /\ DiskTypeOK
    /\ mayRead \in [Keys -> SUBSET (Values \cup {None})]

\* get returns the value of the last put that succeeded, or nothing where
\* something removed, cleared or moved it, or a put failed: never an older value
\* and never that of another key (get, put, remove, moveIfEmpty, clearStaleChunk).
ReadsWhatWasPut ==
    step # "closed" => \A k \in Keys : Content(map)[k] \in mayRead[k]

\* If the process died now, the next one would read the same.  The values that
\* callers were told are stored survive a lazy removal, a compaction at any point,
\* and a crash at any point (openBinlog, compactorDone, writeBundles).
KeepsWhatWasPut ==
    \A k \in Keys : Content(Replay(OnDisk))[k] \in mayRead[k]

\* No two keys have the same data file, where a put under one of them would
\* destroy the value of the other (isFreePlace, moveIfEmpty).
PlacesDistinct ==
    \A j, k \in Keys : j # k /\ map[j] # None /\ map[k] # None => map[j].place # map[k].place

\* While the compactor catches up, what it has and the rest of the binlog are a
\* replacement for the binlog (processValues, CatchUp).
CompactionFaithful ==
    comp.at \in {"catchingUp", "done"} =>
        Content(Replay(Compacted)) = Content(Replay(binlog))

\* One more key always fits into the next bundle, so that writeMultiRemove, which
\* remove and moveIfEmpty call after adding one, meets its assertion
\* Expects(_removing.size() <= _settings.maxBundledRecords).
BundleFits == Cardinality(removing) < MaxBundledRecords
=============================================================================
