---------------------------- MODULE LocalStorage ----------------------------
(* The files of an account in local storage (localstorage.cpp): the map, which  *)
(* says in which file each draft is, and the files of the drafts.  Every file   *)
(* is "safe": it is kept under two names, a write goes to the one that holds    *)
(* the older copy and then removes the other, and a read takes the newer copy   *)
(* whose signature is right.  The map is written some time after it changed.    *)
(* At the start another thread removes the files that the map does not list.    *)
(*                                                                              *)
(* The process may be killed between any two of these steps.  Which of the two  *)
(* names a copy has is left out: a file is the sequence of its copies, the      *)
(* older one first, as the times of modification order them.                    *)
EXTENDS Naturals, Sequences, FiniteSets

CONSTANTS
    Peers,        \* whose drafts are kept
    Texts,        \* what a draft says
    MaxKeys,      \* how many files of drafts are ever made
    MaxStarts,    \* how often the program starts
    WritesUnread, \* a draft may be written before the old one was read
    None          \* no draft, no content

ASSUME ConstantsAssumption ==
    /\ None \notin Texts
    /\ MaxKeys \in Nat /\ MaxStarts \in Nat
    /\ WritesUnread \in BOOLEAN

VARIABLES
    disk,       \* the copies of each file, the older first
    running,    \* the program runs
    starts,     \* how often it was started
    keysMade,   \* how many keys genKey() has made
    draftsMap,  \* _draftsMap, partial: the file of a peer's draft
    notRead,    \* _draftsNotReadMap
    mapChanged, \* _mapChanged
    mapTimer,   \* _mapWriteTimer is active
    job,        \* what the main thread is in the middle of
    cleaner,    \* the thread that removes other files, and what it knows
    wanted,     \* history: the draft of a peer as the user left it
    recent      \* history: the drafts since nothing was left to write

mapVars  == <<draftsMap, notRead, mapChanged, mapTimer>>
pastVars == <<wanted, recent>>
vars == <<disk, running, starts, keysMade, mapVars, job, cleaner, pastVars>>

Keys     == 1 .. MaxKeys
MapName  == 0 \* "map"
Names    == {MapName} \cup Keys
Maps     == UNION {[S -> Keys] : S \in SUBSET Peers}
NoDrafts == [p \in {} |-> 1]

Good(c)  == [good |-> TRUE, holds |-> c]
Torn     == [good |-> FALSE, holds |-> None]

Idle        == [does |-> "nothing"]
Writing(n, c) == [does |-> "write", name |-> n, content |-> c]
Written(n)  == [does |-> "close", name |-> n]
Clearing(n) == [does |-> "clear", name |-> n]

Asleep         == [does |-> "nothing"]
Listing        == [does |-> "list"]
Listed(ns)     == [does |-> "ask", files |-> ns]
Removing(ns)   == [does |-> "remove", files |-> ns]

Sync == running /\ job = Idle

Init ==
    /\ disk = [n \in Names |-> <<>>]
    /\ running = FALSE /\ starts = 0 /\ keysMade = 0
    /\ draftsMap = NoDrafts /\ notRead = {}
    /\ mapChanged = FALSE /\ mapTimer = FALSE
    /\ job = Idle /\ cleaner = Asleep
    /\ wanted = [p \in Peers |-> None]
    /\ recent = [p \in Peers |-> {None}]

-----------------------------------------------------------------------------
(* Safe files.                                                                 *)

\* readFile(): the newest copy that is good, or none.
CanRead(f) == \E i \in DOMAIN f : f[i].good
Newest(f)  == CHOOSE i \in DOMAIN f : f[i].good /\ \A j \in DOMAIN f : j > i => ~f[j].good
Content(f) == f[Newest(f)].holds
\* (Variant: the copy that was not read stays.)
KeepsBoth(f) == f
\* What a read leaves: the other copy is removed, if one was good.
AfterRead(f) == IF CanRead(f) THEN <<Good(Content(f))>> ELSE f

\* FileWriteDescriptor: the older of two copies is overwritten ...
\* (Variant: the only copy is overwritten.)
OpenedInPlace(f) == <<Torn>>
Opened(f) == (IF Len(f) = 2 THEN <<f[2]>> ELSE f) \o <<Torn>>
\* ... the signature makes it good, and the other copy is removed.
Completed(f, c) == [f EXCEPT ![Len(f)] = Good(c)]
Closed(f) == <<f[Len(f)]>>

-----------------------------------------------------------------------------
(* What a start after a crash would find.                                      *)

Found(p) ==
    IF CanRead(disk[MapName])
    THEN LET m == Content(disk[MapName])
         IN  IF p \in DOMAIN m /\ CanRead(disk[m[p]]) THEN Content(disk[m[p]]) ELSE None
    ELSE None

Wants(p, t) ==
    /\ wanted' = [wanted EXCEPT ![p] = t]
    /\ recent' = [recent EXCEPT ![p] = @ \cup {t}]

\* Nothing is left to write once a file is closed and the map is up to date.
Settles == recent' = IF mapChanged' \/ job' # Idle THEN recent
                                                  ELSE [p \in Peers |-> {wanted[p]}]

-----------------------------------------------------------------------------
(* The main thread.                                                            *)

\* Opens the file; the next two steps write and close it.
Opens(n, c) ==
    /\ disk' = [disk EXCEPT ![n] = Opened(@)]
    /\ job' = Writing(n, c)

Completes ==
    /\ job.does = "write"
    /\ disk' = [disk EXCEPT ![job.name] = Completed(@, job.content)]
    /\ job' = Written(job.name)
    /\ UNCHANGED <<running, starts, keysMade, mapVars, cleaner, pastVars>>

Closes ==
    /\ job.does = "close"
    /\ disk' = [disk EXCEPT ![job.name] = Closed(@)]
    /\ job' = Idle
    /\ mapChanged' = (mapChanged /\ job.name # MapName)
    /\ Settles
    /\ UNCHANGED <<running, starts, keysMade, draftsMap, notRead, mapTimer, cleaner, wanted>>

\* clearKey() removes one name after the other.
Clears(n) ==
    /\ \/ disk' = [disk EXCEPT ![n] = IF @ = <<>> THEN @ ELSE Tail(@)]
       \/ disk' = [disk EXCEPT ![n] = IF @ = <<>> THEN @ ELSE <<Head(@)>>]
    /\ job' = Clearing(n)

ClearsAll ==
    /\ job.does = "clear"
    /\ disk' = [disk EXCEPT ![job.name] = <<>>]
    /\ job' = Idle
    /\ UNCHANGED mapChanged
    /\ Settles
    /\ UNCHANGED <<running, starts, keysMade, draftsMap, notRead, mapTimer, cleaner, wanted>>

\* _readMap() and ClearLegacyFiles(): a map that cannot be read is replaced.
Start ==
    /\ ~running /\ starts < MaxStarts
    /\ running' = TRUE /\ starts' = starts + 1
    /\ mapTimer' = FALSE
    /\ IF CanRead(disk[MapName])
       THEN /\ draftsMap' = Content(disk[MapName])
            /\ disk' = [disk EXCEPT ![MapName] = AfterRead(@)]
            /\ mapChanged' = FALSE /\ job' = Idle
       ELSE /\ draftsMap' = NoDrafts
            /\ mapChanged' = TRUE
            /\ Opens(MapName, NoDrafts)
    /\ notRead' = DOMAIN draftsMap'
    /\ cleaner' = Listing
    /\ wanted' = [p \in Peers |-> Found(p)]
    /\ recent' = [p \in Peers |-> {Found(p)}]
    /\ UNCHANGED keysMade

\* The program is killed.
Crash ==
    /\ running /\ running' = FALSE
    /\ job' = Idle /\ cleaner' = Asleep
    /\ draftsMap' = NoDrafts /\ notRead' = {}
    /\ mapChanged' = FALSE /\ mapTimer' = FALSE
    /\ UNCHANGED <<disk, starts, keysMade, pastVars>>

\* readDraftsWithCursors()
ReadDraft(p) ==
    /\ Sync /\ p \in notRead
    /\ notRead' = notRead \ {p}
    /\ LET k == draftsMap[p] IN
       IF CanRead(disk[k])
       THEN /\ disk' = [disk EXCEPT ![k] = AfterRead(@)]
            /\ UNCHANGED <<draftsMap, job>>
       ELSE /\ Clears(k)
            /\ draftsMap' = [q \in DOMAIN draftsMap \ {p} |-> draftsMap[q]]
    /\ UNCHANGED <<running, starts, keysMade, mapChanged, mapTimer, cleaner, pastVars>>

MayWrite(p) == Sync /\ (p \in notRead => WritesUnread)

\* writeDrafts(), in a file that the map knows ...
WriteDraft(p, t) ==
    /\ MayWrite(p) /\ p \in DOMAIN draftsMap
    /\ Opens(draftsMap[p], t)
    /\ notRead' = notRead \ {p}
    /\ Wants(p, t)
    /\ UNCHANGED <<running, starts, keysMade, draftsMap, mapChanged, mapTimer, cleaner>>

\* ... in a new one, with a timer set for the map ...
WriteNewDraft(p, t) ==
    /\ MayWrite(p) /\ p \notin DOMAIN draftsMap /\ keysMade < MaxKeys
    /\ keysMade' = keysMade + 1
    /\ draftsMap' = [q \in DOMAIN draftsMap \cup {p} |-> IF q = p THEN keysMade' ELSE draftsMap[q]]
    /\ mapChanged' = TRUE /\ mapTimer' = TRUE
    /\ Opens(keysMade', t)
    /\ Wants(p, t)
    /\ UNCHANGED <<running, starts, notRead, cleaner>>

\* ... or an empty one: the file is removed.
RemoveDraft(p) ==
    /\ MayWrite(p) /\ p \in DOMAIN draftsMap
    /\ Clears(draftsMap[p])
    /\ draftsMap' = [q \in DOMAIN draftsMap \ {p} |-> draftsMap[q]]
    /\ mapChanged' = TRUE /\ mapTimer' = TRUE
    /\ notRead' = notRead \ {p}
    /\ Wants(p, None)
    /\ UNCHANGED <<running, starts, keysMade, cleaner>>

\* Manager::mapWriteTimeout(), finish() at the exit included.
MapWriteTimeout ==
    /\ Sync /\ mapTimer /\ mapChanged
    /\ mapTimer' = FALSE
    /\ Opens(MapName, draftsMap)
    /\ UNCHANGED <<running, starts, keysMade, draftsMap, notRead, mapChanged, cleaner, pastVars>>

-----------------------------------------------------------------------------
(* ClearLegacyFiles(): the thread lists the files, asks the main thread which   *)
(* of them are good, and removes the others.                                    *)

CleanerStep(then) ==
    /\ running /\ cleaner' = then
    /\ UNCHANGED <<running, starts, keysMade, mapVars, job, pastVars>>

\* (Variant: the drafts that were not read yet are forgotten.)
NamesInUse == {MapName} \cup {draftsMap[p] : p \in DOMAIN draftsMap \ notRead}
GoodNames == {MapName} \cup {draftsMap[p] : p \in DOMAIN draftsMap}
Present   == {n \in Names : disk[n] # <<>>}

CleanerLists ==
    /\ cleaner = Listing
    /\ CleanerStep(Listed(Present))
    /\ UNCHANGED disk
CollectGoodNames ==
    /\ cleaner.does = "ask" /\ job = Idle
    /\ CleanerStep(Removing(cleaner.files \ GoodNames))
    /\ UNCHANGED disk
CleanerRemoves ==
    /\ cleaner.does = "remove"
    /\ \E n \in cleaner.files :
           /\ disk' = [disk EXCEPT ![n] = <<>>]
           /\ CleanerStep(Removing(cleaner.files \ {n}))

-----------------------------------------------------------------------------
DraftStep ==
    \/ \E p \in Peers : ReadDraft(p) \/ RemoveDraft(p)
    \/ \E p \in Peers, t \in Texts : WriteDraft(p, t) \/ WriteNewDraft(p, t)

FileStep == Completes \/ Closes \/ ClearsAll \/ MapWriteTimeout

CleanUpStep == CleanerLists \/ CollectGoodNames \/ CleanerRemoves

Next == Start \/ Crash \/ DraftStep \/ FileStep \/ CleanUpStep

Spec == Init /\ [][Next]_vars

-----------------------------------------------------------------------------
(* What is promised.                                                            *)

\* A map that can be read stays one, whatever is killed how often: without it the
\* start makes an empty one and has all other files removed (readMap,
\* localstorage.cpp:2941).
MapIsNeverLost == [][CanRead(disk[MapName]) => CanRead(disk'[MapName])]_vars

\* When no file is being written and the map is up to date, a start after a
\* crash finds each draft as the user left it (writeDrafts, 2961; _writeMap,
\* 2466), and the removal of other files spares it (CollectGoodNames, 2894).
SettledIsDurable == Sync /\ ~mapChanged => \A p \in Peers : Found(p) = wanted[p]

\* At any moment a start after a crash finds a draft the user had since the last
\* time nothing was left to write (init, 240; finish, 313; readFile, 335).
FindsRecent == \A p \in Peers : Found(p) \in recent[p]
=============================================================================
