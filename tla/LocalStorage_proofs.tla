------------------------ MODULE LocalStorage_proofs ------------------------
(* Proofs about LocalStorage, for any peers and texts, and however often the   *)
(* program starts and is killed: the map is never lost, and, if no draft is    *)
(* written before the old one was read, neither is a draft.                    *)
EXTENDS LocalStorage, SequenceTheorems, TLAPS

Copy  == [good : BOOLEAN, holds : Maps \cup Texts \cup {None}]
Files == {f \in Seq(Copy) : Len(f) <= 2}

\* What a read finds.
Now(f)  == IF CanRead(f) THEN Content(f) ELSE None
Last(f) == f[Len(f)]

-----------------------------------------------------------------------------
(* Sequences of one and of two elements.                                       *)

LEMMA Pair ==
    ASSUME NEW S, NEW a \in S, NEW b \in S
    PROVE  <<a>> \o <<b>> = <<a, b>>
<1>1. <<a>> \in Seq(S) /\ <<b>> \in Seq(S) /\ <<a, b>> \in Seq(S)
    OBVIOUS
<1>2. Len(<<a>> \o <<b>>) = 2 /\ Len(<<a, b>>) = 2
    BY <1>1
<1>3. \A i \in 1 .. 2 : (<<a>> \o <<b>>)[i] = <<a, b>>[i]
    BY <1>1
<1>4. <<a>> \o <<b>> \in Seq(S)
    BY <1>1, ConcatProperties
<1>5. \A i \in 1 .. Len(<<a>> \o <<b>>) : (<<a>> \o <<b>>)[i] = <<a, b>>[i]
    BY <1>2, <1>3
<1>6. Len(<<a>> \o <<b>>) = Len(<<a, b>>)
    BY <1>2
<1>7. QED
    BY <1>1, <1>4, <1>5, <1>6, SeqEqual

LEMMA OneElement ==
    ASSUME NEW S, NEW f \in Seq(S), Len(f) = 1
    PROVE  f = <<f[1]>> /\ Head(f) = f[1] /\ Tail(f) = <<>>
<1>1. f[1] \in S /\ <<f[1]>> \in Seq(S)
    OBVIOUS
<1>2. f = <<f[1]>>
    BY <1>1, SeqEqual
<1>3. Tail(f) \in Seq(S) /\ Len(Tail(f)) = 0
    OBVIOUS
<1>4. Tail(f) = <<>>
    BY <1>3, EmptySeq
<1>5. Head(f) = f[1]
    BY DEF Head
<1>6. QED
    BY <1>2, <1>4, <1>5

LEMMA TwoElements ==
    ASSUME NEW S, NEW f \in Seq(S), Len(f) = 2
    PROVE  Head(f) = f[1] /\ Tail(f) = <<f[2]>>
<1>1. f[1] \in S /\ f[2] \in S
    BY ElementOfSeq
<1>2. Tail(f) \in Seq(S) /\ Len(Tail(f)) = 1 /\ Tail(f)[1] = f[2]
    BY HeadTailProperties
<1>3. ASSUME NEW t \in Seq(S), Len(t) = 1, t[1] = f[2]
      PROVE  t = <<f[2]>>
    BY <1>3, OneElement
<1>4. Tail(f) \in Seq(S)
    BY <1>2
<1>5. Tail(f) = <<f[2]>>
    BY <1>2, <1>3, <1>4
<1>6. Head(f) = f[1]
    BY DEF Head
<1>7. QED
    BY <1>5, <1>6

-----------------------------------------------------------------------------
(* What the operations do to one file.                                         *)

LEMMA Shape ==
    ASSUME NEW f \in Files
    PROVE  /\ f \in Seq(Copy)
           /\ Len(f) \in {0, 1, 2} /\ DOMAIN f = 1 .. Len(f)
           /\ \A i \in DOMAIN f : f[i] \in Copy
<1>1. f \in Seq(Copy) /\ Len(f) <= 2
    BY DEF Files
<1>2. Len(f) \in Nat /\ DOMAIN f = 1 .. Len(f)
    BY <1>1
<1>3. Len(f) \in {0, 1, 2}
    BY <1>1, <1>2
<1>4. \A i \in DOMAIN f : f[i] \in Copy
    BY <1>1, <1>2
<1>5. QED
    BY <1>1, <1>2, <1>3, <1>4

LEMMA NewestFacts ==
    ASSUME NEW f \in Files, CanRead(f)
    PROVE  /\ Newest(f) \in DOMAIN f /\ f[Newest(f)].good
           /\ \A j \in DOMAIN f : j > Newest(f) => ~f[j].good
<1>1. DOMAIN f = 1 .. Len(f) /\ Len(f) \in {0, 1, 2}
    BY Shape
<1>2. \E i \in DOMAIN f : f[i].good /\ \A j \in DOMAIN f : j > i => ~f[j].good
    <2>1. CASE 2 \in DOMAIN f /\ f[2].good
        BY <1>1, <2>1
    <2>2. CASE ~(2 \in DOMAIN f /\ f[2].good)
        BY <1>1, <2>2 DEF CanRead
    <2>3. QED
        BY <2>1, <2>2
<1>3. QED
    BY <1>2 DEF Newest

\* There is only one newest copy.
LEMMA NewestIs ==
    ASSUME NEW f \in Files, NEW i \in DOMAIN f, f[i].good,
           \A j \in DOMAIN f : j > i => ~f[j].good
    PROVE  CanRead(f) /\ Newest(f) = i /\ Content(f) = f[i].holds
<1>1. DOMAIN f = 1 .. Len(f) /\ Len(f) \in {0, 1, 2}
    BY Shape
<1>2. CanRead(f)
    BY DEF CanRead
<1>3. Newest(f) = i
    BY <1>1, <1>2, NewestFacts
<1>4. QED
    BY <1>2, <1>3 DEF Content

LEMMA ContentType ==
    ASSUME NEW f \in Files, CanRead(f)
    PROVE  Content(f) \in Maps \cup Texts \cup {None}
BY NewestFacts, Shape DEF Content, Copy

LEMMA CopyTypes ==
    ASSUME NEW c \in Maps \cup Texts \cup {None}
    PROVE  /\ Good(c) \in Copy /\ Good(c).good /\ Good(c).holds = c
           /\ Torn \in Copy /\ ~Torn.good
BY DEF Good, Torn, Copy

\* One copy that is good.
LEMMA SingleFacts ==
    ASSUME NEW c \in Maps \cup Texts \cup {None}
    PROVE  /\ <<Good(c)>> \in Files /\ CanRead(<<Good(c)>>)
           /\ Content(<<Good(c)>>) = c /\ Len(<<Good(c)>>) = 1
<1>1. <<Good(c)>> \in Files
    BY CopyTypes DEF Files
<1>2. QED
    BY <1>1, NewestIs, CopyTypes

LEMMA AfterReadFacts ==
    ASSUME NEW f \in Files
    PROVE  /\ AfterRead(f) \in Files /\ CanRead(AfterRead(f)) = CanRead(f)
           /\ CanRead(f) => Content(AfterRead(f)) = Content(f) /\ Len(AfterRead(f)) = 1
                            /\ AfterRead(f) = <<Good(Content(f))>>
<1>1. CASE CanRead(f)
    <2>1. AfterRead(f) = <<Good(Content(f))>>
        BY <1>1 DEF AfterRead
    <2>2. QED
        BY <1>1, <2>1, ContentType, SingleFacts
<1>2. CASE ~CanRead(f)
    BY <1>2 DEF AfterRead
<1>3. QED
    BY <1>1, <1>2

LEMMA OpenedFacts ==
    ASSUME NEW f \in Files
    PROVE  /\ Opened(f) \in Files /\ Opened(f) # <<>> /\ ~Last(Opened(f)).good
           /\ CanRead(Opened(f)) => CanRead(f)
           /\ Len(f) <= 1 /\ CanRead(f) => CanRead(Opened(f)) /\ Content(Opened(f)) = Content(f)
           /\ \A i \in DOMAIN Opened(f) : Opened(f)[i].good => \E j \in DOMAIN f : Opened(f)[i] = f[j]
<1>1. DOMAIN f = 1 .. Len(f) /\ Len(f) \in {0, 1, 2} /\ f \in Seq(Copy) /\ Torn \in Copy /\ ~Torn.good
    BY Shape, CopyTypes DEF Torn
<1>2. CASE Len(f) = 2
    <2>1. Opened(f) = <<f[2], Torn>>
        BY <1>1, <1>2, Pair DEF Opened
    <2>2. QED
        BY <1>1, <1>2, <2>1 DEF Files, CanRead, Last
<1>3. CASE Len(f) = 1
    <2>0. f = <<f[1]>> /\ f[1] \in Copy
        <3>1. f = <<f[1]>>
            BY <1>1, <1>3, OneElement
        <3>2. 1 \in DOMAIN f
            BY <1>1, <1>3
        <3>3. f[1] \in Copy
            BY <3>2, Shape
        <3>4. QED
            BY <3>1, <3>3
    <2>1. Opened(f) = <<f[1], Torn>>
        <3>1. <<f[1]>> \o <<Torn>> = <<f[1], Torn>>
            BY <1>1, <2>0, Pair
        <3>2. Opened(f) = f \o <<Torn>>
            BY <1>3 DEF Opened
        <3>3. QED
            BY <2>0, <3>1, <3>2
    <2>2. Opened(f) \in Files /\ DOMAIN Opened(f) = 1 .. 2
        BY <1>1, <1>3, <2>1 DEF Files
    <2>3. CASE CanRead(f)
        <3>1. f[1].good
            BY <1>1, <1>3, <2>3 DEF CanRead
        <3>2. Content(f) = f[1].holds /\ CanRead(Opened(f)) /\ Content(Opened(f)) = f[1].holds
            BY <1>1, <1>3, <2>1, <2>2, <3>1, NewestIs
        <3>3. QED
            BY <1>1, <1>3, <2>1, <2>2, <2>3, <3>2 DEF Last
    <2>4. CASE ~CanRead(f)
        BY <1>1, <1>3, <2>1, <2>2, <2>4 DEF Last, CanRead
    <2>5. QED
        BY <2>3, <2>4
<1>4. CASE Len(f) = 0
    <2>1. Opened(f) = <<Torn>>
        BY <1>1, <1>4 DEF Opened
    <2>2. QED
        BY <1>1, <1>4, <2>1 DEF Files, CanRead, Last
<1>5. QED
    BY <1>1, <1>2, <1>3, <1>4

LEMMA CompletedFacts ==
    ASSUME NEW f \in Files, f # <<>>, NEW c \in Maps \cup Texts \cup {None}
    PROVE  /\ Completed(f, c) \in Files /\ Completed(f, c) # <<>>
           /\ Last(Completed(f, c)) = Good(c)
           /\ CanRead(Completed(f, c)) /\ Content(Completed(f, c)) = c
           /\ \A i \in DOMAIN Completed(f, c) :
                Completed(f, c)[i] = Good(c) \/ (i \in DOMAIN f /\ Completed(f, c)[i] = f[i])
<1> DEFINE g == Completed(f, c)
<1>0. f \in Seq(Copy) /\ Len(f) # 0
    BY Shape
<1>1. DOMAIN f = 1 .. Len(f) /\ Len(f) \in {1, 2} /\ f \in Seq(Copy) /\ Good(c) \in Copy /\ Good(c).good /\ Good(c).holds = c
    BY Shape, CopyTypes, <1>0
<1>2. g \in Seq(Copy) /\ Len(g) = Len(f) /\ g[Len(f)] = Good(c) /\ DOMAIN g = DOMAIN f
    BY <1>1 DEF Completed
<1>3. g \in Files /\ Len(f) \in DOMAIN g
    BY <1>1, <1>2 DEF Files
<1>4. CanRead(g) /\ Content(g) = c
    BY <1>1, <1>2, <1>3, NewestIs
<1>5. \A i \in DOMAIN g : g[i] = Good(c) \/ g[i] = f[i]
    BY <1>1, <1>2 DEF Completed
<1>6. g # <<>>
    BY <1>1, <1>2
<1>7. QED
    BY <1>2, <1>3, <1>4, <1>5, <1>6 DEF Last

LEMMA ClosedFacts ==
    ASSUME NEW f \in Files, f # <<>>, Last(f).good
    PROVE  /\ CanRead(f) /\ Content(f) = Last(f).holds
           /\ Closed(f) \in Files /\ Len(Closed(f)) = 1
           /\ CanRead(Closed(f)) /\ Content(Closed(f)) = Last(f).holds
           /\ \A i \in DOMAIN Closed(f) : Closed(f)[i] = Last(f)
<1>0. f \in Seq(Copy) /\ Len(f) # 0
    BY Shape
<1>1. DOMAIN f = 1 .. Len(f) /\ Len(f) \in {1, 2}
    BY Shape, <1>0
<1>2. Len(f) \in DOMAIN f /\ \A j \in DOMAIN f : ~(j > Len(f))
    BY <1>1
<1>3. CanRead(f) /\ Content(f) = Last(f).holds
    BY <1>1, <1>2, NewestIs DEF Last
<1>4. Last(f) \in Copy
    BY <1>2, Shape DEF Last
<1>5. Closed(f) = <<Last(f)>>
    BY DEF Closed, Last
<1>6. <<Last(f)>> \in Files
    BY <1>4 DEF Files
<1>7. CanRead(Closed(f)) /\ Content(Closed(f)) = Last(f).holds
    BY <1>5, <1>6, NewestIs
<1>8. QED
    BY <1>3, <1>5, <1>6, <1>7

\* What is left of a file after one of its names was removed.
LEMMA LessFacts ==
    ASSUME NEW f \in Files, f # <<>>, NEW g \in {Tail(f), <<Head(f)>>}
    PROVE  /\ g \in Files
           /\ CanRead(g) => CanRead(f)
           /\ Len(f) <= 1 => Now(g) \in {Now(f), None}
<1>0. f \in Seq(Copy) /\ Len(f) # 0
    BY Shape
<1>1. DOMAIN f = 1 .. Len(f) /\ Len(f) \in {1, 2} /\ f \in Seq(Copy) /\ \A i \in DOMAIN f : f[i] \in Copy
    BY Shape, <1>0
<1>2. CASE Len(f) = 1
    <2>1. f = <<f[1]>> /\ Head(f) = f[1] /\ Tail(f) = <<>>
        BY <1>1, <1>2, OneElement
    <2>2. CASE g = f
        BY <2>2
    <2>3. CASE g = <<>>
        <3>1. g \in Files /\ ~CanRead(g)
            BY <2>3 DEF Files, CanRead
        <3>2. QED
            BY <3>1 DEF Now
    <2>4. QED
        BY <2>1, <2>2, <2>3
<1>3. CASE Len(f) = 2
    <2>1. (g = <<f[1]>> \/ g = <<f[2]>>) /\ f[1] \in Copy /\ f[2] \in Copy
        <3>1. Head(f) = f[1] /\ Tail(f) = <<f[2]>>
            BY <1>1, <1>3, TwoElements
        <3>2. f[1] \in Copy /\ f[2] \in Copy
            BY <1>1, <1>3, ElementOfSeq
        <3>3. QED
            BY <3>1, <3>2
    <2>2. g \in Files /\ (CanRead(g) => CanRead(f))
        BY <1>1, <1>3, <2>1 DEF Files, CanRead
    <2>3. QED
        BY <1>3, <2>2
<1>4. QED
    BY <1>1, <1>2, <1>3

-----------------------------------------------------------------------------
(* Maps, and the records of the main thread and of the cleaner.                *)

\* A map of drafts whose files are different, and were made.
MapOf(m, n) ==
    /\ m \in Maps
    /\ \A p, q \in DOMAIN m : m[p] = m[q] => p = q
    /\ \A p \in DOMAIN m : m[p] <= n

LEMMA MapFacts ==
    ASSUME NEW m, NEW n \in Nat, MapOf(m, n)
    PROVE  /\ DOMAIN m \subseteq Peers
           /\ \A p \in DOMAIN m : m[p] \in Keys /\ m[p] \in 1 .. n
<1>1. PICK S \in SUBSET Peers : m \in [S -> Keys]
    BY DEF MapOf, Maps
<1>2. QED
    BY <1>1, ConstantsAssumption DEF MapOf, Keys

LEMMA NoDraftsIsMap ==
    ASSUME NEW n \in Nat
    PROVE  MapOf(NoDrafts, n)
<1>1. NoDrafts \in [{} -> Keys] /\ DOMAIN NoDrafts = {}
    BY DEF NoDrafts
<1>2. NoDrafts \in Maps
    BY <1>1 DEF Maps
<1>3. QED
    BY <1>1, <1>2 DEF MapOf

LEMMA MapWithout ==
    ASSUME NEW m, NEW n \in Nat, MapOf(m, n), NEW p
    PROVE  MapOf([q \in DOMAIN m \ {p} |-> m[q]], n)
<1> DEFINE w == [q \in DOMAIN m \ {p} |-> m[q]]
<1>1. w \in [DOMAIN m \ {p} -> Keys] /\ DOMAIN m \ {p} \in SUBSET Peers
    BY MapFacts
<1>2. w \in Maps
    BY <1>1 DEF Maps
<1>3. QED
    BY <1>2 DEF MapOf

LEMMA MapWith ==
    ASSUME NEW m, NEW n \in Nat, MapOf(m, n), NEW p \in Peers, p \notin DOMAIN m, n + 1 \in Keys
    PROVE  MapOf([q \in DOMAIN m \cup {p} |-> IF q = p THEN n + 1 ELSE m[q]], n + 1)
<1> DEFINE w == [q \in DOMAIN m \cup {p} |-> IF q = p THEN n + 1 ELSE m[q]]
<1>1. w \in [DOMAIN m \cup {p} -> Keys] /\ DOMAIN m \cup {p} \in SUBSET Peers
    BY MapFacts
<1>2. w \in Maps
    BY <1>1 DEF Maps
<1>3. \A q \in DOMAIN m : m[q] \in Nat /\ m[q] # n + 1 /\ m[q] <= n + 1
    BY MapFacts
<1>4. \A q, r \in DOMAIN m : m[q] = m[r] => q = r
    BY DEF MapOf
<1>5. DOMAIN w = DOMAIN m \cup {p} /\ w[p] = n + 1 /\ \A q \in DOMAIN m : w[q] = m[q]
    OBVIOUS
<1>6. \A q, r \in DOMAIN w : w[q] = w[r] => q = r
    BY <1>3, <1>4, <1>5
<1>7. \A q \in DOMAIN w : w[q] <= n + 1
    BY <1>3, <1>5
<1>8. QED
    BY <1>2, <1>6, <1>7 DEF MapOf

LEMMA MapLater ==
    ASSUME NEW m, NEW n \in Nat, MapOf(m, n)
    PROVE  MapOf(m, n + 1)
<1>1. \A p \in DOMAIN m : m[p] \in 1 .. n
    BY MapFacts
<1>2. QED
    BY <1>1 DEF MapOf

LEMMA JobFacts ==
    ASSUME NEW n, NEW c
    PROVE  /\ Idle.does = "nothing"
           /\ Writing(n, c).does = "write" /\ Writing(n, c).name = n /\ Writing(n, c).content = c
           /\ Written(n).does = "close" /\ Written(n).name = n
           /\ Clearing(n).does = "clear" /\ Clearing(n).name = n
BY DEF Idle, Writing, Written, Clearing

LEMMA CleanerFacts ==
    ASSUME NEW S
    PROVE  /\ Asleep.does = "nothing" /\ Listing.does = "list"
           /\ Listed(S).does = "ask" /\ Listed(S).files = S
           /\ Removing(S).does = "remove" /\ Removing(S).files = S
BY DEF Asleep, Listing, Listed, Removing

-----------------------------------------------------------------------------
(* The files, whatever is written into which of them.                          *)

MapThere == CanRead(disk[MapName])
SavedMap == Content(disk[MapName])
Uses(k)  == \E p \in DOMAIN draftsMap : draftsMap[p] = k

\* Only files of keys that were made exist, and every good copy of the map is one
\* of such files.
FilesInv ==
    /\ keysMade \in 0 .. MaxKeys
    /\ disk \in [Names -> Files]
    /\ \A k \in Keys : k > keysMade => disk[k] = <<>>
    /\ \A i \in DOMAIN disk[MapName] :
         disk[MapName][i].good => MapOf(disk[MapName][i].holds, keysMade)

MemoryInv ==
    /\ running \in BOOLEAN /\ mapChanged \in BOOLEAN
    /\ MapOf(draftsMap, keysMade)
    /\ notRead \subseteq DOMAIN draftsMap
    /\ ~running => job = Idle /\ cleaner = Asleep

\* What the main thread is in the middle of belongs to the map or to a draft.
WritesMap ==
    /\ job = Writing(MapName, draftsMap)
    /\ mapChanged /\ disk[MapName] # <<>> /\ ~Last(disk[MapName]).good
ClosesMap ==
    /\ job = Written(MapName)
    /\ mapChanged /\ disk[MapName] # <<>> /\ Last(disk[MapName]) = Good(draftsMap)
OnDraft(p) ==
    /\ p \notin notRead
    /\ \/ \E t \in Texts : job = Writing(draftsMap[p], t) /\ disk[draftsMap[p]] # <<>>
       \/ job = Written(draftsMap[p]) /\ disk[draftsMap[p]] # <<>> /\ Last(disk[draftsMap[p]]).good
ClearsUnused == \E k \in 1 .. keysMade : job = Clearing(k) /\ ~Uses(k)

JobInv ==
    \/ job = Idle
    \/ ClearsUnused
    \/ WritesMap \/ ClosesMap
    \/ \E p \in DOMAIN draftsMap : OnDraft(p)

\* The map is one good copy, except while it is being written.
MapInv == running => WritesMap \/ ClosesMap \/ (MapThere /\ Len(disk[MapName]) = 1)

\* The thread removes no file that is used, now or later.
CleanerInv ==
    \/ cleaner = Asleep \/ cleaner = Listing
    \/ \E S \in SUBSET (0 .. keysMade) : cleaner = Listed(S)
    \/ \E S \in SUBSET (1 .. keysMade) : cleaner = Removing(S) /\ \A k \in S : ~Uses(k)

StoreInv == FilesInv /\ MemoryInv /\ JobInv /\ MapInv /\ CleanerInv

\* The map that is read was made by the program.
LEMMA SavedMapFacts ==
    ASSUME FilesInv, MapThere
    PROVE  MapOf(SavedMap, keysMade)
<1>1. disk[MapName] \in Files
    BY DEF FilesInv, Names
<1>2. QED
    BY <1>1, NewestFacts DEF FilesInv, MapThere, SavedMap, Content

LEMMA UsedKeys ==
    ASSUME StoreInv
    PROVE  /\ keysMade \in Nat /\ MaxKeys \in Nat /\ keysMade <= MaxKeys
           /\ MapName = 0 /\ Names = 0 .. MaxKeys /\ Keys = 1 .. MaxKeys
           /\ \A n \in Names : disk[n] \in Files
           /\ DOMAIN draftsMap \subseteq Peers
           /\ \A p \in DOMAIN draftsMap : draftsMap[p] \in 1 .. keysMade
           /\ \A p, q \in DOMAIN draftsMap : draftsMap[p] = draftsMap[q] => p = q
<1>1. keysMade \in Nat /\ MaxKeys \in Nat /\ keysMade <= MaxKeys
    BY ConstantsAssumption DEF StoreInv, FilesInv
<1>2. MapName = 0 /\ Names = 0 .. MaxKeys /\ Keys = 1 .. MaxKeys
    BY <1>1 DEF MapName, Names, Keys
<1>3. DOMAIN draftsMap \subseteq Peers /\ \A p \in DOMAIN draftsMap : draftsMap[p] \in 1 .. keysMade
    BY <1>1, MapFacts DEF StoreInv, MemoryInv
<1>4. \A p, q \in DOMAIN draftsMap : draftsMap[p] = draftsMap[q] => p = q
    BY DEF StoreInv, MemoryInv, MapOf
<1>5. \A n \in Names : disk[n] \in Files
    BY DEF StoreInv, FilesInv
<1>6. QED
    BY <1>1, <1>2, <1>3, <1>4, <1>5

LEMMA AtRest ==
    ASSUME StoreInv, Sync
    PROVE  MapThere /\ Len(disk[MapName]) = 1
BY JobFacts DEF StoreInv, MapInv, Sync, WritesMap, ClosesMap

\* Another content for the file of a draft: nothing else changes on disk.
LEMMA DraftFileStep ==
    ASSUME StoreInv, NEW k \in 1 .. keysMade, NEW g \in Files,
           disk' = [disk EXCEPT ![k] = g], keysMade' = keysMade
    PROVE  /\ FilesInv' /\ disk'[k] = g
           /\ \A n \in Names : n # k => disk'[n] = disk[n]
           /\ disk'[MapName] = disk[MapName] /\ MapThere' = MapThere
<1>1. k \in Names /\ k # MapName /\ MapName \in Names /\ ~(k > keysMade) /\ Keys \subseteq Names
    BY UsedKeys
<1>2. disk \in [Names -> Files]
    BY DEF StoreInv, FilesInv
<1>3. disk'[k] = g /\ \A n \in Names : n # k => disk'[n] = disk[n]
    BY <1>1, <1>2
<1>4. disk' \in [Names -> Files]
    BY <1>2
<1>5. disk'[MapName] = disk[MapName]
    BY <1>1, <1>3
<1>6. FilesInv'
    BY <1>1, <1>3, <1>4, <1>5 DEF StoreInv, FilesInv
<1>7. MapThere' = MapThere
    BY <1>5 DEF MapThere
<1>8. QED
    BY <1>3, <1>5, <1>6, <1>7

\* The same for the file of the map.
LEMMA MapFileStep ==
    ASSUME StoreInv, NEW g \in Files,
           \A i \in DOMAIN g : g[i].good => MapOf(g[i].holds, keysMade),
           disk' = [disk EXCEPT ![MapName] = g], keysMade' = keysMade
    PROVE  /\ FilesInv' /\ disk'[MapName] = g
           /\ \A n \in Keys : disk'[n] = disk[n]
<1>1. MapName \in Names /\ MapName \notin Keys /\ Keys \subseteq Names
    BY UsedKeys
<1>2. disk \in [Names -> Files]
    BY DEF StoreInv, FilesInv
<1>3. disk'[MapName] = g /\ \A n \in Keys : disk'[n] = disk[n]
    BY <1>1, <1>2
<1>4. disk' \in [Names -> Files]
    BY <1>2
<1>5. FilesInv'
    BY <1>1, <1>3, <1>4 DEF StoreInv, FilesInv
<1>6. QED
    BY <1>3, <1>5

\* Steps of the main thread leave the cleaner alone and use no more files of
\* those that were made.
LEMMA CleanerKept ==
    ASSUME StoreInv, cleaner' = cleaner, keysMade' = keysMade,
           \A k \in 1 .. keysMade : Uses(k)' => Uses(k)
    PROVE  CleanerInv'
BY DEF StoreInv, CleanerInv

-----------------------------------------------------------------------------
(* Every step keeps StoreInv.                                                  *)

LEMMA StartStore ==
    ASSUME StoreInv, Start
    PROVE  StoreInv'
<1>1. keysMade' = keysMade /\ running' = TRUE /\ cleaner' = Listing /\ notRead' = DOMAIN draftsMap'
    BY DEF Start
<1>2. CleanerInv'
    BY <1>1 DEF CleanerInv
<1>3. CASE MapThere
    <2>1. draftsMap' = SavedMap /\ disk' = [disk EXCEPT ![MapName] = AfterRead(@)]
          /\ mapChanged' = FALSE /\ job' = Idle
        BY <1>3 DEF Start, MapThere, SavedMap
    <2>2. disk[MapName] \in Files
        BY UsedKeys
    <2>3. MapOf(SavedMap, keysMade)
        BY <1>3, SavedMapFacts DEF StoreInv
    <2>4. /\ AfterRead(disk[MapName]) \in Files
          /\ AfterRead(disk[MapName]) = <<Good(SavedMap)>> /\ Len(AfterRead(disk[MapName])) = 1
          /\ CanRead(AfterRead(disk[MapName]))
        BY <1>3, <2>2, AfterReadFacts DEF MapThere, SavedMap
    <2>5. \A j \in DOMAIN <<Good(SavedMap)>> : <<Good(SavedMap)>>[j].holds = SavedMap
        BY DEF Good
    <2>6. FilesInv' /\ disk'[MapName] = AfterRead(disk[MapName])
        BY <1>1, <2>1, <2>3, <2>4, <2>5, MapFileStep
    <2>7. MemoryInv' /\ JobInv'
        BY <1>1, <2>1, <2>3 DEF MemoryInv, JobInv
    <2>8. MapInv'
        BY <2>4, <2>6 DEF MapInv, MapThere
    <2>9. QED
        BY <1>2, <2>6, <2>7, <2>8 DEF StoreInv
<1>4. CASE ~MapThere
    <2>1. draftsMap' = NoDrafts /\ disk' = [disk EXCEPT ![MapName] = Opened(@)]
          /\ mapChanged' = TRUE /\ job' = Writing(MapName, NoDrafts)
        BY <1>4 DEF Start, MapThere, Opens
    <2>2. disk[MapName] \in Files
        BY UsedKeys
    <2>3. MapOf(NoDrafts, keysMade)
        BY UsedKeys, NoDraftsIsMap
    <2>4. /\ Opened(disk[MapName]) \in Files /\ Opened(disk[MapName]) # <<>>
          /\ ~Last(Opened(disk[MapName])).good /\ ~CanRead(Opened(disk[MapName]))
        BY <1>4, <2>2, OpenedFacts DEF MapThere
    <2>5. \A j \in DOMAIN Opened(disk[MapName]) : ~Opened(disk[MapName])[j].good
        BY <2>4 DEF CanRead
    <2>6. FilesInv' /\ disk'[MapName] = Opened(disk[MapName])
        BY <1>1, <2>1, <2>4, <2>5, MapFileStep
    <2>7. WritesMap'
        BY <2>1, <2>4, <2>6 DEF WritesMap, MapName
    <2>8. MemoryInv' /\ JobInv' /\ MapInv'
        BY <1>1, <2>1, <2>3, <2>7 DEF MemoryInv, JobInv, MapInv
    <2>9. QED
        BY <1>2, <2>6, <2>8 DEF StoreInv
<1>5. QED
    BY <1>3, <1>4

LEMMA CrashStore ==
    ASSUME StoreInv, Crash
    PROVE  StoreInv'
<1>1. /\ disk' = disk /\ keysMade' = keysMade /\ running' = FALSE /\ job' = Idle
      /\ cleaner' = Asleep /\ draftsMap' = NoDrafts /\ notRead' = {} /\ mapChanged' = FALSE
    BY DEF Crash
<1>2. FilesInv'
    BY <1>1 DEF StoreInv, FilesInv
<1>3. MapOf(NoDrafts, keysMade)
    BY UsedKeys, NoDraftsIsMap
<1>4. MemoryInv' /\ JobInv' /\ MapInv' /\ CleanerInv'
    BY <1>1, <1>3 DEF MemoryInv, JobInv, MapInv, CleanerInv
<1>5. QED
    BY <1>2, <1>4 DEF StoreInv

LEMMA ClearsLess ==
    ASSUME StoreInv, NEW k \in 1 .. keysMade, Clears(k), keysMade' = keysMade
    PROVE  \E g \in Files :
             /\ disk' = [disk EXCEPT ![k] = g]
             /\ CanRead(g) => CanRead(disk[k])
             /\ Len(disk[k]) <= 1 => Now(g) \in {Now(disk[k]), None}
<1>1. k \in Names /\ disk[k] \in Files
    BY UsedKeys
<1>2. CASE disk[k] = <<>>
    <2>1. disk' = [disk EXCEPT ![k] = disk[k]]
        BY <1>2 DEF Clears
    <2>2. QED
        BY <1>1, <2>1
<1>3. CASE disk[k] # <<>>
    <2>1. disk' = [disk EXCEPT ![k] = Tail(disk[k])] \/ disk' = [disk EXCEPT ![k] = <<Head(disk[k])>>]
        BY <1>3 DEF Clears
    <2>2. QED
        BY <1>1, <1>3, <2>1, LessFacts
<1>4. QED
    BY <1>2, <1>3

LEMMA ReadDraftStore ==
    ASSUME StoreInv, NEW p \in Peers, ReadDraft(p)
    PROVE  StoreInv'
<1>0. PICK k : k = draftsMap[p]
    OBVIOUS
<1>1. /\ Sync /\ p \in DOMAIN draftsMap /\ notRead' = notRead \ {p}
      /\ running' = running /\ keysMade' = keysMade /\ mapChanged' = mapChanged /\ cleaner' = cleaner
    BY DEF ReadDraft, StoreInv, MemoryInv
<1>2. k \in 1 .. keysMade /\ k \in Keys /\ k \in Names /\ disk[k] \in Files
    BY <1>0, <1>1, UsedKeys
<1>3. MapThere /\ Len(disk[MapName]) = 1 /\ running /\ job = Idle
    BY <1>1, AtRest DEF Sync
<1>4. CASE CanRead(disk[k])
    <2>1. disk' = [disk EXCEPT ![k] = AfterRead(@)] /\ draftsMap' = draftsMap /\ job' = job
        BY <1>0, <1>4 DEF ReadDraft
    <2>2. AfterRead(disk[k]) \in Files
        BY <1>2, AfterReadFacts
    <2>3. FilesInv' /\ disk'[MapName] = disk[MapName] /\ MapThere' = MapThere
        BY <1>1, <1>2, <2>1, <2>2, DraftFileStep
    <2>4. MemoryInv' /\ JobInv'
        BY <1>1, <1>3, <2>1 DEF StoreInv, MemoryInv, JobInv
    <2>5. MapInv'
        BY <1>3, <2>3 DEF MapInv
    <2>6. CleanerInv'
        BY <1>1, <2>1, CleanerKept DEF Uses
    <2>7. QED
        BY <2>3, <2>4, <2>5, <2>6 DEF StoreInv
<1>5. CASE ~CanRead(disk[k])
    <2>1. Clears(k) /\ draftsMap' = [q \in DOMAIN draftsMap \ {p} |-> draftsMap[q]]
        BY <1>0, <1>5 DEF ReadDraft
    <2>2. PICK g \in Files : disk' = [disk EXCEPT ![k] = g]
        BY <1>1, <1>2, <2>1, ClearsLess
    <2>3. FilesInv' /\ disk'[MapName] = disk[MapName] /\ MapThere' = MapThere
        BY <1>1, <1>2, <2>2, DraftFileStep
    <2>4. MapOf(draftsMap', keysMade) /\ DOMAIN draftsMap' = DOMAIN draftsMap \ {p}
          /\ \A q \in DOMAIN draftsMap' : draftsMap'[q] = draftsMap[q]
        BY <2>1, UsedKeys, MapWithout DEF StoreInv, MemoryInv
    <2>5. ~Uses(k)' /\ \A n \in 1 .. keysMade : Uses(n)' => Uses(n)
        BY <1>0, <1>1, <2>4, UsedKeys DEF Uses
    <2>6. job' = Clearing(k)
        BY <2>1 DEF Clears
    <2>7. MemoryInv'
        BY <1>1, <1>3, <2>4 DEF StoreInv, MemoryInv
    <2>8. JobInv'
        BY <1>1, <1>2, <2>5, <2>6 DEF JobInv, ClearsUnused
    <2>9. MapInv' /\ CleanerInv'
        BY <1>1, <1>3, <2>3, <2>5, CleanerKept DEF MapInv
    <2>10. QED
        BY <2>3, <2>7, <2>8, <2>9 DEF StoreInv
<1>6. QED
    BY <1>4, <1>5

LEMMA RemoveDraftStore ==
    ASSUME StoreInv, NEW p \in Peers, RemoveDraft(p)
    PROVE  StoreInv'
<1>0. PICK k : k = draftsMap[p]
    OBVIOUS
<1>1. /\ Sync /\ p \in DOMAIN draftsMap /\ notRead' = notRead \ {p} /\ mapChanged' = TRUE
      /\ running' = running /\ keysMade' = keysMade /\ cleaner' = cleaner
      /\ Clears(k) /\ draftsMap' = [q \in DOMAIN draftsMap \ {p} |-> draftsMap[q]]
    BY <1>0 DEF RemoveDraft, MayWrite
<1>2. k \in 1 .. keysMade /\ k \in Keys
    BY <1>0, <1>1, UsedKeys
<1>3. MapThere /\ Len(disk[MapName]) = 1 /\ running /\ job = Idle
    BY <1>1, AtRest DEF Sync
<1>4. PICK g \in Files : disk' = [disk EXCEPT ![k] = g]
    BY <1>1, <1>2, ClearsLess
<1>5. FilesInv' /\ disk'[MapName] = disk[MapName] /\ MapThere' = MapThere
    BY <1>1, <1>2, <1>4, DraftFileStep
<1>6. MapOf(draftsMap', keysMade) /\ DOMAIN draftsMap' = DOMAIN draftsMap \ {p}
      /\ \A q \in DOMAIN draftsMap' : draftsMap'[q] = draftsMap[q]
    BY <1>1, UsedKeys, MapWithout DEF StoreInv, MemoryInv
<1>7. ~Uses(k)' /\ \A n \in 1 .. keysMade : Uses(n)' => Uses(n)
    BY <1>0, <1>1, <1>6, UsedKeys DEF Uses
<1>8. job' = Clearing(k)
    BY <1>1 DEF Clears
<1>9. MemoryInv'
    BY <1>1, <1>3, <1>6 DEF StoreInv, MemoryInv
<1>10. JobInv'
    BY <1>1, <1>2, <1>7, <1>8 DEF JobInv, ClearsUnused
<1>11. MapInv' /\ CleanerInv'
    BY <1>1, <1>3, <1>5, <1>7, CleanerKept DEF MapInv
<1>12. QED
    BY <1>5, <1>9, <1>10, <1>11 DEF StoreInv

LEMMA WriteDraftStore ==
    ASSUME StoreInv, NEW p \in Peers, NEW t \in Texts, WriteDraft(p, t)
    PROVE  StoreInv'
<1> DEFINE k == draftsMap[p]
<1>1. /\ Sync /\ p \in DOMAIN draftsMap /\ notRead' = notRead \ {p} /\ mapChanged' = mapChanged
      /\ running' = running /\ keysMade' = keysMade /\ cleaner' = cleaner /\ draftsMap' = draftsMap
      /\ disk' = [disk EXCEPT ![k] = Opened(@)] /\ job' = Writing(k, t)
    BY DEF WriteDraft, MayWrite, Opens
<1>2. k \in 1 .. keysMade /\ disk[k] \in Files
    BY <1>1, UsedKeys
<1>3. MapThere /\ Len(disk[MapName]) = 1 /\ running
    BY <1>1, AtRest DEF Sync
<1>4. Opened(disk[k]) \in Files /\ Opened(disk[k]) # <<>>
    BY <1>2, OpenedFacts
<1>5. FilesInv' /\ disk'[MapName] = disk[MapName] /\ MapThere' = MapThere /\ disk'[k] = Opened(disk[k])
    BY <1>1, <1>2, <1>4, DraftFileStep
<1>6. MemoryInv'
    BY <1>1, <1>3 DEF StoreInv, MemoryInv
<1>7. OnDraft(p)'
    BY <1>1, <1>4, <1>5 DEF OnDraft
<1>8. JobInv' /\ MapInv'
    BY <1>1, <1>3, <1>5, <1>7 DEF JobInv, MapInv
<1>9. CleanerInv'
    BY <1>1, CleanerKept DEF Uses
<1>10. QED
    BY <1>5, <1>6, <1>8, <1>9 DEF StoreInv

LEMMA WriteNewDraftStore ==
    ASSUME StoreInv, NEW p \in Peers, NEW t \in Texts, WriteNewDraft(p, t)
    PROVE  StoreInv'
<1>0. PICK k : k = keysMade + 1
    OBVIOUS
<1>1. /\ Sync /\ p \notin DOMAIN draftsMap /\ notRead' = notRead /\ mapChanged' = TRUE
      /\ running' = running /\ keysMade' = k /\ keysMade < MaxKeys /\ cleaner' = cleaner
      /\ draftsMap' = [q \in DOMAIN draftsMap \cup {p} |-> IF q = p THEN k ELSE draftsMap[q]]
      /\ disk' = [disk EXCEPT ![k] = Opened(@)] /\ job' = Writing(k, t)
    BY <1>0 DEF WriteNewDraft, MayWrite, Opens
<1>2. keysMade \in Nat /\ k \in Nat /\ k \in Keys /\ k \in Names /\ k # MapName /\ MapName \in Names
    BY <1>0, <1>1, UsedKeys
<1>3. MapThere /\ Len(disk[MapName]) = 1 /\ running /\ job = Idle
    BY <1>1, AtRest DEF Sync
<1>4. disk \in [Names -> Files] /\ disk[k] \in Files
    BY <1>2 DEF StoreInv, FilesInv
<1>5. Opened(disk[k]) \in Files /\ Opened(disk[k]) # <<>>
    BY <1>4, OpenedFacts
<1>6. /\ disk' \in [Names -> Files] /\ disk'[k] = Opened(disk[k])
      /\ \A n \in Names : n # k => disk'[n] = disk[n]
    BY <1>1, <1>2, <1>4, <1>5
<1>7. disk'[MapName] = disk[MapName]
    BY <1>2, <1>6
<1>8. FilesInv'
    <2>1. keysMade' \in 0 .. MaxKeys
        BY <1>1, <1>2, UsedKeys
    <2>2. \A n \in Keys : n > keysMade' => disk'[n] = <<>>
        BY <1>0, <1>1, <1>2, <1>6, UsedKeys DEF StoreInv, FilesInv
    <2>3. ASSUME NEW i \in DOMAIN disk'[MapName], disk'[MapName][i].good
          PROVE  MapOf(disk'[MapName][i].holds, keysMade')
        BY <1>0, <1>1, <1>2, <1>7, <2>3, MapLater DEF StoreInv, FilesInv
    <2>4. QED
        BY <1>6, <2>1, <2>2, <2>3 DEF FilesInv
<1>9. MapOf(draftsMap', keysMade')
    BY <1>0, <1>1, <1>2, MapWith DEF StoreInv, MemoryInv
<1>10. MemoryInv'
    BY <1>1, <1>3, <1>9 DEF StoreInv, MemoryInv
<1>11. p \in DOMAIN draftsMap' /\ draftsMap'[p] = k /\ p \notin notRead'
    BY <1>1 DEF StoreInv, MemoryInv
<1>12. OnDraft(p)'
    BY <1>1, <1>5, <1>6, <1>11 DEF OnDraft
<1>13. JobInv' /\ MapInv'
    BY <1>1, <1>3, <1>7, <1>11, <1>12 DEF JobInv, MapInv, MapThere
<1>14. \A n \in 1 .. keysMade : Uses(n)' => Uses(n)
    BY <1>0, <1>1, <1>2 DEF Uses
<1>15. CleanerInv'
    <2>1. CASE cleaner = Asleep \/ cleaner = Listing
        BY <1>1, <2>1 DEF CleanerInv
    <2>2. CASE \E S \in SUBSET (0 .. keysMade) : cleaner = Listed(S)
        <3>1. 0 .. keysMade \subseteq 0 .. keysMade'
            BY <1>0, <1>1, <1>2
        <3>2. QED
            BY <1>1, <2>2, <3>1 DEF CleanerInv
    <2>3. CASE \E S \in SUBSET (1 .. keysMade) : cleaner = Removing(S) /\ \A n \in S : ~Uses(n)
        <3>1. PICK S \in SUBSET (1 .. keysMade) : cleaner = Removing(S) /\ \A n \in S : ~Uses(n)
            BY <2>3
        <3>2. S \in SUBSET (1 .. keysMade')
            BY <1>0, <1>1, <1>2
        <3>3. \A n \in S : ~Uses(n)'
            BY <1>14, <3>1
        <3>4. QED
            BY <1>1, <3>1, <3>2, <3>3 DEF CleanerInv
    <2>4. QED
        BY <2>1, <2>2, <2>3 DEF StoreInv, CleanerInv
<1>16. QED
    BY <1>8, <1>10, <1>13, <1>15 DEF StoreInv

LEMMA MapWriteTimeoutStore ==
    ASSUME StoreInv, MapWriteTimeout
    PROVE  StoreInv'
<1>1. /\ Sync /\ mapChanged /\ notRead' = notRead /\ mapChanged' = mapChanged
      /\ running' = running /\ keysMade' = keysMade /\ cleaner' = cleaner /\ draftsMap' = draftsMap
      /\ disk' = [disk EXCEPT ![MapName] = Opened(@)] /\ job' = Writing(MapName, draftsMap)
    BY DEF MapWriteTimeout, Opens
<1>2. running
    BY <1>1 DEF Sync
<1>3. disk[MapName] \in Files
    BY UsedKeys
<1>4. /\ Opened(disk[MapName]) \in Files /\ Opened(disk[MapName]) # <<>>
      /\ ~Last(Opened(disk[MapName])).good
    BY <1>3, OpenedFacts
<1>5. \A i \in DOMAIN Opened(disk[MapName]) :
         Opened(disk[MapName])[i].good => MapOf(Opened(disk[MapName])[i].holds, keysMade)
    BY <1>3, OpenedFacts DEF StoreInv, FilesInv
<1>6. FilesInv' /\ disk'[MapName] = Opened(disk[MapName])
    BY <1>1, <1>4, <1>5, MapFileStep
<1>7. WritesMap'
    BY <1>1, <1>4, <1>6 DEF WritesMap, MapName
<1>8. MemoryInv'
    BY <1>1, <1>2 DEF StoreInv, MemoryInv
<1>9. CleanerInv'
    BY <1>1, CleanerKept DEF Uses
<1>10. QED
    BY <1>6, <1>7, <1>8, <1>9 DEF StoreInv, JobInv, MapInv

LEMMA CompletesStore ==
    ASSUME StoreInv, Completes
    PROVE  StoreInv'
<1>1. /\ job.does = "write" /\ disk' = [disk EXCEPT ![job.name] = Completed(@, job.content)]
      /\ job' = Written(job.name)
      /\ running' = running /\ keysMade' = keysMade /\ draftsMap' = draftsMap
      /\ notRead' = notRead /\ mapChanged' = mapChanged /\ cleaner' = cleaner
    BY DEF Completes, mapVars
<1>2. running
    BY <1>1, JobFacts DEF StoreInv, MemoryInv
<1>3. MemoryInv' /\ CleanerInv'
    BY <1>1, <1>2, CleanerKept DEF StoreInv, MemoryInv, Uses
<1>4. CASE WritesMap
    <2>1. job.name = MapName /\ job.content = draftsMap /\ mapChanged /\ disk[MapName] # <<>>
        BY <1>4, JobFacts DEF WritesMap
    <2>2. disk[MapName] \in Files /\ draftsMap \in Maps
        BY UsedKeys DEF StoreInv, MemoryInv, MapOf
    <2>3. PICK g : g = Completed(disk[MapName], draftsMap)
        OBVIOUS
    <2>4. /\ g \in Files /\ g # <<>> /\ Last(g) = Good(draftsMap)
          /\ \A i \in DOMAIN g : g[i] = Good(draftsMap)
                 \/ (i \in DOMAIN disk[MapName] /\ g[i] = disk[MapName][i])
        BY <2>1, <2>2, <2>3, CompletedFacts
    <2>5. \A i \in DOMAIN g : g[i].good => MapOf(g[i].holds, keysMade)
        BY <2>4, CopyTypes, <2>2 DEF StoreInv, FilesInv, MemoryInv
    <2>6. FilesInv' /\ disk'[MapName] = g
        BY <1>1, <2>1, <2>3, <2>4, <2>5, MapFileStep
    <2>7. ClosesMap'
        BY <1>1, <2>1, <2>4, <2>6 DEF ClosesMap, MapName
    <2>8. QED
        BY <1>3, <2>6, <2>7 DEF StoreInv, JobInv, MapInv
<1>5. ASSUME NEW p \in DOMAIN draftsMap, OnDraft(p)
      PROVE  StoreInv'
    <2>0. PICK k : k = draftsMap[p]
        OBVIOUS
    <2>1. PICK t \in Texts : job = Writing(k, t) /\ disk[k] # <<>>
        BY <1>1, <1>5, <2>0, JobFacts DEF OnDraft
    <2>2. job.name = k /\ job.content = t
        BY <2>1, JobFacts
    <2>3. k \in 1 .. keysMade /\ disk[k] \in Files /\ k # MapName
        BY <2>0, UsedKeys
    <2>4. PICK g : g = Completed(disk[k], t)
        OBVIOUS
    <2>5. g \in Files /\ g # <<>> /\ Last(g) = Good(t)
        BY <2>1, <2>3, <2>4, CompletedFacts
    <2>6. FilesInv' /\ disk'[k] = g /\ disk'[MapName] = disk[MapName] /\ MapThere' = MapThere
        BY <1>1, <2>2, <2>3, <2>4, <2>5, DraftFileStep
    <2>7. OnDraft(p)'
        BY <1>1, <1>5, <2>0, <2>2, <2>5, <2>6, CopyTypes DEF OnDraft
    <2>8. ~WritesMap /\ ~ClosesMap
        BY <1>1, <2>2, <2>3, JobFacts DEF WritesMap, ClosesMap
    <2>9. JobInv' /\ MapInv'
        BY <1>1, <1>2, <2>6, <2>7, <2>8 DEF StoreInv, JobInv, MapInv
    <2>10. QED
        BY <1>3, <2>6, <2>9 DEF StoreInv
<1>6. QED
    BY <1>1, <1>4, <1>5, JobFacts DEF StoreInv, JobInv, ClearsUnused, ClosesMap

LEMMA ClosesStore ==
    ASSUME StoreInv, Closes
    PROVE  StoreInv'
<1>1. /\ job.does = "close" /\ disk' = [disk EXCEPT ![job.name] = Closed(@)]
      /\ job' = Idle /\ mapChanged' = (mapChanged /\ job.name # MapName)
      /\ running' = running /\ keysMade' = keysMade /\ draftsMap' = draftsMap
      /\ notRead' = notRead /\ cleaner' = cleaner
    BY DEF Closes
<1>2. running
    BY <1>1, JobFacts DEF StoreInv, MemoryInv
<1>3. MemoryInv' /\ CleanerInv' /\ JobInv'
    BY <1>1, <1>2, CleanerKept DEF StoreInv, MemoryInv, Uses, JobInv
<1>4. CASE ClosesMap
    <2>1. job.name = MapName /\ disk[MapName] # <<>> /\ Last(disk[MapName]) = Good(draftsMap)
        BY <1>4, JobFacts DEF ClosesMap
    <2>2. disk[MapName] \in Files /\ Good(draftsMap).good /\ Good(draftsMap).holds = draftsMap
        BY UsedKeys DEF Good
    <2>3. PICK g : g = Closed(disk[MapName])
        OBVIOUS
    <2>4. /\ g \in Files /\ Len(g) = 1 /\ CanRead(g)
          /\ \A i \in DOMAIN g : g[i] = Good(draftsMap)
        BY <2>1, <2>2, <2>3, ClosedFacts
    <2>5. \A i \in DOMAIN g : g[i].good => MapOf(g[i].holds, keysMade)
        BY <2>2, <2>4 DEF StoreInv, MemoryInv
    <2>6. FilesInv' /\ disk'[MapName] = g
        BY <1>1, <2>1, <2>3, <2>4, <2>5, MapFileStep
    <2>7. MapInv'
        BY <2>4, <2>6 DEF MapInv, MapThere
    <2>8. QED
        BY <1>3, <2>6, <2>7 DEF StoreInv
<1>5. ASSUME NEW p \in DOMAIN draftsMap, OnDraft(p)
      PROVE  StoreInv'
    <2>0. PICK k : k = draftsMap[p]
        OBVIOUS
    <2>1. job = Written(k) /\ disk[k] # <<>> /\ Last(disk[k]).good
        BY <1>1, <1>5, <2>0, JobFacts DEF OnDraft
    <2>2. job.name = k
        BY <2>1, JobFacts
    <2>3. k \in 1 .. keysMade /\ disk[k] \in Files /\ k # MapName
        BY <2>0, UsedKeys
    <2>4. Closed(disk[k]) \in Files
        BY <2>1, <2>3, ClosedFacts
    <2>5. FilesInv' /\ disk'[MapName] = disk[MapName] /\ MapThere' = MapThere
        BY <1>1, <2>2, <2>3, <2>4, DraftFileStep
    <2>6. ~WritesMap /\ ~ClosesMap
        BY <1>1, <2>2, <2>3, JobFacts DEF WritesMap, ClosesMap
    <2>7. MapInv'
        BY <1>2, <2>5, <2>6 DEF StoreInv, MapInv
    <2>8. QED
        BY <1>3, <2>5, <2>7 DEF StoreInv
<1>6. QED
    BY <1>1, <1>4, <1>5, JobFacts DEF StoreInv, JobInv, ClearsUnused, WritesMap

LEMMA ClearsAllStore ==
    ASSUME StoreInv, ClearsAll
    PROVE  StoreInv'
<1>1. /\ job.does = "clear" /\ disk' = [disk EXCEPT ![job.name] = <<>>]
      /\ job' = Idle /\ mapChanged' = mapChanged
      /\ running' = running /\ keysMade' = keysMade /\ draftsMap' = draftsMap
      /\ notRead' = notRead /\ cleaner' = cleaner
    BY DEF ClearsAll
<1>2. PICK k \in 1 .. keysMade : job = Clearing(k)
    BY <1>1, JobFacts DEF StoreInv, JobInv, ClearsUnused, WritesMap, ClosesMap, OnDraft
<1>3. job.name = k /\ <<>> \in Files
    BY <1>2, JobFacts DEF Files
<1>4. FilesInv' /\ disk'[MapName] = disk[MapName] /\ MapThere' = MapThere
    BY <1>1, <1>2, <1>3, DraftFileStep
<1>5. running
    BY <1>1, JobFacts DEF StoreInv, MemoryInv
<1>6. ~WritesMap /\ ~ClosesMap
    BY <1>1, JobFacts DEF WritesMap, ClosesMap
<1>7. MemoryInv' /\ JobInv' /\ MapInv'
    BY <1>1, <1>4, <1>5, <1>6 DEF StoreInv, MemoryInv, JobInv, MapInv
<1>8. CleanerInv'
    BY <1>1, CleanerKept DEF Uses
<1>9. QED
    BY <1>4, <1>7, <1>8 DEF StoreInv

\* A step of the cleaner concerns nothing but its own state and one file that the
\* main thread has no use for.
LEMMA CleanerStepStore ==
    ASSUME StoreInv, CleanUpStep
    PROVE  StoreInv'
<1>1. /\ running' = running /\ running /\ keysMade' = keysMade /\ mapChanged' = mapChanged
      /\ draftsMap' = draftsMap /\ notRead' = notRead /\ job' = job
    BY DEF CleanUpStep, CleanerLists, CollectGoodNames, CleanerRemoves, CleanerStep, mapVars
<1>2. MemoryInv'
    BY <1>1 DEF StoreInv, MemoryInv
<1>3. ASSUME disk' = disk
      PROVE  FilesInv' /\ JobInv' /\ MapInv'
    <2>1. FilesInv'
        BY <1>1, <1>3 DEF StoreInv, FilesInv
    <2>2. WritesMap' = WritesMap /\ ClosesMap' = ClosesMap /\ MapThere' = MapThere
        BY <1>1, <1>3 DEF WritesMap, ClosesMap, MapThere
    <2>3. (ClearsUnused => ClearsUnused') /\ \A p \in DOMAIN draftsMap : OnDraft(p) => OnDraft(p)'
        BY <1>1, <1>3 DEF ClearsUnused, OnDraft, Uses
    <2>4. QED
        BY <1>1, <1>3, <2>1, <2>2, <2>3 DEF StoreInv, JobInv, MapInv
<1>4. CASE CleanerLists
    <2>1. disk' = disk /\ cleaner' = Listed(Present)
        BY <1>4 DEF CleanerLists, CleanerStep
    <2>2. Present \subseteq 0 .. keysMade
        BY UsedKeys DEF Present, StoreInv, FilesInv
    <2>3. CleanerInv'
        BY <1>1, <2>1, <2>2 DEF CleanerInv
    <2>4. QED
        BY <1>2, <1>3, <2>1, <2>3 DEF StoreInv
<1>5. CASE CollectGoodNames
    <2>1. disk' = disk /\ cleaner' = Removing(cleaner.files \ GoodNames) /\ cleaner.does = "ask"
        BY <1>5 DEF CollectGoodNames, CleanerStep
    <2>2. PICK S \in SUBSET (0 .. keysMade) : cleaner = Listed(S)
        BY <2>1, CleanerFacts DEF StoreInv, CleanerInv
    <2>3. cleaner' = Removing(S \ GoodNames)
        BY <2>1, <2>2, CleanerFacts
    <2>4. S \ GoodNames \in SUBSET (1 .. keysMade)
        <3>1. 0 \in GoodNames /\ keysMade \in Nat
            BY UsedKeys DEF GoodNames
        <3>2. \A n \in S \ GoodNames : n \in 0 .. keysMade /\ n # 0
            BY <2>2, <3>1
        <3>3. \A n \in S \ GoodNames : n \in 1 .. keysMade
            BY <3>1, <3>2
        <3>4. QED
            BY <3>3
    <2>5. \A n \in S \ GoodNames : ~Uses(n)'
        BY <1>1 DEF GoodNames, Uses
    <2>6. CleanerInv'
        BY <1>1, <2>3, <2>4, <2>5 DEF CleanerInv
    <2>7. QED
        BY <1>2, <1>3, <2>1, <2>6 DEF StoreInv
<1>6. CASE CleanerRemoves
    <2>1. PICK n \in cleaner.files :
            /\ disk' = [disk EXCEPT ![n] = <<>>] /\ cleaner' = Removing(cleaner.files \ {n})
            /\ cleaner.does = "remove"
        BY <1>6 DEF CleanerRemoves, CleanerStep
    <2>2. PICK S \in SUBSET (1 .. keysMade) : cleaner = Removing(S) /\ \A k \in S : ~Uses(k)
        BY <2>1, CleanerFacts DEF StoreInv, CleanerInv
    <2>3. n \in 1 .. keysMade /\ ~Uses(n) /\ cleaner' = Removing(S \ {n}) /\ <<>> \in Files
        <3>1. cleaner.files = S
            BY <2>2, CleanerFacts
        <3>2. <<>> \in Files
            BY DEF Files
        <3>3. QED
            BY <2>1, <2>2, <3>1, <3>2
    <2>4. CleanerInv'
        <3>1. \A k \in S \ {n} : ~Uses(k)'
            BY <1>1, <2>2 DEF Uses
        <3>2. S \ {n} \in SUBSET (1 .. keysMade')
            BY <1>1
        <3>3. QED
            BY <2>3, <3>1, <3>2 DEF CleanerInv
    <2>5. /\ FilesInv' /\ disk'[MapName] = disk[MapName] /\ MapThere' = MapThere
          /\ \A k \in Names : k # n => disk'[k] = disk[k]
        BY <1>1, <2>1, <2>3, DraftFileStep
    <2>6. WritesMap' = WritesMap /\ ClosesMap' = ClosesMap
        BY <1>1, <2>5 DEF WritesMap, ClosesMap
    <2>7. MapInv'
        BY <1>1, <2>5, <2>6 DEF StoreInv, MapInv
    <2>8. \A p \in DOMAIN draftsMap : OnDraft(p) => OnDraft(p)'
        <3>1. ASSUME NEW p \in DOMAIN draftsMap
              PROVE  disk'[draftsMap[p]] = disk[draftsMap[p]]
            BY <2>3, <2>5, UsedKeys DEF Uses
        <3>2. QED
            BY <1>1, <3>1 DEF OnDraft
    <2>9. ClearsUnused => ClearsUnused'
        BY <1>1 DEF ClearsUnused, Uses
    <2>10. JobInv'
        BY <1>1, <2>6, <2>8, <2>9 DEF StoreInv, JobInv
    <2>11. QED
        BY <1>2, <2>4, <2>5, <2>7, <2>10 DEF StoreInv
<1>7. QED
    BY <1>4, <1>5, <1>6 DEF CleanUpStep

LEMMA StoreStep ==
    ASSUME StoreInv, [Next]_vars
    PROVE  StoreInv'
<1>1. CASE DraftStep
    BY <1>1, ReadDraftStore, RemoveDraftStore, WriteDraftStore, WriteNewDraftStore DEF DraftStep
<1>2. CASE FileStep
    BY <1>2, CompletesStore, ClosesStore, ClearsAllStore, MapWriteTimeoutStore DEF FileStep
<1>3. CASE UNCHANGED vars
    <2>1. UNCHANGED <<disk, running, keysMade, draftsMap, notRead, mapChanged, job, cleaner>>
        BY <1>3 DEF vars, mapVars
    <2>2. QED
        BY <2>1 DEF StoreInv, FilesInv, MemoryInv, JobInv, MapInv, CleanerInv, WritesMap, ClosesMap,
                    OnDraft, ClearsUnused, Uses, MapThere
<1>4. QED
    BY <1>1, <1>2, <1>3, StartStore, CrashStore, CleanerStepStore DEF Next

LEMMA StoreInit ==
    ASSUME Init
    PROVE  StoreInv
<1>1. /\ disk = [n \in Names |-> <<>>] /\ running = FALSE /\ keysMade = 0 /\ draftsMap = NoDrafts
      /\ notRead = {} /\ mapChanged = FALSE /\ job = Idle /\ cleaner = Asleep
    BY DEF Init
<1>2. <<>> \in Files /\ DOMAIN <<>> = {} /\ MapName \in Names /\ Keys \subseteq Names
    BY DEF Files, Names
<1>3. FilesInv
    BY <1>1, <1>2, ConstantsAssumption DEF FilesInv
<1>4. MapOf(draftsMap, keysMade)
    BY <1>1, NoDraftsIsMap
<1>5. QED
    BY <1>1, <1>3, <1>4 DEF StoreInv, MemoryInv, JobInv, MapInv, CleanerInv

\* The map that a start would find changes only when a new one is complete.
LEMMA MapStep ==
    ASSUME StoreInv, MapThere, [Next]_vars
    PROVE  MapThere' /\ (SavedMap' = SavedMap \/ (WritesMap /\ Completes /\ SavedMap' = draftsMap))
<1> DEFINE SameMap == disk'[MapName] = disk[MapName]
<1>1. SUFFICES ASSUME ~SameMap
               PROVE  MapThere' /\ (SavedMap' = SavedMap \/ (WritesMap /\ Completes /\ SavedMap' = draftsMap))
    BY DEF MapThere, SavedMap
<1>2. disk \in [Names -> Files] /\ MapName \in Names /\ disk[MapName] \in Files
    BY UsedKeys DEF StoreInv, FilesInv
<1>3. CASE Start
    <2>1. disk' = [disk EXCEPT ![MapName] = AfterRead(@)]
        BY <1>3 DEF Start, MapThere
    <2>2. disk'[MapName] = AfterRead(disk[MapName])
        BY <1>2, <2>1
    <2>3. QED
        BY <1>2, <2>2, AfterReadFacts DEF MapThere, SavedMap
<1>4. CASE MapWriteTimeout
    <2>1. disk' = [disk EXCEPT ![MapName] = Opened(@)] /\ Len(disk[MapName]) = 1
        BY <1>4, AtRest DEF MapWriteTimeout, Opens
    <2>2. disk'[MapName] = Opened(disk[MapName])
        BY <1>2, <2>1
    <2>3. CanRead(Opened(disk[MapName])) /\ Content(Opened(disk[MapName])) = Content(disk[MapName])
        <3>1. Len(disk[MapName]) <= 1 /\ CanRead(disk[MapName])
            BY <2>1 DEF MapThere
        <3>2. QED
            BY <1>2, <3>1, OpenedFacts
    <2>4. QED
        BY <2>2, <2>3 DEF MapThere, SavedMap
<1>5. CASE Completes
    <2>1. disk' = [disk EXCEPT ![job.name] = Completed(@, job.content)] /\ job.does = "write"
        BY <1>5 DEF Completes
    <2>2. job.name = MapName
        BY <1>1, <1>2, <2>1
    <2>3. WritesMap /\ job.content = draftsMap
        BY <2>1, <2>2, JobFacts, UsedKeys DEF StoreInv, JobInv, ClearsUnused, WritesMap, ClosesMap, OnDraft
    <2>4. disk'[MapName] = Completed(disk[MapName], draftsMap) /\ draftsMap \in Maps
        BY <1>2, <2>1, <2>2, <2>3 DEF StoreInv, MemoryInv, MapOf
    <2>5. QED
        BY <1>2, <1>5, <2>3, <2>4, CompletedFacts DEF MapThere, SavedMap, WritesMap
<1>6. CASE Closes
    <2>1. disk' = [disk EXCEPT ![job.name] = Closed(@)] /\ job.does = "close"
        BY <1>6 DEF Closes
    <2>2. job.name = MapName
        BY <1>1, <1>2, <2>1
    <2>3. ClosesMap
        BY <2>1, <2>2, JobFacts, UsedKeys DEF StoreInv, JobInv, ClearsUnused, WritesMap, ClosesMap, OnDraft
    <2>4. disk'[MapName] = Closed(disk[MapName]) /\ Good(draftsMap).good
        BY <1>2, <2>1, <2>2 DEF Good
    <2>5. QED
        BY <1>2, <2>3, <2>4, ClosedFacts DEF MapThere, SavedMap, ClosesMap
<1>7. CASE ClearsAll
    <2>1. disk' = [disk EXCEPT ![job.name] = <<>>] /\ job.does = "clear"
        BY <1>7 DEF ClearsAll
    <2>2. PICK k \in 1 .. keysMade : job = Clearing(k)
        BY <2>1, JobFacts DEF StoreInv, JobInv, ClearsUnused, WritesMap, ClosesMap, OnDraft
    <2>3. job.name = k /\ k # MapName
        BY <2>2, JobFacts, UsedKeys
    <2>4. QED
        BY <1>1, <1>2, <2>1, <2>3
<1>8. CASE DraftStep
    <2>1. \E k \in Keys : \E g : disk' = [disk EXCEPT ![k] = g]
        <3>1. ASSUME NEW p \in Peers, ReadDraft(p) \/ RemoveDraft(p) \/ \E t \in Texts : WriteDraft(p, t)
              PROVE  \E g : disk' = [disk EXCEPT ![draftsMap[p]] = g] /\ p \in DOMAIN draftsMap
            BY <3>1 DEF ReadDraft, RemoveDraft, WriteDraft, Clears, Opens, StoreInv, MemoryInv
        <3>2. ASSUME NEW p \in Peers, NEW t \in Texts, WriteNewDraft(p, t)
              PROVE  \E g : disk' = [disk EXCEPT ![keysMade + 1] = g] /\ keysMade + 1 \in Keys
            <4>1. disk' = [disk EXCEPT ![keysMade + 1] = Opened(disk[keysMade + 1])] /\ keysMade < MaxKeys
                BY <3>2 DEF WriteNewDraft, Opens
            <4>2. keysMade + 1 \in Keys
                BY <4>1, UsedKeys
            <4>3. QED
                BY <4>1, <4>2
        <3>3. \A p \in DOMAIN draftsMap : draftsMap[p] \in Keys
            BY UsedKeys
        <3>4. QED
            BY <1>8, <3>1, <3>2, <3>3 DEF DraftStep
    <2>2. QED
        BY <1>1, <1>2, <2>1, UsedKeys
<1>9. CASE CleanUpStep
    <2>1. CASE CleanerRemoves
        <3>1. PICK n \in cleaner.files : disk' = [disk EXCEPT ![n] = <<>>] /\ cleaner.does = "remove"
            BY <2>1 DEF CleanerRemoves
        <3>2. n # MapName
            BY <3>1, CleanerFacts, UsedKeys DEF StoreInv, CleanerInv
        <3>3. QED
            BY <1>1, <1>2, <3>1, <3>2
    <2>2. QED
        BY <1>1, <1>9, <2>1 DEF CleanUpStep, CleanerLists, CollectGoodNames
<1>10. QED
    BY <1>1, <1>3, <1>4, <1>5, <1>6, <1>7, <1>8, <1>9 DEF Next, FileStep, Crash, vars

(* Whatever is killed how often, and also if drafts are written unread: a map   *)
(* that can be read stays one (_writeMap, localstorage.cpp:2466; finish, 313).  *)
THEOREM MapSurvives == Spec => MapIsNeverLost
<1>1. StoreInv /\ [Next]_vars => [CanRead(disk[MapName]) => CanRead(disk'[MapName])]_vars
    BY MapStep DEF MapThere
<1>2. StoreInv /\ [Next]_vars => StoreInv'
    BY StoreStep
<1>3. QED
    BY <1>1, <1>2, StoreInit, PTL DEF Spec, MapIsNeverLost

-----------------------------------------------------------------------------
(* What the files hold, if no draft is written before the old one was read.    *)

Contents == Maps \cup Texts \cup {None}

\* The map that a start would find has the file of the draft.
Kept(p) == MapThere /\ p \in DOMAIN SavedMap /\ p \in DOMAIN draftsMap /\ draftsMap[p] = SavedMap[p]

\* The draft of p, r being the ones that p had recently.
WantedOK(p, r) ==
    /\ wanted[p] \in r
    /\ p \notin DOMAIN draftsMap => wanted[p] = None
FileOK(p, r) ==
    LET f == disk[draftsMap[p]] IN
    /\ Now(f) \in r
    /\ \/ job = Writing(draftsMap[p], wanted[p])
       \/ job = Written(draftsMap[p]) /\ Last(f) = Good(wanted[p])
       \/ ~OnDraft(p) /\ Now(f) = wanted[p] /\ (p \notin notRead => Len(f) <= 1)
\* A file that only the map on disk knows is empty, or about to be.
SavedOK(p, r) ==
    MapThere /\ p \in DOMAIN SavedMap /\ ~Kept(p) =>
        /\ ~Uses(SavedMap[p])
        /\ None \in r /\ Now(disk[SavedMap[p]]) \in r
        /\ Now(disk[SavedMap[p]]) # None => job = Clearing(SavedMap[p]) /\ mapChanged
        /\ ~mapChanged => p \notin DOMAIN draftsMap
UnsavedOK(p, r) ==
    p \in DOMAIN draftsMap /\ ~(MapThere /\ p \in DOMAIN SavedMap) => None \in r /\ mapChanged

PeerOK(p, r) ==
    /\ WantedOK(p, r)
    /\ p \in DOMAIN draftsMap => FileOK(p, r)
    /\ SavedOK(p, r)
    /\ UnsavedOK(p, r)

DraftsInv ==
    /\ wanted \in [Peers -> Contents]
    /\ recent \in [Peers -> SUBSET Contents]
    /\ running => \A p \in Peers : PeerOK(p, recent[p])
    /\ ~running => FindsRecent

LEMMA FoundIs ==
    ASSUME StoreInv, NEW p \in Peers
    PROVE  /\ Found(p) \in Contents
           /\ Found(p) = IF MapThere /\ p \in DOMAIN SavedMap THEN Now(disk[SavedMap[p]]) ELSE None
<1>1. Found(p) = IF MapThere /\ p \in DOMAIN SavedMap THEN Now(disk[SavedMap[p]]) ELSE None
    BY DEF Found, MapThere, SavedMap, Now
<1>2. ASSUME MapThere, p \in DOMAIN SavedMap
      PROVE  Now(disk[SavedMap[p]]) \in Contents
    <2>1. SavedMap[p] \in Names
        BY <1>2, SavedMapFacts, MapFacts, UsedKeys DEF StoreInv
    <2>2. disk[SavedMap[p]] \in Files
        BY <2>1, UsedKeys
    <2>3. QED
        BY <2>2, ContentType DEF Now, Contents
<1>3. QED
    BY <1>1, <1>2 DEF Contents

\* The invariant promises what it is for: while the program runs ...
LEMMA PeerFinds ==
    ASSUME StoreInv, NEW p \in Peers, NEW r, PeerOK(p, r)
    PROVE  Found(p) \in r
<1>1. CASE MapThere /\ p \in DOMAIN SavedMap
    BY <1>1, FoundIs DEF PeerOK, SavedOK, FileOK, Kept
<1>2. CASE ~(MapThere /\ p \in DOMAIN SavedMap)
    BY <1>2, FoundIs DEF PeerOK, UnsavedOK, WantedOK
<1>3. QED
    BY <1>1, <1>2

\* ... and when nothing is left to write.
LEMMA PeerSettles ==
    ASSUME StoreInv, Sync, ~mapChanged, NEW p \in Peers, NEW r, PeerOK(p, r)
    PROVE  Found(p) = wanted[p]
<1>1. MapThere /\ job = Idle
    BY AtRest DEF Sync
<1>2. CASE p \in DOMAIN SavedMap /\ Kept(p)
    BY <1>1, <1>2, FoundIs, JobFacts DEF PeerOK, FileOK, Kept
<1>3. CASE p \in DOMAIN SavedMap /\ ~Kept(p)
    BY <1>1, <1>3, FoundIs, JobFacts DEF PeerOK, SavedOK, WantedOK
<1>4. CASE p \notin DOMAIN SavedMap
    BY <1>1, <1>4, FoundIs DEF PeerOK, UnsavedOK, WantedOK
<1>5. QED
    BY <1>2, <1>3, <1>4

\* The invariant again, from what each peer is left with.
LEMMA Together ==
    ASSUME wanted' \in [Peers -> Contents], recent' \in [Peers -> SUBSET Contents], running',
           \A p \in Peers : \A r : r = recent'[p] => PeerOK(p, r)'
    PROVE  DraftsInv'
<1>1. ASSUME NEW p \in Peers
      PROVE  PeerOK(p, recent[p])'
    <2>1. PICK r : r = recent'[p]
        OBVIOUS
    <2>2. PeerOK(p, r)'
        BY <2>1
    <2>3. QED
        BY <2>1, <2>2 DEF PeerOK, WantedOK, FileOK, SavedOK, UnsavedOK
<1>2. QED
    BY <1>1 DEF DraftsInv

\* What was recent may be forgotten when nothing is left to write.
LEMMA Forgets ==
    ASSUME NEW p \in Peers, NEW r, NEW s, job' = Idle, ~mapChanged', PeerOK(p, r)', s = {wanted'[p]}
    PROVE  PeerOK(p, s)'
<1>1. WantedOK(p, s)'
    BY DEF PeerOK, WantedOK
<1>2. p \in DOMAIN draftsMap' => FileOK(p, s)'
    BY JobFacts DEF PeerOK, FileOK
<1>3. SavedOK(p, s)'
    BY JobFacts DEF PeerOK, SavedOK, WantedOK
<1>4. UnsavedOK(p, s)'
    BY DEF PeerOK, UnsavedOK
<1>5. QED
    BY <1>1, <1>2, <1>3, <1>4 DEF PeerOK

LEMMA Settled ==
    ASSUME DraftsInv, Settles, running', job' = Idle, wanted' = wanted,
           \A p \in Peers : \A r : r = recent[p] => PeerOK(p, r)'
    PROVE  DraftsInv'
<1>1. wanted' \in [Peers -> Contents] /\ recent \in [Peers -> SUBSET Contents]
    BY DEF DraftsInv
<1>2. CASE mapChanged'
    <2>1. recent' = recent
        BY <1>2 DEF Settles
    <2>2. QED
        BY <1>1, <2>1, Together
<1>3. CASE ~mapChanged'
    <2>1. recent' = [p \in Peers |-> {wanted[p]}]
        BY <1>3 DEF Settles
    <2>2. recent' \in [Peers -> SUBSET Contents]
        BY <1>1, <2>1
    <2>3. ASSUME NEW p \in Peers, NEW s, s = recent'[p]
          PROVE  PeerOK(p, s)'
        <3>1. PICK r : r = recent[p]
            OBVIOUS
        <3>2. PeerOK(p, r)' /\ s = {wanted'[p]}
            BY <2>1, <2>3, <3>1
        <3>3. QED
            BY <1>3, <3>2, Forgets
    <2>4. QED
        BY <1>1, <2>2, <2>3, Together
<1>4. QED
    BY <1>2, <1>3

\* No draft is kept in the file of another one.
LEMMA FilesDiffer ==
    ASSUME StoreInv, MapThere, NEW p \in DOMAIN draftsMap, NEW q \in Peers, q # p, NEW r, PeerOK(q, r)
    PROVE  /\ q \in DOMAIN draftsMap => draftsMap[q] # draftsMap[p]
           /\ q \in DOMAIN SavedMap => SavedMap[q] # draftsMap[p]
<1>1. \A o \in DOMAIN draftsMap : draftsMap[o] = draftsMap[p] => o = p
    BY UsedKeys
<1>2. ASSUME q \in DOMAIN SavedMap, SavedMap[q] = draftsMap[p]
      PROVE  FALSE
    <2>1. Uses(SavedMap[q])
        BY <1>2 DEF Uses
    <2>2. Kept(q)
        BY <1>2, <2>1 DEF PeerOK, SavedOK
    <2>3. QED
        BY <1>1, <1>2, <2>2 DEF Kept
<1>3. QED
    BY <1>1, <1>2

\* The other drafts, when the main thread turns from rest to the file k.
LEMMA OtherPeers ==
    ASSUME StoreInv, Sync, NEW q \in Peers, NEW r, PeerOK(q, r),
           NEW k \in Names,
           MapThere', SavedMap' = SavedMap,
           \A n \in Names : n # k => disk'[n] = disk[n],
           q \in DOMAIN draftsMap => draftsMap[q] # k,
           q \in DOMAIN SavedMap => SavedMap[q] # k,
           q \in DOMAIN draftsMap' <=> q \in DOMAIN draftsMap,
           q \in DOMAIN draftsMap => draftsMap'[q] = draftsMap[q],
           q \in notRead' <=> q \in notRead,
           mapChanged => mapChanged',
           \/ job' = Idle \/ job' = Clearing(k) \/ \E c : job' = Writing(k, c),
           wanted'[q] = wanted[q],
           q \in DOMAIN SavedMap /\ Uses(SavedMap[q])' => Uses(SavedMap[q])
    PROVE  PeerOK(q, r)'
<1>1. MapThere /\ job = Idle
    BY AtRest DEF Sync
<1>2. MapThere' = MapThere /\ SavedMap' = SavedMap
    BY <1>1
<1>3. Kept(q)' = Kept(q)
    BY <1>2 DEF Kept
<1>4. WantedOK(q, r)'
    BY DEF PeerOK, WantedOK
<1>5. ASSUME q \in DOMAIN draftsMap
      PROVE  FileOK(q, r)'
    <2>1. draftsMap[q] \in Names /\ draftsMap[q] # k
        BY <1>5, UsedKeys
    <2>2. disk'[draftsMap'[q]] = disk[draftsMap[q]] /\ draftsMap'[q] = draftsMap[q]
        BY <1>5, <2>1
    <2>3. ~OnDraft(q)'
        BY <2>1, <2>2, JobFacts DEF OnDraft
    <2>4. Now(disk[draftsMap[q]]) = wanted[q] /\ Now(disk[draftsMap[q]]) \in r
          /\ (q \notin notRead => Len(disk[draftsMap[q]]) <= 1)
        BY <1>1, <1>5, JobFacts DEF PeerOK, FileOK
    <2>5. QED
        BY <2>2, <2>3, <2>4 DEF FileOK
<1>6. SavedOK(q, r)'
    <2>1. ASSUME q \in DOMAIN SavedMap, ~Kept(q)
          PROVE  /\ ~Uses(SavedMap[q])' /\ None \in r /\ Now(disk'[SavedMap[q]]) \in r
                 /\ Now(disk'[SavedMap[q]]) = None /\ (~mapChanged' => q \notin DOMAIN draftsMap')
        <3>1. SavedMap[q] \in Names /\ SavedMap[q] # k
            BY <1>1, <2>1, SavedMapFacts, MapFacts, UsedKeys DEF StoreInv
        <3>2. disk'[SavedMap[q]] = disk[SavedMap[q]]
            BY <3>1
        <3>3. QED
            BY <1>1, <2>1, <3>2, JobFacts DEF PeerOK, SavedOK
    <2>2. QED
        BY <1>2, <1>3, <2>1 DEF SavedOK
<1>7. UnsavedOK(q, r)'
    BY <1>2 DEF PeerOK, UnsavedOK
<1>8. QED
    BY <1>4, <1>5, <1>6, <1>7 DEF PeerOK

LEMMA StartDrafts ==
    ASSUME StoreInv, Start
    PROVE  DraftsInv'
<1>1. /\ running' /\ notRead' = DOMAIN draftsMap'
      /\ wanted' = [p \in Peers |-> Found(p)] /\ recent' = [p \in Peers |-> {Found(p)}]
    BY DEF Start
<1>2. wanted' \in [Peers -> Contents] /\ recent' \in [Peers -> SUBSET Contents]
    BY <1>1, FoundIs
<1>3. ASSUME NEW p \in Peers, NEW r, r = recent'[p]
      PROVE  PeerOK(p, r)'
    <2>1. wanted'[p] = Found(p) /\ r = {wanted'[p]}
        BY <1>1, <1>3
    <2>2. CASE MapThere
        <3>1. /\ draftsMap' = SavedMap /\ job' = Idle
              /\ disk' = [disk EXCEPT ![MapName] = AfterRead(@)]
            BY <2>2 DEF Start, MapThere, SavedMap
        <3>2. MapThere' /\ SavedMap' = SavedMap
            BY <2>2, MapStep, JobFacts DEF Next, Start, Completes, WritesMap, MapThere, Sync, StoreInv, MemoryInv
        <3>3. WantedOK(p, r)'
            BY <2>1, <2>2, <3>1, FoundIs DEF WantedOK
        <3>4. ASSUME p \in DOMAIN SavedMap
              PROVE  FileOK(p, r)'
            <4>1. SavedMap[p] \in Keys /\ SavedMap[p] # MapName /\ Keys \subseteq Names
                BY <2>2, <3>4, SavedMapFacts, MapFacts, UsedKeys DEF StoreInv
            <4>2. disk'[SavedMap[p]] = disk[SavedMap[p]]
                BY <3>1, <4>1 DEF StoreInv, FilesInv
            <4>3. Found(p) = Now(disk[SavedMap[p]])
                BY <2>2, <3>4, FoundIs
            <4>4. p \in notRead' /\ draftsMap'[p] = SavedMap[p]
                BY <1>1, <3>1, <3>4
            <4>5. ~OnDraft(p)'
                BY <4>4 DEF OnDraft
            <4>6. QED
                BY <2>1, <4>2, <4>3, <4>4, <4>5 DEF FileOK
        <3>5. SavedOK(p, r)' /\ UnsavedOK(p, r)'
            BY <3>1, <3>2 DEF SavedOK, UnsavedOK, Kept
        <3>6. QED
            BY <3>1, <3>3, <3>4, <3>5 DEF PeerOK
    <2>3. CASE ~MapThere
        <3>1. /\ draftsMap' = NoDrafts
              /\ disk' = [disk EXCEPT ![MapName] = Opened(@)]
            BY <2>3 DEF Start, MapThere, Opens
        <3>2. DOMAIN draftsMap' = {}
            BY <3>1 DEF NoDrafts
        <3>3. ~MapThere'
            <4>1. disk'[MapName] = Opened(disk[MapName]) /\ disk[MapName] \in Files
                BY <3>1, UsedKeys DEF StoreInv, FilesInv
            <4>2. QED
                BY <2>3, <4>1, OpenedFacts DEF MapThere
        <3>4. Found(p) = None
            BY <2>3, FoundIs
        <3>5. QED
            BY <2>1, <3>2, <3>3, <3>4 DEF PeerOK, WantedOK, SavedOK, UnsavedOK
    <2>4. QED
        BY <2>2, <2>3
<1>4. QED
    BY <1>1, <1>2, <1>3, Together

LEMMA CrashDrafts ==
    ASSUME StoreInv, DraftsInv, Crash
    PROVE  DraftsInv'
<1>1. running /\ running' = FALSE /\ disk' = disk /\ wanted' = wanted /\ recent' = recent
    BY DEF Crash, pastVars
<1>2. \A p \in Peers : Found(p) \in recent[p]
    BY <1>1, PeerFinds DEF DraftsInv
<1>3. \A p \in Peers : Found(p)' = Found(p)
    BY <1>1 DEF Found
<1>4. FindsRecent'
    BY <1>1, <1>2, <1>3 DEF FindsRecent
<1>5. QED
    BY <1>1, <1>4 DEF DraftsInv

LEMMA ReadDraftDrafts ==
    ASSUME StoreInv, DraftsInv, NEW p \in Peers, ReadDraft(p)
    PROVE  DraftsInv'
<1>0. PICK k : k = draftsMap[p]
    OBVIOUS
<1>1. /\ Sync /\ p \in DOMAIN draftsMap /\ p \in notRead /\ notRead' = notRead \ {p}
      /\ running' = running /\ keysMade' = keysMade /\ mapChanged' = mapChanged
      /\ wanted' = wanted /\ recent' = recent
    BY DEF ReadDraft, StoreInv, MemoryInv, pastVars
<1>2. MapThere /\ running /\ job = Idle
    BY <1>1, AtRest DEF Sync
<1>3. k \in 1 .. keysMade /\ k \in Names /\ disk[k] \in Files /\ k # MapName
    BY <1>0, <1>1, UsedKeys
<1>4. \E g \in Files :
        /\ disk' = [disk EXCEPT ![k] = g] /\ Now(g) = Now(disk[k])
        /\ \/ CanRead(disk[k]) /\ Len(g) = 1 /\ draftsMap' = draftsMap /\ job' = Idle
           \/ /\ ~CanRead(disk[k]) /\ job' = Clearing(k)
              /\ draftsMap' = [q \in DOMAIN draftsMap \ {p} |-> draftsMap[q]]
    <2>1. CASE CanRead(disk[k])
        <3>1. disk' = [disk EXCEPT ![k] = AfterRead(disk[k])] /\ draftsMap' = draftsMap /\ job' = Idle
            BY <1>0, <1>2, <2>1 DEF ReadDraft
        <3>2. AfterRead(disk[k]) \in Files /\ Len(AfterRead(disk[k])) = 1 /\ Now(AfterRead(disk[k])) = Now(disk[k])
            BY <1>3, <2>1, AfterReadFacts DEF Now
        <3>3. QED
            BY <2>1, <3>1, <3>2
    <2>2. CASE ~CanRead(disk[k])
        <3>1. Clears(k) /\ draftsMap' = [q \in DOMAIN draftsMap \ {p} |-> draftsMap[q]]
            BY <1>0, <2>2 DEF ReadDraft
        <3>2. PICK g \in Files : disk' = [disk EXCEPT ![k] = g] /\ (CanRead(g) => CanRead(disk[k]))
            BY <1>1, <1>3, <3>1, ClearsLess
        <3>3. Now(g) = Now(disk[k])
            BY <2>2, <3>2 DEF Now
        <3>4. job' = Clearing(k)
            BY <3>1 DEF Clears
        <3>5. QED
            BY <2>2, <3>1, <3>2, <3>3, <3>4
    <2>3. QED
        BY <2>1, <2>2
<1>5. PICK g \in Files :
        /\ disk' = [disk EXCEPT ![k] = g] /\ Now(g) = Now(disk[k])
        /\ \/ CanRead(disk[k]) /\ Len(g) = 1 /\ draftsMap' = draftsMap /\ job' = Idle
           \/ /\ ~CanRead(disk[k]) /\ job' = Clearing(k)
              /\ draftsMap' = [q \in DOMAIN draftsMap \ {p} |-> draftsMap[q]]
    BY <1>4
<1>6. /\ disk'[k] = g /\ \A n \in Names : n # k => disk'[n] = disk[n]
      /\ MapThere' /\ SavedMap' = SavedMap
    <2>1. /\ disk'[k] = g /\ \A n \in Names : n # k => disk'[n] = disk[n]
          /\ disk'[MapName] = disk[MapName]
        BY <1>1, <1>3, <1>5, DraftFileStep
    <2>2. QED
        BY <1>2, <2>1 DEF MapThere, SavedMap
<1>7. /\ \A q \in Peers : q # p => (q \in DOMAIN draftsMap' <=> q \in DOMAIN draftsMap)
      /\ \A q \in DOMAIN draftsMap : q # p => draftsMap'[q] = draftsMap[q]
      /\ \A n : Uses(n)' => Uses(n)
    BY <1>5 DEF Uses
<1>8. ASSUME NEW q \in Peers, NEW r, r = recent'[q]
      PROVE  PeerOK(q, r)'
    <2>1. PeerOK(q, r)
        BY <1>1, <1>2, <1>8 DEF DraftsInv
    <2>2. CASE q # p
        <3>1. /\ q \in DOMAIN draftsMap => draftsMap[q] # k
              /\ q \in DOMAIN SavedMap => SavedMap[q] # k
            BY <1>0, <1>1, <1>2, <2>1, <2>2, FilesDiffer
        <3>2. wanted'[q] = wanted[q] /\ (q \in notRead' <=> q \in notRead)
            BY <1>1, <2>2
        <3>3. q \in DOMAIN SavedMap /\ Uses(SavedMap[q])' => Uses(SavedMap[q])
            BY <1>6, <1>7 DEF Uses
        <3>4. \/ job' = Idle \/ job' = Clearing(k) \/ \E c : job' = Writing(k, c)
            BY <1>5
        <3>5. QED
            BY <1>1, <1>3, <1>6, <1>7, <2>1, <2>2, <3>1, <3>2, <3>3, <3>4, OtherPeers
    <2>3. CASE q = p
        <3>1. Now(disk[k]) = wanted[p] /\ Now(disk[k]) \in r /\ wanted[p] \in r
            BY <1>0, <1>1, <1>2, <2>1, <2>3, JobFacts DEF PeerOK, FileOK, WantedOK
        <3>2. ASSUME p \in DOMAIN SavedMap
              PROVE  /\ SavedMap[p] \in Names /\ (SavedMap[p] = k <=> Kept(p))
                     /\ Now(disk'[SavedMap[p]]) = Now(disk[SavedMap[p]])
                     /\ ~Kept(p) => Now(disk[SavedMap[p]]) = None /\ None \in r /\ ~Uses(SavedMap[p])
            <4>1. SavedMap[p] \in Names
                BY <1>2, <3>2, SavedMapFacts, MapFacts, UsedKeys DEF StoreInv
            <4>2. SavedMap[p] = k <=> Kept(p)
                BY <1>0, <1>1, <1>2, <3>2 DEF Kept
            <4>3. Now(disk'[SavedMap[p]]) = Now(disk[SavedMap[p]])
                BY <1>5, <1>6, <4>1
            <4>4. QED
                BY <1>2, <2>1, <2>3, <3>2, <4>1, <4>2, <4>3, JobFacts DEF PeerOK, SavedOK
        <3>3. CASE CanRead(disk[k]) /\ Len(g) = 1 /\ draftsMap' = draftsMap /\ job' = Idle
            <4>1. WantedOK(p, r)' /\ UnsavedOK(p, r)'
                BY <1>1, <1>2, <1>6, <2>1, <2>3, <3>3 DEF PeerOK, WantedOK, UnsavedOK
            <4>2. ~OnDraft(p)'
                BY <3>3, JobFacts DEF OnDraft
            <4>3. FileOK(p, r)'
                <5>1. disk'[draftsMap'[p]] = g
                    BY <1>0, <1>6, <3>3
                <5>2. Now(g) = wanted'[p] /\ Now(g) \in r /\ Len(g) <= 1
                    BY <1>1, <1>5, <3>1, <3>3
                <5>3. QED
                    BY <4>2, <5>1, <5>2 DEF FileOK
            <4>4. Kept(p)' = Kept(p)
                BY <1>2, <1>6, <3>3 DEF Kept
            <4>5. SavedOK(p, r)'
                BY <1>1, <1>2, <1>6, <1>7, <2>1, <2>3, <3>2, <3>3, <4>4 DEF PeerOK, SavedOK
            <4>6. QED
                BY <2>3, <4>1, <4>3, <4>5 DEF PeerOK
        <3>4. CASE /\ ~CanRead(disk[k]) /\ job' = Clearing(k)
                   /\ draftsMap' = [o \in DOMAIN draftsMap \ {p} |-> draftsMap[o]]
            <4>1. wanted[p] = None /\ None \in r
                BY <3>1, <3>4 DEF Now
            <4>2. p \notin DOMAIN draftsMap' /\ wanted'[p] = None
                BY <1>1, <3>4, <4>1
            <4>3. WantedOK(p, r)' /\ UnsavedOK(p, r)'
                BY <4>1, <4>2 DEF WantedOK, UnsavedOK
            <4>4. ~Uses(k)'
                BY <1>0, <1>1, <3>4, UsedKeys DEF Uses
            <4>5. Now(disk[k]) = None
                BY <3>4 DEF Now
            <4>6. SavedOK(p, r)'
                BY <1>6, <1>7, <3>2, <4>1, <4>2, <4>4, <4>5 DEF SavedOK
            <4>7. QED
                BY <2>3, <4>2, <4>3, <4>6 DEF PeerOK
        <3>5. QED
            BY <1>5, <3>3, <3>4
    <2>4. QED
        BY <2>2, <2>3
<1>9. QED
    BY <1>1, <1>2, <1>8, Together DEF DraftsInv

LEMMA RemoveDraftDrafts ==
    ASSUME StoreInv, DraftsInv, ~WritesUnread, NEW p \in Peers, RemoveDraft(p)
    PROVE  DraftsInv'
<1>0. PICK k : k = draftsMap[p]
    OBVIOUS
<1>1. /\ Sync /\ p \in DOMAIN draftsMap /\ p \notin notRead /\ notRead' = notRead \ {p}
      /\ running' = running /\ keysMade' = keysMade /\ mapChanged'
      /\ Clears(k) /\ draftsMap' = [q \in DOMAIN draftsMap \ {p} |-> draftsMap[q]]
      /\ wanted' = [wanted EXCEPT ![p] = None] /\ recent' = [recent EXCEPT ![p] = @ \cup {None}]
    BY <1>0 DEF RemoveDraft, MayWrite, Wants
<1>2. MapThere /\ running /\ job = Idle
    BY <1>1, AtRest DEF Sync
<1>3. k \in 1 .. keysMade /\ k \in Names /\ disk[k] \in Files /\ k # MapName
    BY <1>0, <1>1, UsedKeys
<1>4. job' = Clearing(k)
    BY <1>1 DEF Clears
<1>5. PICK g \in Files :
        disk' = [disk EXCEPT ![k] = g] /\ (Len(disk[k]) <= 1 => Now(g) \in {Now(disk[k]), None})
    BY <1>1, <1>3, ClearsLess
<1>6. /\ disk'[k] = g /\ \A n \in Names : n # k => disk'[n] = disk[n]
      /\ MapThere' /\ SavedMap' = SavedMap
    <2>1. /\ disk'[k] = g /\ \A n \in Names : n # k => disk'[n] = disk[n]
          /\ disk'[MapName] = disk[MapName]
        BY <1>1, <1>3, <1>5, DraftFileStep
    <2>2. QED
        BY <1>2, <2>1 DEF MapThere, SavedMap
<1>7. \A n : Uses(n)' => Uses(n)
    BY <1>1 DEF Uses
<1>8. ASSUME NEW q \in Peers, NEW r, r = recent'[q]
      PROVE  PeerOK(q, r)'
    <2>0. PICK r0 : r0 = recent[q]
        OBVIOUS
    <2>1. PeerOK(q, r0)
        BY <1>2, <2>0 DEF DraftsInv
    <2>2. CASE q # p
        <3>1. /\ q \in DOMAIN draftsMap => draftsMap[q] # k
              /\ q \in DOMAIN SavedMap => SavedMap[q] # k
            BY <1>0, <1>1, <1>2, <2>1, <2>2, FilesDiffer
        <3>2. wanted'[q] = wanted[q] /\ (q \in notRead' <=> q \in notRead) /\ r = r0
              /\ (q \in DOMAIN draftsMap' <=> q \in DOMAIN draftsMap)
              /\ (q \in DOMAIN draftsMap => draftsMap'[q] = draftsMap[q])
            BY <1>1, <1>8, <2>0, <2>2 DEF DraftsInv
        <3>3. q \in DOMAIN SavedMap /\ Uses(SavedMap[q])' => Uses(SavedMap[q])
            BY <1>6, <1>7 DEF Uses
        <3>4. \/ job' = Idle \/ job' = Clearing(k) \/ \E c : job' = Writing(k, c)
            BY <1>4
        <3>5. PeerOK(q, r0)'
            BY <1>1, <1>3, <1>6, <2>1, <3>1, <3>2, <3>3, <3>4, OtherPeers
        <3>6. QED
            BY <3>2, <3>5
    <2>3. CASE q = p
        <3>1. Now(disk[k]) \in r0 /\ Len(disk[k]) <= 1
            BY <1>0, <1>1, <1>2, <2>1, <2>3, JobFacts DEF PeerOK, FileOK
        <3>2. wanted'[p] = None /\ r = r0 \cup {None} /\ p \notin DOMAIN draftsMap'
            BY <1>1, <1>8, <2>0, <2>3 DEF DraftsInv
        <3>3. WantedOK(p, r)' /\ UnsavedOK(p, r)'
            BY <3>2 DEF WantedOK, UnsavedOK
        <3>4. ASSUME p \in DOMAIN SavedMap
              PROVE  /\ ~Uses(SavedMap[p])' /\ Now(disk'[SavedMap[p]]) \in r
                     /\ Now(disk'[SavedMap[p]]) # None => SavedMap[p] = k
            <4>1. SavedMap[p] \in Names
                BY <1>2, <3>4, SavedMapFacts, MapFacts, UsedKeys DEF StoreInv
            <4>2. CASE SavedMap[p] = k
                <5>1. ~Uses(k)'
                    BY <1>0, <1>1, UsedKeys DEF Uses
                <5>2. Now(g) \in r
                    BY <1>5, <3>1, <3>2
                <5>3. QED
                    BY <1>6, <4>2, <5>1, <5>2
            <4>3. CASE SavedMap[p] # k
                <5>1. ~Kept(p)
                    BY <1>0, <4>3 DEF Kept
                <5>2. ~Uses(SavedMap[p]) /\ Now(disk[SavedMap[p]]) = None
                    BY <1>2, <2>1, <2>3, <3>4, <5>1, JobFacts DEF PeerOK, SavedOK
                <5>3. disk'[SavedMap[p]] = disk[SavedMap[p]]
                    BY <1>6, <4>1, <4>3
                <5>4. ~Uses(SavedMap[p])'
                    BY <1>6, <1>7, <5>2 DEF Uses
                <5>5. QED
                    BY <3>2, <5>2, <5>3, <5>4
            <4>4. QED
                BY <4>2, <4>3
        <3>5. SavedOK(p, r)'
            BY <1>1, <1>4, <1>6, <3>2, <3>4 DEF SavedOK
        <3>6. QED
            BY <2>3, <3>2, <3>3, <3>5 DEF PeerOK
    <2>4. QED
        BY <2>2, <2>3
<1>9. wanted' \in [Peers -> Contents] /\ recent' \in [Peers -> SUBSET Contents]
    BY <1>1 DEF DraftsInv, Contents
<1>10. QED
    BY <1>1, <1>2, <1>8, <1>9, Together

LEMMA WriteDraftDrafts ==
    ASSUME StoreInv, DraftsInv, ~WritesUnread, NEW p \in Peers, NEW t \in Texts, WriteDraft(p, t)
    PROVE  DraftsInv'
<1>0. PICK k : k = draftsMap[p]
    OBVIOUS
<1>1. /\ Sync /\ p \in DOMAIN draftsMap /\ p \notin notRead /\ notRead' = notRead \ {p}
      /\ running' = running /\ keysMade' = keysMade /\ mapChanged' = mapChanged /\ draftsMap' = draftsMap
      /\ disk' = [disk EXCEPT ![k] = Opened(disk[k])] /\ job' = Writing(k, t)
      /\ wanted' = [wanted EXCEPT ![p] = t] /\ recent' = [recent EXCEPT ![p] = @ \cup {t}]
    BY <1>0 DEF WriteDraft, MayWrite, Wants, Opens
<1>2. MapThere /\ running /\ job = Idle
    BY <1>1, AtRest DEF Sync
<1>3. k \in 1 .. keysMade /\ k \in Names /\ disk[k] \in Files /\ k # MapName /\ Opened(disk[k]) \in Files
    BY <1>0, <1>1, UsedKeys, OpenedFacts
<1>4. /\ disk'[k] = Opened(disk[k]) /\ \A n \in Names : n # k => disk'[n] = disk[n]
      /\ MapThere' /\ SavedMap' = SavedMap
    <2>1. /\ disk'[k] = Opened(disk[k]) /\ \A n \in Names : n # k => disk'[n] = disk[n]
          /\ disk'[MapName] = disk[MapName]
        BY <1>1, <1>3, DraftFileStep
    <2>2. QED
        BY <1>2, <2>1 DEF MapThere, SavedMap
<1>5. \A n : Uses(n)' => Uses(n)
    BY <1>1 DEF Uses
<1>6. ASSUME NEW q \in Peers, NEW r, r = recent'[q]
      PROVE  PeerOK(q, r)'
    <2>0. PICK r0 : r0 = recent[q]
        OBVIOUS
    <2>1. PeerOK(q, r0)
        BY <1>2, <2>0 DEF DraftsInv
    <2>2. CASE q # p
        <3>1. /\ q \in DOMAIN draftsMap => draftsMap[q] # k
              /\ q \in DOMAIN SavedMap => SavedMap[q] # k
            BY <1>0, <1>1, <1>2, <2>1, <2>2, FilesDiffer
        <3>2. wanted'[q] = wanted[q] /\ (q \in notRead' <=> q \in notRead) /\ r = r0
            BY <1>1, <1>6, <2>0, <2>2 DEF DraftsInv
        <3>3. q \in DOMAIN SavedMap /\ Uses(SavedMap[q])' => Uses(SavedMap[q])
            BY <1>4, <1>5 DEF Uses
        <3>4. \/ job' = Idle \/ job' = Clearing(k) \/ \E c : job' = Writing(k, c)
            BY <1>1
        <3>5. PeerOK(q, r0)'
            BY <1>1, <1>3, <1>4, <2>1, <3>1, <3>2, <3>3, <3>4, OtherPeers
        <3>6. QED
            BY <3>2, <3>5
    <2>3. CASE q = p
        <3>1. Now(disk[k]) \in r0 /\ Len(disk[k]) <= 1
            BY <1>0, <1>1, <1>2, <2>1, <2>3, JobFacts DEF PeerOK, FileOK
        <3>2. wanted'[p] = t /\ r = r0 \cup {t} /\ p \in DOMAIN draftsMap' /\ draftsMap'[p] = k
            BY <1>0, <1>1, <1>6, <2>0, <2>3 DEF DraftsInv
        <3>3. Now(Opened(disk[k])) = Now(disk[k])
            BY <1>3, <3>1, OpenedFacts DEF Now
        <3>4. FileOK(p, r)'
            BY <1>1, <1>4, <3>1, <3>2, <3>3 DEF FileOK
        <3>5. WantedOK(p, r)' /\ UnsavedOK(p, r)'
            BY <1>1, <1>2, <1>4, <2>1, <2>3, <3>2 DEF PeerOK, WantedOK, UnsavedOK
        <3>6. ASSUME p \in DOMAIN SavedMap, ~Kept(p)
              PROVE  /\ ~Uses(SavedMap[p])' /\ Now(disk'[SavedMap[p]]) = None /\ None \in r
                     /\ ~mapChanged' => p \notin DOMAIN draftsMap'
            <4>1. SavedMap[p] \in Names
                BY <1>2, <3>6, SavedMapFacts, MapFacts, UsedKeys DEF StoreInv
            <4>2. ~Uses(SavedMap[p]) /\ Now(disk[SavedMap[p]]) = None /\ None \in r0
                  /\ (~mapChanged => p \notin DOMAIN draftsMap)
                BY <1>2, <2>1, <2>3, <3>6, JobFacts DEF PeerOK, SavedOK
            <4>3. SavedMap[p] # k
                BY <1>0, <1>1, <4>2 DEF Uses
            <4>4. disk'[SavedMap[p]] = disk[SavedMap[p]]
                BY <1>4, <4>1, <4>3
            <4>5. ~Uses(SavedMap[p])'
                BY <1>4, <1>5, <4>2 DEF Uses
            <4>6. QED
                BY <1>1, <3>2, <4>2, <4>4, <4>5
        <3>7. Kept(p)' = Kept(p)
            BY <1>1, <1>2, <1>4 DEF Kept
        <3>8. SavedOK(p, r)'
            BY <1>4, <3>6, <3>7 DEF SavedOK
        <3>9. QED
            BY <2>3, <3>4, <3>5, <3>8 DEF PeerOK
    <2>4. QED
        BY <2>2, <2>3
<1>7. wanted' \in [Peers -> Contents] /\ recent' \in [Peers -> SUBSET Contents]
    BY <1>1 DEF DraftsInv, Contents
<1>8. QED
    BY <1>1, <1>2, <1>6, <1>7, Together

LEMMA WriteNewDraftDrafts ==
    ASSUME StoreInv, DraftsInv, NEW p \in Peers, NEW t \in Texts, WriteNewDraft(p, t)
    PROVE  DraftsInv'
<1>0. PICK k : k = keysMade + 1
    OBVIOUS
<1>1. /\ Sync /\ p \notin DOMAIN draftsMap /\ notRead' = notRead /\ keysMade < MaxKeys
      /\ running' = running /\ mapChanged'
      /\ draftsMap' = [q \in DOMAIN draftsMap \cup {p} |-> IF q = p THEN k ELSE draftsMap[q]]
      /\ disk' = [disk EXCEPT ![k] = Opened(disk[k])] /\ job' = Writing(k, t)
      /\ wanted' = [wanted EXCEPT ![p] = t] /\ recent' = [recent EXCEPT ![p] = @ \cup {t}]
    BY <1>0 DEF WriteNewDraft, MayWrite, Wants, Opens
<1>2. MapThere /\ running /\ job = Idle
    BY <1>1, AtRest DEF Sync
<1>3. /\ keysMade \in Nat /\ k \in Keys /\ k \in Names /\ k # MapName /\ MapName \in Names
      /\ \A n \in 1 .. keysMade : n # k
    BY <1>0, <1>1, UsedKeys
<1>4. disk[k] = <<>>
    BY <1>0, <1>3 DEF StoreInv, FilesInv
<1>5. ~CanRead(Opened(disk[k]))
    <2>1. disk[k] \in Files /\ ~CanRead(disk[k])
        BY <1>3, <1>4, UsedKeys DEF CanRead
    <2>2. QED
        BY <2>1, OpenedFacts
<1>6. /\ disk'[k] = Opened(disk[k]) /\ \A n \in Names : n # k => disk'[n] = disk[n]
      /\ MapThere' /\ SavedMap' = SavedMap
    <2>1. disk'[k] = Opened(disk[k]) /\ \A n \in Names : n # k => disk'[n] = disk[n]
        BY <1>1, <1>3 DEF StoreInv, FilesInv
    <2>2. disk'[MapName] = disk[MapName]
        BY <1>3, <2>1
    <2>3. QED
        BY <1>2, <2>1, <2>2 DEF MapThere, SavedMap
<1>7. \A n : n # k /\ Uses(n)' => Uses(n)
    BY <1>1 DEF Uses
<1>8. \A q \in DOMAIN SavedMap : SavedMap[q] \in Names /\ SavedMap[q] # k
    BY <1>2, <1>3, SavedMapFacts, MapFacts, UsedKeys DEF StoreInv
<1>9. ASSUME NEW q \in Peers, NEW r, r = recent'[q]
      PROVE  PeerOK(q, r)'
    <2>0. PICK r0 : r0 = recent[q]
        OBVIOUS
    <2>1. PeerOK(q, r0)
        BY <1>2, <2>0 DEF DraftsInv
    <2>2. q \in DOMAIN SavedMap /\ Uses(SavedMap[q])' => Uses(SavedMap[q])
        BY <1>6, <1>7, <1>8 DEF Uses
    <2>3. CASE q # p
        <3>1. q \in DOMAIN draftsMap => draftsMap[q] # k
            BY <1>3, UsedKeys
        <3>2. wanted'[q] = wanted[q] /\ (q \in notRead' <=> q \in notRead) /\ r = r0
              /\ (q \in DOMAIN draftsMap' <=> q \in DOMAIN draftsMap)
              /\ (q \in DOMAIN draftsMap => draftsMap'[q] = draftsMap[q])
            BY <1>1, <1>9, <2>0, <2>3 DEF DraftsInv
        <3>3. \/ job' = Idle \/ job' = Clearing(k) \/ \E c : job' = Writing(k, c)
            BY <1>1
        <3>4. PeerOK(q, r0)'
            BY <1>1, <1>3, <1>6, <1>8, <2>1, <2>2, <3>1, <3>2, <3>3, OtherPeers
        <3>5. QED
            BY <3>2, <3>4
    <2>4. CASE q = p
        <3>1. None \in r0
            BY <1>1, <2>1, <2>4 DEF PeerOK, WantedOK
        <3>2. wanted'[p] = t /\ r = r0 \cup {t} /\ p \in DOMAIN draftsMap' /\ draftsMap'[p] = k
            BY <1>1, <1>9, <2>0, <2>4 DEF DraftsInv
        <3>3. Now(Opened(disk[k])) = None
            BY <1>5 DEF Now
        <3>4. FileOK(p, r)'
            BY <1>1, <1>6, <3>1, <3>2, <3>3 DEF FileOK
        <3>5. WantedOK(p, r)' /\ UnsavedOK(p, r)'
            BY <1>1, <3>1, <3>2 DEF WantedOK, UnsavedOK
        <3>6. ASSUME p \in DOMAIN SavedMap
              PROVE  ~Uses(SavedMap[p])' /\ Now(disk'[SavedMap[p]]) = None
            <4>1. ~Kept(p)
                BY <1>1 DEF Kept
            <4>2. ~Uses(SavedMap[p]) /\ Now(disk[SavedMap[p]]) = None
                BY <1>2, <2>1, <2>4, <3>6, <4>1, JobFacts DEF PeerOK, SavedOK
            <4>3. disk'[SavedMap[p]] = disk[SavedMap[p]]
                BY <1>6, <1>8, <3>6
            <4>4. QED
                BY <2>2, <2>4, <3>6, <4>2, <4>3
        <3>7. SavedOK(p, r)'
            BY <1>1, <1>6, <3>1, <3>2, <3>6 DEF SavedOK
        <3>8. QED
            BY <2>4, <3>4, <3>5, <3>7 DEF PeerOK
    <2>5. QED
        BY <2>3, <2>4
<1>10. wanted' \in [Peers -> Contents] /\ recent' \in [Peers -> SUBSET Contents]
    BY <1>1 DEF DraftsInv, Contents
<1>11. QED
    BY <1>1, <1>2, <1>9, <1>10, Together

LEMMA MapWriteTimeoutDrafts ==
    ASSUME StoreInv, DraftsInv, MapWriteTimeout
    PROVE  DraftsInv'
<1>1. /\ Sync /\ notRead' = notRead /\ mapChanged' = mapChanged /\ running' = running
      /\ draftsMap' = draftsMap /\ wanted' = wanted /\ recent' = recent
      /\ disk' = [disk EXCEPT ![MapName] = Opened(@)] /\ job' = Writing(MapName, draftsMap)
    BY DEF MapWriteTimeout, Opens, pastVars
<1>2. MapThere /\ running /\ job = Idle
    BY <1>1, AtRest DEF Sync
<1>3. MapThere' /\ SavedMap' = SavedMap
    BY <1>2, MapStep, JobFacts DEF MapWriteTimeout, Next, FileStep, Completes
<1>4. MapName \in Names /\ \A n \in Names : n # MapName => disk'[n] = disk[n]
    BY <1>1, UsedKeys DEF StoreInv, FilesInv
<1>5. ASSUME NEW q \in Peers, NEW r, r = recent'[q]
      PROVE  PeerOK(q, r)'
    <2>1. PeerOK(q, r)
        BY <1>1, <1>2, <1>5 DEF DraftsInv
    <2>2. /\ q \in DOMAIN draftsMap => draftsMap[q] # MapName
          /\ q \in DOMAIN SavedMap => SavedMap[q] # MapName
        BY <1>2, SavedMapFacts, MapFacts, UsedKeys DEF StoreInv
    <2>3. q \in DOMAIN SavedMap /\ Uses(SavedMap[q])' => Uses(SavedMap[q])
        BY <1>1, <1>3 DEF Uses
    <2>4. \/ job' = Idle \/ job' = Clearing(MapName) \/ \E c : job' = Writing(MapName, c)
        BY <1>1
    <2>5. QED
        BY <1>1, <1>3, <1>4, <2>1, <2>2, <2>3, <2>4, OtherPeers
<1>6. QED
    BY <1>1, <1>2, <1>5, Together DEF DraftsInv

\* While a draft is written, the others rest.
LEMMA WhileWriting ==
    ASSUME StoreInv, NEW p \in DOMAIN draftsMap, OnDraft(p), NEW k, k = draftsMap[p],
           NEW q \in Peers, NEW r, PeerOK(q, r),
           \A n \in Names : n # k => disk'[n] = disk[n],
           draftsMap' = draftsMap, notRead' = notRead, mapChanged' = mapChanged, wanted' = wanted,
           MapThere' = MapThere, SavedMap' = SavedMap,
           job' = Written(k) \/ job' = Idle
    PROVE  /\ WantedOK(q, r)' /\ SavedOK(q, r)' /\ UnsavedOK(q, r)'
           /\ q # p => PeerOK(q, r)'
<1>1. WantedOK(q, r)' /\ UnsavedOK(q, r)'
    BY DEF PeerOK, WantedOK, UnsavedOK
<1>2. Kept(q)' = Kept(q)
    BY DEF Kept
<1>3. \A n : Uses(n)' <=> Uses(n)
    BY DEF Uses
<1>4. job.does \in {"write", "close"}
    BY JobFacts DEF OnDraft
<1>5. ASSUME MapThere, q \in DOMAIN SavedMap, ~Kept(q)
      PROVE  /\ ~Uses(SavedMap[q])' /\ Now(disk'[SavedMap[q]]) = None /\ None \in r
             /\ ~mapChanged => q \notin DOMAIN draftsMap
    <2>1. SavedMap[q] \in Names
        BY <1>5, SavedMapFacts, MapFacts, UsedKeys DEF StoreInv
    <2>2. /\ ~Uses(SavedMap[q]) /\ None \in r /\ Now(disk[SavedMap[q]]) = None
          /\ ~mapChanged => q \notin DOMAIN draftsMap
        BY <1>4, <1>5, JobFacts DEF PeerOK, SavedOK
    <2>3. SavedMap[q] # k
        BY <2>2 DEF Uses
    <2>4. ~Uses(SavedMap[q])'
        BY <1>3, <2>2 DEF Uses
    <2>5. QED
        BY <2>1, <2>2, <2>3, <2>4
<1>6. SavedOK(q, r)'
    BY <1>2, <1>5 DEF SavedOK
<1>7. ASSUME q # p, q \in DOMAIN draftsMap
      PROVE  FileOK(q, r)'
    <2>1. draftsMap[q] # k /\ draftsMap[q] \in Names
        BY <1>7, UsedKeys
    <2>2. disk'[draftsMap'[q]] = disk[draftsMap[q]]
        BY <2>1
    <2>3. job # Writing(draftsMap[q], wanted[q]) /\ job # Written(draftsMap[q])
        BY <2>1, JobFacts DEF OnDraft
    <2>4. /\ Now(disk[draftsMap[q]]) = wanted[q] /\ Now(disk[draftsMap[q]]) \in r
          /\ q \notin notRead => Len(disk[draftsMap[q]]) <= 1
        BY <1>7, <2>3 DEF PeerOK, FileOK
    <2>5. ~OnDraft(q)'
        BY <2>1, JobFacts DEF OnDraft
    <2>6. QED
        BY <2>2, <2>4, <2>5 DEF FileOK
<1>8. QED
    BY <1>1, <1>6, <1>7 DEF PeerOK

LEMMA CompletesDrafts ==
    ASSUME StoreInv, DraftsInv, Completes
    PROVE  DraftsInv'
<1>1. /\ job.does = "write" /\ disk' = [disk EXCEPT ![job.name] = Completed(@, job.content)]
      /\ job' = Written(job.name) /\ running' = running /\ keysMade' = keysMade
      /\ draftsMap' = draftsMap /\ notRead' = notRead /\ mapChanged' = mapChanged
      /\ wanted' = wanted /\ recent' = recent
    BY DEF Completes, mapVars, pastVars
<1>2. running
    BY <1>1, JobFacts DEF StoreInv, MemoryInv
<1>3. CASE WritesMap
    <2>1. job.name = MapName /\ job.content = draftsMap /\ disk[MapName] # <<>>
        BY <1>3, JobFacts DEF WritesMap
    <2>2. /\ disk'[MapName] = Completed(disk[MapName], draftsMap)
          /\ \A n \in Names : n # MapName => disk'[n] = disk[n]
        BY <1>1, <2>1, UsedKeys DEF StoreInv, FilesInv
    <2>3. MapThere' /\ SavedMap' = draftsMap
        BY <2>1, <2>2, UsedKeys, CompletedFacts DEF MapThere, SavedMap, StoreInv, MemoryInv, MapOf
    <2>4. ASSUME NEW q \in Peers, NEW r, r = recent'[q]
          PROVE  PeerOK(q, r)'
        <3>1. PeerOK(q, r)
            BY <1>1, <1>2, <2>4 DEF DraftsInv
        <3>2. WantedOK(q, r)' /\ SavedOK(q, r)' /\ UnsavedOK(q, r)'
            BY <1>1, <2>3, <3>1 DEF PeerOK, WantedOK, SavedOK, UnsavedOK, Kept
        <3>3. ASSUME q \in DOMAIN draftsMap
              PROVE  FileOK(q, r)'
            <4>1. draftsMap[q] # MapName /\ draftsMap[q] \in Names
                BY <3>3, UsedKeys
            <4>2. disk'[draftsMap'[q]] = disk[draftsMap[q]]
                BY <1>1, <2>2, <4>1
            <4>3. job # Writing(draftsMap[q], wanted[q]) /\ job # Written(draftsMap[q])
                BY <1>1, <2>1, <4>1, JobFacts
            <4>4. ~OnDraft(q)'
                BY <1>1, <2>1, <4>1, JobFacts DEF OnDraft
            <4>5. QED
                BY <1>1, <3>1, <3>3, <4>2, <4>3, <4>4 DEF PeerOK, FileOK
        <3>4. QED
            BY <1>1, <3>2, <3>3 DEF PeerOK
    <2>5. QED
        BY <1>1, <1>2, <2>4, Together DEF DraftsInv
<1>4. ASSUME NEW p \in DOMAIN draftsMap, OnDraft(p)
      PROVE  DraftsInv'
    <2>0. PICK k : k = draftsMap[p]
        OBVIOUS
    <2>1. PICK t \in Texts : job = Writing(k, t) /\ disk[k] # <<>>
        BY <1>1, <1>4, <2>0, JobFacts DEF OnDraft
    <2>2. job.name = k /\ job.content = t
        BY <2>1, JobFacts
    <2>3. k \in 1 .. keysMade /\ k \in Names /\ disk[k] \in Files /\ k # MapName /\ p \in Peers
        BY <2>0, UsedKeys
    <2>4. PICK g : g = Completed(disk[k], t)
        OBVIOUS
    <2>5. g \in Files /\ Last(g) = Good(t) /\ Now(g) = t
        BY <2>1, <2>3, <2>4, CompletedFacts DEF Now
    <2>6. /\ disk'[k] = g /\ \A n \in Names : n # k => disk'[n] = disk[n]
          /\ MapThere' = MapThere /\ SavedMap' = SavedMap
        <3>1. /\ disk'[k] = g /\ \A n \in Names : n # k => disk'[n] = disk[n]
              /\ disk'[MapName] = disk[MapName]
            BY <1>1, <2>2, <2>3, <2>4, <2>5, DraftFileStep
        <3>2. QED
            BY <3>1 DEF MapThere, SavedMap
    <2>7. ASSUME NEW q \in Peers, NEW r, r = recent'[q]
          PROVE  PeerOK(q, r)'
        <3>1. PeerOK(q, r)
            BY <1>1, <1>2, <2>7 DEF DraftsInv
        <3>2. /\ WantedOK(q, r)' /\ SavedOK(q, r)' /\ UnsavedOK(q, r)'
              /\ q # p => PeerOK(q, r)'
            BY <1>1, <1>4, <2>0, <2>2, <2>6, <3>1, WhileWriting
        <3>3. CASE q = p
            <4>1. job # Written(k)
                BY <2>1, JobFacts
            <4>2. t = wanted[p]
                BY <1>4, <2>0, <2>1, <3>1, <3>3, <4>1, JobFacts DEF PeerOK, FileOK
            <4>3. FileOK(p, r)'
                BY <1>1, <2>0, <2>2, <2>5, <2>6, <3>1, <3>3, <4>2 DEF PeerOK, WantedOK, FileOK
            <4>4. QED
                BY <3>2, <3>3, <4>3 DEF PeerOK
        <3>4. QED
            BY <3>2, <3>3
    <2>8. QED
        BY <1>1, <1>2, <2>7, Together DEF DraftsInv
<1>5. QED
    BY <1>1, <1>3, <1>4, JobFacts DEF StoreInv, JobInv, ClearsUnused, ClosesMap

LEMMA ClosesDrafts ==
    ASSUME StoreInv, DraftsInv, Closes
    PROVE  DraftsInv'
<1>1. /\ job.does = "close" /\ disk' = [disk EXCEPT ![job.name] = Closed(@)]
      /\ job' = Idle /\ mapChanged' = (mapChanged /\ job.name # MapName)
      /\ running' = running /\ keysMade' = keysMade /\ draftsMap' = draftsMap
      /\ notRead' = notRead /\ wanted' = wanted /\ Settles
    BY DEF Closes
<1>2. running
    BY <1>1, JobFacts DEF StoreInv, MemoryInv
<1>3. CASE ClosesMap
    <2>1. job.name = MapName /\ disk[MapName] # <<>> /\ Last(disk[MapName]) = Good(draftsMap)
        BY <1>3, JobFacts DEF ClosesMap
    <2>2. /\ disk'[MapName] = Closed(disk[MapName])
          /\ \A n \in Names : n # MapName => disk'[n] = disk[n]
        BY <1>1, <2>1, UsedKeys DEF StoreInv, FilesInv
    <2>3. MapThere' /\ SavedMap' = draftsMap
        <3>1. disk[MapName] \in Files /\ Good(draftsMap).good /\ Good(draftsMap).holds = draftsMap
            BY UsedKeys DEF Good
        <3>2. QED
            BY <2>1, <2>2, <3>1, ClosedFacts DEF MapThere, SavedMap
    <2>4. ASSUME NEW q \in Peers, NEW r, r = recent[q]
          PROVE  PeerOK(q, r)'
        <3>1. PeerOK(q, r)
            BY <1>1, <1>2, <2>4 DEF DraftsInv
        <3>2. WantedOK(q, r)' /\ SavedOK(q, r)' /\ UnsavedOK(q, r)'
            BY <1>1, <2>3, <3>1 DEF PeerOK, WantedOK, SavedOK, UnsavedOK, Kept
        <3>3. ASSUME q \in DOMAIN draftsMap
              PROVE  FileOK(q, r)'
            <4>1. draftsMap[q] # MapName /\ draftsMap[q] \in Names
                BY <3>3, UsedKeys
            <4>2. disk'[draftsMap'[q]] = disk[draftsMap[q]]
                BY <1>1, <2>2, <4>1
            <4>3. job # Writing(draftsMap[q], wanted[q]) /\ job # Written(draftsMap[q])
                BY <1>1, <2>1, <4>1, JobFacts
            <4>4. ~OnDraft(q)'
                BY <1>1, JobFacts DEF OnDraft
            <4>5. QED
                BY <1>1, <3>1, <3>3, <4>2, <4>3, <4>4 DEF PeerOK, FileOK
        <3>4. QED
            BY <1>1, <3>2, <3>3 DEF PeerOK
    <2>5. QED
        BY <1>1, <1>2, <2>4, Settled
<1>4. ASSUME NEW p \in DOMAIN draftsMap, OnDraft(p)
      PROVE  DraftsInv'
    <2>0. PICK k : k = draftsMap[p]
        OBVIOUS
    <2>1. job = Written(k) /\ disk[k] # <<>> /\ Last(disk[k]).good
        BY <1>1, <1>4, <2>0, JobFacts DEF OnDraft
    <2>2. job.name = k
        BY <2>1, JobFacts
    <2>3. k \in 1 .. keysMade /\ k \in Names /\ disk[k] \in Files /\ k # MapName /\ p \in Peers
        BY <2>0, UsedKeys
    <2>4. PICK g : g = Closed(disk[k])
        OBVIOUS
    <2>5. g \in Files /\ Len(g) = 1 /\ Now(g) = Last(disk[k]).holds
        BY <2>1, <2>3, <2>4, ClosedFacts DEF Now
    <2>6. /\ disk'[k] = g /\ \A n \in Names : n # k => disk'[n] = disk[n]
          /\ MapThere' = MapThere /\ SavedMap' = SavedMap
        <3>1. /\ disk'[k] = g /\ \A n \in Names : n # k => disk'[n] = disk[n]
              /\ disk'[MapName] = disk[MapName]
            BY <1>1, <2>2, <2>3, <2>4, <2>5, DraftFileStep
        <3>2. QED
            BY <3>1 DEF MapThere, SavedMap
    <2>7. mapChanged' = mapChanged
        BY <1>1, <2>2, <2>3 DEF StoreInv, MemoryInv
    <2>8. ASSUME NEW q \in Peers, NEW r, r = recent[q]
          PROVE  PeerOK(q, r)'
        <3>1. PeerOK(q, r)
            BY <1>1, <1>2, <2>8 DEF DraftsInv
        <3>2. /\ WantedOK(q, r)' /\ SavedOK(q, r)' /\ UnsavedOK(q, r)'
              /\ q # p => PeerOK(q, r)'
            BY <1>1, <1>4, <2>0, <2>2, <2>6, <2>7, <3>1, WhileWriting
        <3>3. CASE q = p
            <4>1. Last(disk[k]) = Good(wanted[p])
                BY <1>4, <2>0, <2>1, <3>1, <3>3, JobFacts DEF PeerOK, FileOK
            <4>2. Now(g) = wanted[p]
                BY <2>5, <4>1 DEF Good
            <4>3. ~OnDraft(p)'
                BY <1>1, JobFacts DEF OnDraft
            <4>4. FileOK(p, r)'
                <5>1. disk'[draftsMap'[p]] = g
                    BY <1>1, <2>0, <2>6
                <5>2. Now(g) = wanted'[p] /\ Now(g) \in r /\ Len(g) <= 1
                    BY <1>1, <2>5, <3>1, <3>3, <4>2 DEF PeerOK, WantedOK
                <5>3. QED
                    BY <4>3, <5>1, <5>2 DEF FileOK
            <4>5. QED
                BY <3>2, <3>3, <4>4 DEF PeerOK
        <3>4. QED
            BY <3>2, <3>3
    <2>9. QED
        BY <1>1, <1>2, <2>8, Settled
<1>5. QED
    BY <1>1, <1>3, <1>4, JobFacts DEF StoreInv, JobInv, ClearsUnused, WritesMap

\* What nobody uses may be removed.
LEMMA UnusedRemoved ==
    ASSUME StoreInv, NEW k \in 1 .. keysMade, ~Uses(k), disk' = [disk EXCEPT ![k] = <<>>],
           NEW q \in Peers, NEW r, PeerOK(q, r),
           keysMade' = keysMade, draftsMap' = draftsMap, notRead' = notRead,
           mapChanged' = mapChanged, wanted' = wanted,
           job' = job \/ (job = Clearing(k) /\ job' = Idle)
    PROVE  PeerOK(q, r)'
<1>1. /\ disk'[k] = <<>> /\ \A n \in Names : n # k => disk'[n] = disk[n]
      /\ MapThere' = MapThere /\ SavedMap' = SavedMap
    <2>1. <<>> \in Files
        BY DEF Files
    <2>2. /\ disk'[k] = <<>> /\ \A n \in Names : n # k => disk'[n] = disk[n]
          /\ disk'[MapName] = disk[MapName]
        BY <2>1, DraftFileStep
    <2>3. QED
        BY <2>2 DEF MapThere, SavedMap
<1>2. WantedOK(q, r)' /\ UnsavedOK(q, r)'
    BY <1>1 DEF PeerOK, WantedOK, UnsavedOK
<1>3. Kept(q)' = Kept(q)
    BY <1>1 DEF Kept
<1>4. \A n : Uses(n)' <=> Uses(n)
    BY DEF Uses
<1>5. Now(<<>>) = None
    BY DEF Now, CanRead
<1>6. ASSUME q \in DOMAIN draftsMap
      PROVE  FileOK(q, r)'
    <2>1. draftsMap[q] \in Names /\ draftsMap[q] # k
        BY <1>6, UsedKeys DEF Uses
    <2>2. disk'[draftsMap'[q]] = disk[draftsMap[q]]
        BY <1>1, <2>1
    <2>3. CASE job' = job
        <3>1. OnDraft(q)' = OnDraft(q)
            BY <2>2, <2>3 DEF OnDraft
        <3>2. QED
            BY <1>6, <2>2, <2>3, <3>1 DEF PeerOK, FileOK
    <2>4. CASE job = Clearing(k) /\ job' = Idle
        <3>1. ~OnDraft(q)' /\ job # Writing(draftsMap[q], wanted[q]) /\ job # Written(draftsMap[q])
            BY <2>4, JobFacts DEF OnDraft
        <3>2. QED
            BY <1>6, <2>2, <3>1 DEF PeerOK, FileOK
    <2>5. QED
        BY <2>3, <2>4
<1>7. ASSUME MapThere, q \in DOMAIN SavedMap, ~Kept(q)
      PROVE  /\ ~Uses(SavedMap[q])' /\ None \in r /\ Now(disk'[SavedMap[q]]) \in r
             /\ Now(disk'[SavedMap[q]]) # None => job' = Clearing(SavedMap[q]) /\ mapChanged
             /\ ~mapChanged => q \notin DOMAIN draftsMap
    <2>1. SavedMap[q] \in Names
        BY <1>7, SavedMapFacts, MapFacts, UsedKeys DEF StoreInv
    <2>2. /\ ~Uses(SavedMap[q]) /\ None \in r /\ Now(disk[SavedMap[q]]) \in r
          /\ Now(disk[SavedMap[q]]) # None => job = Clearing(SavedMap[q]) /\ mapChanged
          /\ ~mapChanged => q \notin DOMAIN draftsMap
        BY <1>7 DEF PeerOK, SavedOK
    <2>3. ~Uses(SavedMap[q])'
        BY <1>1, <1>4, <2>2 DEF Uses
    <2>4. CASE SavedMap[q] = k
        BY <1>1, <1>5, <2>2, <2>3, <2>4
    <2>5. CASE SavedMap[q] # k
        <3>1. disk'[SavedMap[q]] = disk[SavedMap[q]]
            BY <1>1, <2>1, <2>5
        <3>2. job = Clearing(SavedMap[q]) => job' = job
            BY <2>5, JobFacts
        <3>3. QED
            BY <2>2, <2>3, <3>1, <3>2
    <2>6. QED
        BY <2>4, <2>5
<1>8. SavedOK(q, r)'
    BY <1>1, <1>3, <1>7 DEF SavedOK
<1>9. QED
    BY <1>2, <1>6, <1>8 DEF PeerOK

LEMMA ClearsAllDrafts ==
    ASSUME StoreInv, DraftsInv, ClearsAll
    PROVE  DraftsInv'
<1>1. /\ job.does = "clear" /\ disk' = [disk EXCEPT ![job.name] = <<>>]
      /\ job' = Idle /\ mapChanged' = mapChanged
      /\ running' = running /\ keysMade' = keysMade /\ draftsMap' = draftsMap
      /\ notRead' = notRead /\ wanted' = wanted /\ Settles
    BY DEF ClearsAll
<1>2. running
    BY <1>1, JobFacts DEF StoreInv, MemoryInv
<1>3. PICK k \in 1 .. keysMade : job = Clearing(k) /\ ~Uses(k)
    BY <1>1, JobFacts DEF StoreInv, JobInv, ClearsUnused, WritesMap, ClosesMap, OnDraft
<1>4. job.name = k
    BY <1>3, JobFacts
<1>5. ASSUME NEW q \in Peers, NEW r, r = recent[q]
      PROVE  PeerOK(q, r)'
    <2>1. PeerOK(q, r)
        BY <1>2, <1>5 DEF DraftsInv
    <2>2. QED
        BY <1>1, <1>3, <1>4, <2>1, UnusedRemoved
<1>6. QED
    BY <1>1, <1>2, <1>5, Settled

LEMMA CleanUpDrafts ==
    ASSUME StoreInv, DraftsInv, CleanUpStep
    PROVE  DraftsInv'
<1>1. /\ running' = running /\ running /\ keysMade' = keysMade /\ mapChanged' = mapChanged
      /\ draftsMap' = draftsMap /\ notRead' = notRead /\ job' = job
      /\ wanted' = wanted /\ recent' = recent
    BY DEF CleanUpStep, CleanerLists, CollectGoodNames, CleanerRemoves, CleanerStep, mapVars, pastVars
<1>2. disk' = disk \/ \E k \in 1 .. keysMade : ~Uses(k) /\ disk' = [disk EXCEPT ![k] = <<>>]
    <2>1. CASE CleanerRemoves
        <3>1. PICK n \in cleaner.files : disk' = [disk EXCEPT ![n] = <<>>] /\ cleaner.does = "remove"
            BY <2>1 DEF CleanerRemoves
        <3>2. PICK S \in SUBSET (1 .. keysMade) : cleaner = Removing(S) /\ \A k \in S : ~Uses(k)
            BY <3>1, CleanerFacts DEF StoreInv, CleanerInv
        <3>3. cleaner.files = S
            BY <3>2, CleanerFacts
        <3>4. QED
            BY <3>1, <3>2, <3>3
    <2>2. QED
        BY <2>1 DEF CleanUpStep, CleanerLists, CollectGoodNames
<1>3. ASSUME NEW q \in Peers, NEW r, r = recent'[q]
      PROVE  PeerOK(q, r)'
    <2>1. PeerOK(q, r)
        BY <1>1, <1>3 DEF DraftsInv
    <2>2. CASE disk' = disk
        BY <1>1, <2>1, <2>2 DEF PeerOK, WantedOK, FileOK, SavedOK, UnsavedOK, Kept, OnDraft, Uses,
                                MapThere, SavedMap
    <2>3. QED
        BY <1>1, <1>2, <2>1, <2>2, UnusedRemoved
<1>4. QED
    BY <1>1, <1>3, Together DEF DraftsInv

LEMMA DraftsStep ==
    ASSUME StoreInv, DraftsInv, ~WritesUnread, [Next]_vars
    PROVE  DraftsInv'
<1>1. CASE DraftStep
    BY <1>1, ReadDraftDrafts, RemoveDraftDrafts, WriteDraftDrafts, WriteNewDraftDrafts DEF DraftStep
<1>2. CASE FileStep
    BY <1>2, CompletesDrafts, ClosesDrafts, ClearsAllDrafts, MapWriteTimeoutDrafts DEF FileStep
<1>3. CASE UNCHANGED vars
    <2>1. UNCHANGED <<disk, running, keysMade, draftsMap, notRead, mapChanged, job, cleaner, wanted, recent>>
        BY <1>3 DEF vars, mapVars, pastVars
    <2>2. (\A p \in Peers : PeerOK(p, recent[p]))' = (\A p \in Peers : PeerOK(p, recent[p]))
        BY <2>1 DEF PeerOK, WantedOK, FileOK, SavedOK, UnsavedOK, Kept, OnDraft, Uses, MapThere, SavedMap
    <2>3. FindsRecent' = FindsRecent
        BY <2>1 DEF FindsRecent, Found
    <2>4. QED
        BY <2>1, <2>2, <2>3 DEF DraftsInv
<1>4. QED
    BY <1>1, <1>2, <1>3, StartDrafts, CrashDrafts, CleanUpDrafts DEF Next

LEMMA DraftsInit ==
    ASSUME Init
    PROVE  DraftsInv
<1>1. /\ disk = [n \in Names |-> <<>>] /\ running = FALSE
      /\ wanted = [p \in Peers |-> None] /\ recent = [p \in Peers |-> {None}]
    BY DEF Init
<1>2. ~MapThere
    BY <1>1 DEF MapThere, CanRead, Names
<1>3. \A p \in Peers : Found(p) = None
    BY <1>2, FoundIs, StoreInit
<1>4. QED
    BY <1>1, <1>3 DEF DraftsInv, FindsRecent, Contents

(* If no draft is written before the old one was read, whatever is killed how   *)
(* often: a start finds each draft as it was at some time since nothing was left *)
(* to write (FileWriteDescriptor, localstorage.cpp:240; readFile, 335).          *)
THEOREM RecentIsFound ==
    ASSUME ~WritesUnread
    PROVE  Spec => []FindsRecent
<1>1. StoreInv /\ DraftsInv => FindsRecent
    BY PeerFinds DEF DraftsInv, FindsRecent
<1>2. StoreInv /\ DraftsInv /\ [Next]_vars => StoreInv' /\ DraftsInv'
    BY StoreStep, DraftsStep
<1>3. QED
    BY <1>1, <1>2, StoreInit, DraftsInit, PTL DEF Spec

(* ... and as the user left it when nothing is left to write (writeDrafts, 2961; *)
(* _writeMap, 2466; CollectGoodNames, 2894).                                     *)
THEOREM SettledDraftsAreDurable ==
    ASSUME ~WritesUnread
    PROVE  Spec => []SettledIsDurable
<1>1. StoreInv /\ DraftsInv => SettledIsDurable
    BY PeerSettles DEF DraftsInv, SettledIsDurable, Sync
<1>2. StoreInv /\ DraftsInv /\ [Next]_vars => StoreInv' /\ DraftsInv'
    BY StoreStep, DraftsStep
<1>3. QED
    BY <1>1, <1>2, StoreInit, DraftsInit, PTL DEF Spec

=============================================================================
