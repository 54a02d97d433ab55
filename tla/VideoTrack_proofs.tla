-------------------------- MODULE VideoTrack_proofs --------------------------
(* Proofs about VideoTrack, for every video and every bound: the frames that   *)
(* two threads share without a lock are never used by both, and what is shown  *)
(* was made ready and comes in order.                                          *)
EXTENDS VideoTrack, FiniteSetTheorems, TLAPS

-----------------------------------------------------------------------------
(* The counter.  Its values are eight, and every fact about them is found by   *)
(* looking at each.                                                            *)

Values == 0 .. 7

LEMMA CounterValues ==
    ASSUME NEW c \in Values
    PROVE  /\ Succ(c) \in Values
           /\ Current(c) \in 0 .. 3
           /\ Prepares(c) \in 0 .. 3
           /\ After(Prepares(c)) \in 0 .. 3
<1>1. c = 0 \/ c = 1 \/ c = 2 \/ c = 3 \/ c = 4 \/ c = 5 \/ c = 6 \/ c = 7
  BY DEF Values
<1>2. QED
  BY <1>1 DEF Values, Succ, Current, Prepares, After, Even

\* The frame on the screen is not the track's, and the track has two.
LEMMA TwoOfFour ==
    ASSUME NEW c \in Values
    PROVE  /\ Prepares(c) # Current(c)
           /\ After(Prepares(c)) # Current(c)
           /\ Prepares(c) # After(Prepares(c))
<1>1. c = 0 \/ c = 1 \/ c = 2 \/ c = 3 \/ c = 4 \/ c = 5 \/ c = 6 \/ c = 7
  BY DEF Values
<1>2. QED
  BY <1>1 DEF Values, Current, Prepares, After, Even

\* The main thread goes on to the frame it was given, and the track keeps its own.
LEMMA MainGoesOn ==
    ASSUME NEW c \in Values, ~Even(c)
    PROVE  /\ Even(Succ(c))
           /\ Prepares(Succ(c)) = Prepares(c)
           /\ Current(Succ(c)) # Prepares(c)
           /\ Current(Succ(c)) # After(Prepares(c))
           /\ Current(Succ(c)) # Current(c)
<1>1. c = 0 \/ c = 1 \/ c = 2 \/ c = 3 \/ c = 4 \/ c = 5 \/ c = 6 \/ c = 7
  BY DEF Values
<1>2. QED
  BY <1>1 DEF Values, Succ, Current, Prepares, After, Even

\* The track gives the first of its two away.
LEMMA TrackGivesOne ==
    ASSUME NEW c \in Values, Even(c)
    PROVE  /\ ~Even(Succ(c))
           /\ Current(Succ(c)) = Current(c)
           /\ Current(Succ(Succ(c))) = Prepares(c)
<1>1. c = 0 \/ c = 1 \/ c = 2 \/ c = 3 \/ c = 4 \/ c = 5 \/ c = 6 \/ c = 7
  BY DEF Values
<1>2. QED
  BY <1>1 DEF Values, Succ, Current, Prepares, After, Even

-----------------------------------------------------------------------------
(* The invariant.                                                              *)

\* Until the first frame is there nobody has anything to do but the file.
TillLetters == [kind : {"till"}, till : Nat]
OnlyPackets == tasks \in Seq({"packet"}) /\ mail \in Seq(TillLetters)
NotYet ==
    counter = Uninitialized =>
        /\ at = Nothing /\ mainAt = Nothing /\ OnlyPackets
        /\ ~track.timer /\ player.stage = "initializing" /\ ~player.next

\* What the track read of the counter is what it is, or the main thread went on.
MayHaveRead(c) == c = counter \/ (~Even(c) /\ counter = Succ(c))

\* The track goes on with the two frames that are its own, and the first of them
\* is decoded when the second is, and when it is to be shown.
First  == Prepares(counter)
Second == After(Prepares(counter))
TrackOwns ==
    /\ at.does \in {"choose", "show"} => MayHaveRead(at.counter)
    /\ at.does = "read" =>
         /\ at.frame \in {First, Second}
         /\ at.frame = Second => IsDecoded(frames[First])
    /\ at.does \in {"present", "show"} => IsDecoded(frames[First])

\* The main thread paints the frame on the screen.
MainPaints == mainAt.does = "paint" => mainAt.frame = Current(counter)

Inv ==
    /\ TypeOK /\ NotYet /\ TrackOwns /\ MainPaints
    /\ PaintsItsPicture /\ NextIsThere

-----------------------------------------------------------------------------
(* Types.                                                                      *)

LEMMA PlacesAre ==
    ASSUME NEW c \in Values, NEW i \in 0 .. 3, NEW p \in Nat
    PROVE  /\ {Nothing, Preparing, Presenting, Telling} \subseteq TrackPlaces
           /\ Choosing(c) \in TrackPlaces /\ Choosing(c).does = "choose"
           /\ Showing(c) \in TrackPlaces /\ Showing(c).does = "show"
           /\ Reading(i) \in TrackPlaces /\ Reading(i).does = "read"
           /\ Choosing(c).counter = c /\ Showing(c).counter = c /\ Reading(i).frame = i
           /\ Nothing \in MainPlaces
           /\ Painting(i) \in MainPlaces /\ Painting(i).does = "paint"
           /\ Painting(i).frame = i
           /\ Marked(p) \in MainPlaces /\ Marked(p).does = "marked"
           /\ Marked(p).position = p
<1>1. /\ {Nothing, Preparing, Presenting, Telling} \subseteq TrackPlaces
      /\ Choosing(c) \in TrackPlaces /\ Showing(c) \in TrackPlaces
      /\ Reading(i) \in TrackPlaces
    BY DEF TrackPlaces, Values
<1>2. /\ Nothing \in MainPlaces /\ Painting(i) \in MainPlaces
      /\ Marked(p) \in MainPlaces
    BY DEF MainPlaces, Marked
<1>3. QED
    BY <1>1, <1>2 DEF Choosing, Showing, Reading, Painting, Marked

LEMMA TrackPlacesAre ==
    ASSUME NEW a \in TrackPlaces
    PROVE  /\ a.does \in {"nothing", "prepare", "choose", "read", "present", "show", "tell"}
           /\ a.does = "nothing" => a = Nothing
           /\ a.does = "prepare" => a = Preparing
           /\ a.does = "present" => a = Presenting
           /\ a.does \in {"choose", "show"} => a.counter \in Values
           /\ a.does = "read" => a.frame \in 0 .. 3
BY DEF TrackPlaces, Values, Nothing, Preparing, Presenting, Telling, Choosing, Showing,
       Reading

LEMMA MainPlacesAre ==
    ASSUME NEW a \in MainPlaces
    PROVE  /\ a.does \in {"nothing", "paint", "marked"}
           /\ a.does = "paint" => a.frame \in 0 .. 3
           /\ a.does = "marked" => a.position \in Nat
BY DEF MainPlaces, Nothing, Painting

LEMMA Division ==
    ASSUME NEW n \in Nat, NEW l \in Nat
    PROVE  n \div (l + 1) \in Nat /\ n % (l + 1) \in 0 .. l
OBVIOUS

LEMMA Product ==
    ASSUME NEW m \in Nat, NEW n \in Nat
    PROVE  m * n \in Nat
OBVIOUS

LEMMA Positions ==
    ASSUME video \in Videos, NEW n \in Nat
    PROVE  /\ Length \in Nat /\ Length > 0
           /\ IsEnd(n) \in BOOLEAN /\ ~IsEnd(0)
           /\ ~IsEnd(n) => PositionOf(n) \in Nat
           /\ Till(n) \in Nat
<1> DEFINE D == DOMAIN video.order
<1>1. /\ IsFiniteSet(D) /\ 0 \in D /\ D = 0 .. Cardinality(D) - 1
      /\ \A i \in D : video.order[i] \in D
    BY ConstantsAssumption DEF IsVideo
<1>2. Length \in Nat /\ Length > 0 /\ D = 0 .. Length - 1
    <2>1. Cardinality(D) \in Nat
        BY <1>1, FS_CardinalityType
    <2>2. QED
        BY <1>1, <2>1 DEF Length
<1>3. n \div (Length + 1) \in Nat /\ n % (Length + 1) \in 0 .. Length
    BY <1>2, Division
<1>4. ~IsEnd(0)
    BY <1>2 DEF IsEnd
<1>5. (n \div (Length + 1)) * Length \in Nat /\ (n \div (Length + 1) + 1) * Length \in Nat
    BY <1>2, <1>3, Product
<1>6. ASSUME ~IsEnd(n)
      PROVE  PositionOf(n) \in Nat
    <2>1. n % (Length + 1) \in D
        BY <1>2, <1>3, <1>6 DEF IsEnd
    <2>2. video.order[n % (Length + 1)] \in Nat
        BY <1>1, <1>2, <2>1
    <2>3. QED
        BY <1>5, <2>2 DEF PositionOf
<1>7. QED
    BY <1>2, <1>4, <1>5, <1>6 DEF Till, IsEnd

LEMMA CounterIs ==
    ASSUME TypeOK, counter # Uninitialized
    PROVE  counter \in Values
BY DEF TypeOK, Values, Uninitialized

\* Letters, and what is changed of the file, the track and the player, field by field.
LEMMA LetterIs ==
    ASSUME NEW n \in Nat
    PROVE  /\ TillLetter(n) \in Letters
           /\ \A k \in {"ready", "check", "waiting", "done"} : Letter(k) \in Letters
BY DEF Letters, TillLetter, Letter

LEMMA Queued ==
    ASSUME NEW S, NEW s \in Seq(S)
    PROVE  /\ \A t \in S : Append(s, t) \in Seq(S)
           /\ s # <<>> => Head(s) \in S /\ Tail(s) \in Seq(S)
OBVIOUS

LEMMA QueueReadTypes ==
    ASSUME NEW t \in Tracks, NEW rest \in Seq(Tasks), QueueRead(t, rest)
    PROVE  track' \in Tracks /\ tasks' \in Seq(Tasks)
<1>1. track' \in Tracks
    BY DEF QueueRead, Tracks
<1>2. "read" \in Tasks
    BY DEF Tasks
<1>3. QED
    BY <1>1, <1>2, Queued DEF QueueRead

LEMMA PausedTypes ==
    ASSUME TypeOK, NEW p \in Players, UpdatePausedState(p)
    PROVE  player' \in Players /\ tasks' \in Seq(Tasks)
<1> DEFINE set == [p EXCEPT !.paused = p.byUser \/ p.byWaiting]
<1>1. set \in Players /\ [set EXCEPT !.stage = "started"] \in Players
    BY DEF Players
<1>2. tasks \in Seq(Tasks)
    BY DEF TypeOK
<1>3. /\ tasks \o <<"subscribe", "resume">> \in Seq(Tasks)
      /\ Append(tasks, "pause") \in Seq(Tasks) /\ Append(tasks, "resume") \in Seq(Tasks)
    <2>1. {"subscribe", "resume", "pause"} \subseteq Tasks
        BY DEF Tasks
    <2>2. <<"subscribe", "resume">> \in Seq(Tasks)
        BY <2>1
    <2>3. QED
        BY <1>2, <2>1, <2>2
<1>4. \/ player' = set \/ player' = [set EXCEPT !.stage = "started"]
    BY DEF UpdatePausedState
<1>5. \/ tasks' = tasks \/ tasks' = tasks \o <<"subscribe", "resume">>
      \/ tasks' = Append(tasks, "pause") \/ tasks' = Append(tasks, "resume")
    BY DEF UpdatePausedState
<1> HIDE DEF set
<1>6. QED
    BY <1>1, <1>2, <1>3, <1>4, <1>5

LEMMA ReceivesTypes ==
    ASSUME NEW p \in Players, NEW n \in Int
    PROVE  Receives(p, n) \in Players
BY DEF Players, Receives, Greatest

\* A frame that is there to be taken has its place, and its position.
LEMMA TakenIs ==
    ASSUME Inv, counter # Uninitialized, HasNext
    PROVE  /\ counter \in Values /\ ~Even(counter)
           /\ Current(Succ(counter)) \in 0 .. 3
           /\ IsDecoded(frames[Current(Succ(counter))])
           /\ frames[Current(Succ(counter))].position \in Nat
           /\ frames[Current(Succ(counter))].picture
                = frames[Current(Succ(counter))].position
<1>1. counter \in Values /\ ~Even(counter)
    BY CounterIs DEF Inv, HasNext, NextIsThere
<1>2. Current(Succ(counter)) \in 0 .. 3
    BY <1>1, CounterValues
<1>3. /\ IsDecoded(frames[Current(Succ(counter))])
      /\ frames[Current(Succ(counter))].picture = frames[Current(Succ(counter))].position
    BY <1>1 DEF Inv, PaintsItsPicture
<1>4. QED
    BY <1>1, <1>2, <1>3 DEF Inv, TypeOK, IsDecoded, Frame, Position, Unknown

\* Somebody has something to show: the first frame is there.
LEMMA SomebodyShows ==
    ASSUME Inv, \/ player.next \/ player.stage # "initializing"
                \/ mail # <<>> /\ Head(mail).kind # "till"
                \/ mainAt # Nothing \/ at # Nothing \/ track.timer
                \/ tasks # <<>> /\ Head(tasks) # "packet"
    PROVE  counter \in Values
<1>1. ASSUME mail # <<>>, OnlyPackets
      PROVE  Head(mail).kind = "till"
    <2>1. Head(mail) \in TillLetters
        BY <1>1, Queued DEF OnlyPackets
    <2>2. QED
        BY <2>1 DEF TillLetters
<1>2. ASSUME tasks # <<>>, OnlyPackets
      PROVE  Head(tasks) = "packet"
    BY <1>2 DEF OnlyPackets
<1>3. counter # Uninitialized
    BY <1>1, <1>2 DEF Inv, NotYet
<1>4. QED
    BY <1>3, CounterIs DEF Inv

LEMMA FileTypes ==
    ASSUME TypeOK, FileThread
    PROVE  TypeOK'
<1>1. CASE ReadPacket
    <2>1. file.sent \in Nat /\ file.sent + 1 \in Nat
        BY DEF TypeOK
    <2>2. Till(file.sent) \in Nat /\ IsEnd(file.sent) \in BOOLEAN
        BY <2>1, Positions DEF TypeOK
    <2>3. mail' \in Seq(Letters)
        <3>1. TillLetter(Till(file.sent)) \in Letters
            BY <2>2, LetterIs
        <3>2. QED
            BY <1>1, <3>1, Queued DEF ReadPacket, TypeOK
    <2>4. tasks' \in Seq(Tasks)
        BY <1>1, Queued DEF ReadPacket, TypeOK, Tasks
    <2>5. file' \in [does : {"read", "decide", "sleep", "end", "over"}, sent : Nat]
        BY <1>1, <2>1 DEF ReadPacket
    <2>6. QED
        BY <1>1, <2>3, <2>4, <2>5 DEF ReadPacket, TypeOK, ringVars
<1> DEFINE Files == [does : {"read", "decide", "sleep", "end", "over"}, sent : Nat]
<1>0. ASSUME NEW then \in {"read", "decide", "sleep", "over"}, FileStep(then),
             semaphore' \in Nat
      PROVE  TypeOK'
    <2>1. file' \in Files
        BY <1>0 DEF FileStep, TypeOK
    <2>2. QED
        BY <1>0, <2>1 DEF FileStep, TypeOK, ringVars
<1>2. CASE FileReadsMore
    BY <1>0, <1>2 DEF FileReadsMore, TypeOK
<1>3. CASE FileWakes
    <2>1. semaphore \in Nat /\ semaphore > 0 /\ semaphore' = semaphore - 1
        BY <1>3 DEF FileWakes, TypeOK
    <2>2. semaphore' \in Nat
        BY <2>1
    <2>3. QED
        BY <1>0, <1>3, <2>2 DEF FileWakes
<1>4. CASE RoundEnds
    BY <1>0, <1>4 DEF RoundEnds, TypeOK
<1>5. QED
    BY <1>1, <1>2, <1>3, <1>4 DEF FileThread

LEMMA TrackChanged ==
    ASSUME NEW t \in Tracks
    PROVE  /\ [t EXCEPT !.fed = @ + 1, !.taken = @ + 1] \in Tracks
           /\ [t EXCEPT !.fed = @ + 1] \in Tracks
           /\ [t EXCEPT !.taken = @ + 1] \in Tracks
           /\ [t EXCEPT !.resumed = TRUE, !.paused = FALSE] \in Tracks
<1>1. t.fed \in Nat /\ t.taken \in Nat
    BY DEF Tracks
<1>2. t.fed + 1 \in Nat /\ t.taken + 1 \in Nat
    BY <1>1
<1>3. QED
    BY <1>2 DEF Tracks

LEMMA BegunTypes ==
    ASSUME Inv, Begun \/ ReadTimerFires
    PROVE  TypeOK'
<1> USE DEF Inv, TypeOK, ringVars, fileVars
<1>0. \A c \in {Nothing, Preparing} : c \in TrackPlaces
    BY PlacesAre DEF Values
<1>1. ASSUME tasks # <<>>
      PROVE  Tail(tasks) \in Seq(Tasks)
    BY <1>1, Queued
<1>2. CASE FirstPacket
    <2>1. PositionOf(0) \in Nat
        BY Positions
    <2>2. frames' \in [0 .. 3 -> Frame]
        <3>1. [position |-> PositionOf(0), displayed |-> TRUE, picture |-> PositionOf(0)]
                \in Frame
            BY <2>1 DEF Frame, Position
        <3>2. QED
            BY <1>2, <3>1 DEF FirstPacket
    <2>3. mail' \in Seq(Letters)
        BY <1>2, LetterIs, Queued DEF FirstPacket
    <2>4. [track EXCEPT !.fed = @ + 1, !.taken = @ + 1] \in Tracks
        BY TrackChanged
    <2>5. track' \in Tracks /\ tasks' \in Seq(Tasks)
        BY <1>1, <1>2, <2>4, QueueReadTypes DEF FirstPacket, Begins
    <2>6. QED
        BY <1>2, <2>2, <2>3, <2>5 DEF FirstPacket, Begins
<1>3. CASE NextPacket
    <2>1. [track EXCEPT !.fed = @ + 1] \in Tracks
        BY TrackChanged
    <2>2. track' \in Tracks /\ tasks' \in Seq(Tasks)
        BY <1>1, <1>3, <2>1, QueueReadTypes DEF NextPacket, Begins
    <2>3. QED
        BY <1>3, <2>2 DEF NextPacket, Begins
<1>4. CASE FrameDisplayed
    <2>1. track' \in Tracks /\ tasks' \in Seq(Tasks)
        BY <1>1, <1>4, QueueReadTypes DEF FrameDisplayed, Begins
    <2>2. QED
        BY <1>4, <2>1 DEF FrameDisplayed, Begins
<1>5. CASE Resume
    <2>1. [track EXCEPT !.resumed = TRUE, !.paused = FALSE] \in Tracks
        BY TrackChanged
    <2>2. track' \in Tracks /\ tasks' \in Seq(Tasks)
        BY <1>1, <1>5, <2>1, QueueReadTypes DEF Resume, Begins
    <2>3. QED
        BY <1>5, <2>2 DEF Resume, Begins
<1>6. CASE Pause
    <2>1. track' \in Tracks
        BY <1>6 DEF Pause, Tracks
    <2>2. QED
        BY <1>1, <1>6, <2>1 DEF Pause, Begins
<1>7. CASE Subscribe
    <2>1. track' \in Tracks
        BY <1>7 DEF Subscribe, Tracks
    <2>2. mail' \in Seq(Letters)
        BY <1>7, LetterIs, Queued DEF Subscribe
    <2>3. QED
        BY <1>1, <1>7, <2>1, <2>2 DEF Subscribe, Begins
<1>8. CASE ReadFrames
    <2>1. track' \in Tracks
        BY <1>8 DEF ReadFrames, Tracks
    <2>2. QED
        BY <1>0, <1>1, <1>8, <2>1 DEF ReadFrames, Begins
<1>9. CASE ReadTimerFires
    <2>1. track' \in Tracks
        BY <1>9 DEF ReadTimerFires, Tracks
    <2>2. QED
        BY <1>0, <1>9, <2>1 DEF ReadTimerFires
<1>10. CASE Discard
    BY <1>1, <1>10 DEF Discard
<1>11. QED
    BY <1>2, <1>3, <1>4, <1>5, <1>6, <1>7, <1>8, <1>9, <1>10 DEF Begun

LEMMA FinishedIs == Finished \in Nat
BY SMT DEF Finished

LEMMA FrameIs ==
    ASSUME NEW f \in Frame, NEW p \in Nat
    PROVE  /\ Decoded(f, p) \in Frame /\ IsDecoded(Decoded(f, p))
           /\ [f EXCEPT !.picture = f.position] \in Frame
           /\ [f EXCEPT !.displayed = TRUE] \in Frame
<1>1. p \in Position /\ p # Unknown
    BY DEF Position, Unknown
<1>2. Decoded(f, p) \in Frame
    BY <1>1 DEF Decoded, Frame
<1>3. Decoded(f, p).position = p /\ ~Decoded(f, p).displayed
    BY DEF Decoded, Frame
<1>4. /\ [f EXCEPT !.picture = f.position] \in Frame
      /\ [f EXCEPT !.displayed = TRUE] \in Frame
    BY DEF Frame
<1>5. QED
    BY <1>1, <1>2, <1>3, <1>4 DEF IsDecoded

\* The two frames that the track goes on with.
LEMMA ChosenIs ==
    ASSUME TypeOK, at.does \in {"choose", "show"}
    PROVE  /\ at.counter \in Values /\ Chosen \in 0 .. 3 /\ Other \in 0 .. 3
           /\ Chosen # Other
           /\ frames[Chosen] \in Frame /\ frames[Other] \in Frame
<1>1. at.counter \in Values
    BY TrackPlacesAre DEF TypeOK
<1>2. Chosen \in 0 .. 3 /\ Other \in 0 .. 3 /\ Chosen # Other
    BY <1>1, CounterValues, TwoOfFour DEF Chosen, Other
<1>3. QED
    BY <1>1, <1>2 DEF TypeOK

LEMMA SortedIs ==
    ASSUME TypeOK, at.does = "choose", BothDecoded
    PROVE  /\ Sorted \in [0 .. 3 -> Frame]
           /\ IsDecoded(Sorted[Chosen]) /\ IsDecoded(Sorted[Other])
           /\ \A i \in (0 .. 3) \ {Chosen, Other} : Sorted[i] = frames[i]
<1>1. /\ frames \in [0 .. 3 -> Frame] /\ Chosen \in 0 .. 3 /\ Other \in 0 .. 3
      /\ Chosen # Other
    BY ChosenIs DEF TypeOK
<1>2. CASE Sorted = frames
    BY <1>1, <1>2 DEF BothDecoded
<1>3. CASE Sorted = [frames EXCEPT ![Chosen] = frames[Other], ![Other] = frames[Chosen]]
    BY <1>1, <1>3 DEF BothDecoded
<1>4. QED
    BY <1>2, <1>3 DEF Sorted

LEMMA ChoosesTypes ==
    ASSUME Inv, Chooses
    PROVE  TypeOK'
<1> USE DEF Inv, ringVars, fileVars, TrackStep
<1>1. ASSUME NEW c \in Values, NEW i \in 0 .. 3
      PROVE  /\ Nothing \in TrackPlaces /\ Presenting \in TrackPlaces
             /\ Choosing(c) \in TrackPlaces /\ Reading(i) \in TrackPlaces
    BY PlacesAre DEF Values
<1>2. CASE PrepareState
    <2>1. counter \in Values
        BY <1>2, SomebodyShows DEF PrepareState, Preparing, Nothing
    <2>2. at' \in TrackPlaces
        BY <1>1, <1>2, <2>1 DEF PrepareState
    <2>3. QED
        BY <1>2, <2>2 DEF PrepareState, TypeOK
<1>3. CASE ReadNeeded
    <2>1. Chosen \in 0 .. 3 /\ Other \in 0 .. 3
        BY <1>3, ChosenIs DEF ReadNeeded
    <2>2. at' \in TrackPlaces
        BY <1>1, <1>3, <2>1 DEF ReadNeeded, Values
    <2>3. QED
        BY <1>3, <2>2 DEF ReadNeeded, TypeOK
<1>4. CASE NoneNeeded
    <2>1. frames' \in [0 .. 3 -> Frame]
        BY <1>4, SortedIs DEF NoneNeeded
    <2>2. at' \in TrackPlaces
        BY <1>1, <1>4 DEF NoneNeeded, Values
    <2>3. QED
        BY <1>4, <2>1, <2>2 DEF NoneNeeded, TypeOK
<1>5. CASE NoneNeededYet
    <2>1. frames' \in [0 .. 3 -> Frame]
        BY <1>5, SortedIs DEF NoneNeededYet
    <2>2. at' \in TrackPlaces
        BY <1>1, <1>5 DEF NoneNeededYet, Values
    <2>3. track' \in Tracks
        BY <1>5 DEF NoneNeededYet, TypeOK, Tracks
    <2>4. QED
        BY <1>5, <2>1, <2>2, <2>3 DEF NoneNeededYet, TypeOK
<1>6. CASE StaleDropped
    <2>1. /\ frames \in [0 .. 3 -> Frame] /\ Chosen \in 0 .. 3 /\ Other \in 0 .. 3
          /\ Sorted[Chosen] \in Frame /\ Sorted[Other] \in Frame
        BY <1>6, SortedIs, ChosenIs DEF StaleDropped, TypeOK
    <2>2. [Sorted[Chosen] EXCEPT !.displayed = TRUE] \in Frame
        BY <2>1 DEF Frame
    <2>3. frames' \in [0 .. 3 -> Frame]
        BY <1>6, <2>1, <2>2 DEF StaleDropped
    <2>4. at' \in TrackPlaces
        BY <1>1, <1>6, <2>1 DEF StaleDropped, Values
    <2>5. QED
        BY <1>6, <2>3, <2>4 DEF StaleDropped, TypeOK
<1>7. QED
    BY <1>2, <1>3, <1>4, <1>5, <1>6 DEF Chooses

LEMMA ReadsTypes ==
    ASSUME Inv, Reads
    PROVE  TypeOK'
<1> USE DEF Inv, ringVars, fileVars, TrackStep
<1>1. /\ Nothing \in TrackPlaces /\ Presenting \in TrackPlaces /\ Preparing \in TrackPlaces
    BY PlacesAre DEF Values
<1>2. at.frame \in 0 .. 3 /\ frames[at.frame] \in Frame
    <2>1. at.does = "read"
        BY DEF Reads, ReadWaits, ReadFinishes, ReadLoops, ReadFrame, HasPacket
    <2>2. QED
        BY <2>1, TrackPlacesAre DEF TypeOK
<1>3. CASE ReadWaits
    <2>1. mail' \in Seq(Letters)
        BY <1>3, LetterIs, Queued DEF ReadWaits, TypeOK
    <2>2. QED
        BY <1>1, <1>3, <2>1 DEF ReadWaits, TypeOK
<1>4. CASE ReadFinishes
    <2>1. frames' \in [0 .. 3 -> Frame]
        BY <1>2, <1>4, FrameIs, FinishedIs DEF ReadFinishes, TypeOK
    <2>2. QED
        BY <1>1, <1>4, <2>1 DEF ReadFinishes, TypeOK
<1>5. track.taken \in Nat /\ [track EXCEPT !.taken = @ + 1] \in Tracks
    BY TrackChanged DEF TypeOK, Tracks
<1>6. CASE ReadLoops
    BY <1>1, <1>5, <1>6 DEF ReadLoops, TypeOK
<1>7. CASE ReadFrame
    <2>1. PositionOf(track.taken) \in Nat
        BY <1>5, <1>7, Positions DEF ReadFrame, TypeOK
    <2>2. frames' \in [0 .. 3 -> Frame]
        BY <1>2, <1>7, <2>1, FrameIs DEF ReadFrame, TypeOK
    <2>3. at' \in TrackPlaces
        BY <1>1, <1>7 DEF ReadFrame, TypeOK
    <2>4. QED
        BY <1>5, <1>7, <2>2, <2>3 DEF ReadFrame, TypeOK
<1>8. QED
    BY <1>3, <1>4, <1>6, <1>7 DEF Reads

LEMMA PresentsTypes ==
    ASSUME Inv, Presents
    PROVE  TypeOK'
<1> USE DEF Inv, ringVars, fileVars, TrackStep
<1>1. /\ Nothing \in TrackPlaces /\ Telling \in TrackPlaces
      /\ \A c \in Values : Showing(c) \in TrackPlaces
    BY PlacesAre DEF Values
<1>2. CASE PresentNot
    BY <1>1, <1>2 DEF PresentNot, TypeOK
<1>3. CASE PresentFrame
    <2>1. counter \in Values
        BY <1>3, SomebodyShows DEF PresentFrame, Presenting, Nothing
    <2>2. QED
        BY <1>1, <1>3, <2>1 DEF PresentFrame, TypeOK
<1>4. CASE ShowEnd
    <2>1. mail' \in Seq(Letters)
        BY <1>4, LetterIs, Queued DEF ShowEnd, TypeOK
    <2>2. track' \in Tracks
        BY <1>4 DEF ShowEnd, TypeOK, Tracks
    <2>3. QED
        BY <1>1, <1>4, <2>1, <2>2 DEF ShowEnd, TypeOK
<1>5. CASE ShowFrame
    <2>1. at.counter \in Values /\ Chosen \in 0 .. 3 /\ frames[Chosen] \in Frame
        BY <1>5, ChosenIs DEF ShowFrame
    <2>2. [frames[Chosen] EXCEPT !.picture = frames[Chosen].position] \in Frame
        BY <2>1, FrameIs
    <2>3. frames' \in [0 .. 3 -> Frame]
        BY <1>5, <2>1, <2>2 DEF ShowFrame, TypeOK
    <2>4. counter' \in -1 .. 7
        BY <1>5, <2>1, CounterValues DEF ShowFrame, Values
    <2>5. QED
        BY <1>1, <1>5, <2>3, <2>4 DEF ShowFrame, TypeOK
<1>6. CASE Tell
    <2>1. mail' \in Seq(Letters)
        BY <1>6, LetterIs, Queued DEF Tell, TypeOK
    <2>2. track' \in Tracks /\ tasks' \in Seq(Tasks)
        BY <1>6, QueueReadTypes DEF Tell, TypeOK
    <2>3. QED
        BY <1>1, <1>6, <2>1, <2>2 DEF Tell, TypeOK
<1>7. CASE ShowLater
    <2>1. track' \in Tracks /\ tasks' \in Seq(Tasks)
        <3>1. track \in Tracks /\ tasks \in Seq(Tasks)
            BY DEF TypeOK
        <3>2. CASE QueueRead(track, tasks)
            BY <3>1, <3>2, QueueReadTypes
        <3>3. CASE UNCHANGED <<track, tasks>>
            BY <3>1, <3>3
        <3>4. CASE track' = [track EXCEPT !.timer = TRUE] /\ UNCHANGED tasks
            BY <3>1, <3>4 DEF Tracks
        <3>5. QED
            BY <1>7, <3>2, <3>3, <3>4 DEF ShowLater
    <2>2. QED
        BY <1>1, <1>7, <2>1 DEF ShowLater, TypeOK
<1>8. QED
    BY <1>2, <1>3, <1>4, <1>5, <1>6, <1>7 DEF Presents

\* A letter is opened, and what it holds is a position.
LEMMA Opened ==
    ASSUME TypeOK, NEW kind, Opens(kind)
    PROVE  mail' \in Seq(Letters) /\ Head(mail).till \in Nat
<1>1. Head(mail) \in Letters /\ Tail(mail) \in Seq(Letters)
    BY Queued DEF Opens, TypeOK
<1>2. QED
    BY <1>1 DEF Opens, Letters

LEMMA TakesFrameTypes ==
    ASSUME Inv, counter # Uninitialized, HasNext, TakesFrame
    PROVE  /\ frames' \in [0 .. 3 -> Frame] /\ counter' \in Values
           /\ mainAt' \in MainPlaces /\ player' \in Players
<1> DEFINE i == Current(Succ(counter))
<1>1. /\ counter \in Values /\ i \in 0 .. 3 /\ frames[i].position \in Nat
      /\ frames \in [0 .. 3 -> Frame] /\ player \in Players
    BY TakenIs DEF Inv, TypeOK
<1>2. [frames[i] EXCEPT !.displayed = TRUE] \in Frame
    BY <1>1, FrameIs
<1>3. /\ frames' = [frames EXCEPT ![i] = [frames[i] EXCEPT !.displayed = TRUE]]
      /\ counter' = Succ(counter)
      /\ mainAt' = Marked(frames[i].position)
      /\ player' = [player EXCEPT !.next = FALSE]
    BY DEF TakesFrame
<1> HIDE DEF i
<1>4. frames' \in [0 .. 3 -> Frame]
    BY <1>1, <1>2, <1>3
<1>5. counter' \in Values
    BY <1>1, <1>3, CounterValues
<1>6. mainAt' \in MainPlaces
    BY <1>1, <1>3, PlacesAre DEF Values
<1>7. player' \in Players
    BY <1>1, <1>3 DEF Players
<1>8. QED
    BY <1>4, <1>5, <1>6, <1>7

LEMMA CheckTypes ==
    ASSUME Inv, counter # Uninitialized, CheckVideoStep
    PROVE  /\ frames' \in [0 .. 3 -> Frame] /\ counter' \in Values
           /\ mainAt' \in MainPlaces /\ player' \in Players
<1>1. counter \in Values /\ TypeOK
    BY CounterIs DEF Inv
<1>2. CASE UNCHANGED <<ringVars, mainAt, player>>
    BY <1>1, <1>2 DEF TypeOK, ringVars
<1>3. CASE player' = [player EXCEPT !.next = TRUE] /\ UNCHANGED <<ringVars, mainAt>>
    BY <1>1, <1>3 DEF TypeOK, ringVars, Players
<1>4. CASE HasNext /\ TakesFrame
    BY <1>4, TakesFrameTypes
<1>5. QED
    BY <1>2, <1>3, <1>4 DEF CheckVideoStep

LEMMA PlayerChanged ==
    ASSUME NEW p \in Players
    PROVE  /\ [p EXCEPT !.byWaiting = TRUE] \in Players
           /\ [p EXCEPT !.byWaiting = FALSE] \in Players
           /\ [p EXCEPT !.paused = TRUE] \in Players
           /\ [p EXCEPT !.finished = TRUE] \in Players
           /\ [p EXCEPT !.stage = "ready"] \in Players
BY DEF Players

LEMMA PlayerToggled ==
    ASSUME NEW p \in Players
    PROVE  [p EXCEPT !.byUser = ~@, !.toggles = @ + 1] \in Players
<1> DEFINE q == [p EXCEPT !.byUser = ~@]
<1>1. p.byUser \in BOOLEAN /\ p.toggles \in Nat
    BY DEF Players
<1>2. p.toggles + 1 \in Nat
    BY <1>1
<1>3. q \in Players
    BY DEF Players
<1>4. q.toggles = p.toggles
    BY DEF Players
<1> HIDE DEF q
<1>5. [q EXCEPT !.toggles = p.toggles + 1] \in Players
    BY <1>2, <1>3 DEF Players
<1>6. QED
    BY <1>4, <1>5 DEF q

LEMMA PlayerMoved ==
    ASSUME NEW p \in Players, NEW n \in Int
    PROVE  /\ [p EXCEPT !.position = n] \in Players
           /\ [p EXCEPT !.received = n] \in Players
BY DEF Players

LEMMA MainTypes ==
    ASSUME Inv, MainThread \/ WidgetUpdate \/ Paint \/ Toggle
    PROVE  TypeOK'
<1> USE DEF ringVars, fileVars
<1>1. TypeOK /\ player \in Players
    BY DEF Inv, TypeOK
<1>2. CASE StreamReady
    <2> DEFINE p == [player EXCEPT
                       !.stage = "ready", !.position = PositionOf(0),
                       !.received = Least(Length, Greatest(@, PositionOf(0)))]
               q == [p EXCEPT !.paused = TRUE]
    <2>1. PositionOf(0) \in Int /\ Length \in Int
        <3>1. PositionOf(0) \in Nat /\ Length \in Nat
            BY <1>1, Positions DEF TypeOK
        <3>2. QED
            BY <3>1
    <2>2. player.received \in Int
        BY <1>1 DEF Players
    <2>3. Least(Length, Greatest(player.received, PositionOf(0))) \in Int
        BY <2>1, <2>2 DEF Least, Greatest
    <2>4. p \in Players
        <3> DEFINE r == [player EXCEPT !.stage = "ready"]
                   s == [r EXCEPT !.position = PositionOf(0)]
                   n == Least(Length, Greatest(player.received, PositionOf(0)))
        <3>1. r \in Players
            BY <1>1, PlayerChanged
        <3>2. s \in Players
            BY <2>1, <3>1, PlayerMoved
        <3>3. [s EXCEPT !.received = n] \in Players
            BY <2>3, <3>2, PlayerMoved
        <3>4. s.received = player.received
            BY <1>1 DEF Players
        <3>5. p = [s EXCEPT !.received = n]
            BY <3>4
        <3>6. QED
            BY <3>3, <3>5
    <2>5. q \in Players
        BY <2>4, PlayerChanged
    <2>6. mail' \in Seq(Letters)
        BY <1>1, <1>2, Opened DEF StreamReady
    <2>7. (player' = p /\ UNCHANGED tasks) \/ UpdatePausedState(q)
        BY <1>2 DEF StreamReady
    <2> HIDE DEF p, q
    <2>8. player' \in Players /\ tasks' \in Seq(Tasks)
        BY <1>1, <2>4, <2>5, <2>7, PausedTypes DEF TypeOK
    <2>9. QED
        BY <1>1, <1>2, <2>6, <2>8 DEF StreamReady, Opens, TypeOK
<1>3. CASE VideoReceivedTill
    <2> DEFINE p == Receives(player, Head(mail).till)
               q == [p EXCEPT !.byWaiting = FALSE]
    <2>1. mail' \in Seq(Letters) /\ Head(mail).till \in Nat
        BY <1>1, <1>3, Opened DEF VideoReceivedTill
    <2>2. p \in Players
        BY <1>1, <2>1, ReceivesTypes
    <2>3. q \in Players
        BY <2>2, PlayerChanged
    <2>4. /\ (player' = p /\ UNCHANGED tasks) \/ UpdatePausedState(q)
          /\ reads' \in BOOLEAN
        BY <1>3 DEF VideoReceivedTill
    <2> HIDE DEF p, q
    <2>5. player' \in Players /\ tasks' \in Seq(Tasks)
        BY <1>1, <2>2, <2>3, <2>4, PausedTypes DEF TypeOK
    <2>6. QED
        BY <1>1, <1>3, <2>1, <2>4, <2>5 DEF VideoReceivedTill, Opens, TypeOK
<1>4. CASE WaitingForData
    <2> DEFINE q == [player EXCEPT !.byWaiting = TRUE]
    <2>1. mail' \in Seq(Letters)
        BY <1>1, <1>4, Opened DEF WaitingForData
    <2>2. q \in Players
        BY <1>1, PlayerChanged
    <2>3. UNCHANGED <<player, tasks>> \/ UpdatePausedState(q)
        BY <1>4 DEF WaitingForData
    <2> HIDE DEF q
    <2>4. player' \in Players /\ tasks' \in Seq(Tasks)
        BY <1>1, <2>2, <2>3, PausedTypes DEF TypeOK
    <2>5. QED
        BY <1>1, <1>4, <2>1, <2>4 DEF WaitingForData, Opens, TypeOK
<1>5. CASE TrackDone
    <2>1. mail' \in Seq(Letters)
        BY <1>1, <1>5, Opened DEF TrackDone
    <2>2. player' \in Players
        BY <1>1, <1>5, PlayerChanged DEF TrackDone
    <2>3. QED
        BY <1>1, <1>5, <2>1, <2>2 DEF TrackDone, Opens, TypeOK
<1>6. CASE CheckNextFrame
    <2>1. mail' \in Seq(Letters)
        BY <1>1, <1>6, Opened DEF CheckNextFrame
    <2>2. counter # Uninitialized
        BY <1>6, SomebodyShows DEF CheckNextFrame, Opens, Values, Uninitialized
    <2>3. /\ frames' \in [0 .. 3 -> Frame] /\ counter' \in Values
          /\ mainAt' \in MainPlaces /\ player' \in Players
        BY <1>6, <2>2, CheckTypes DEF CheckNextFrame
    <2>4. QED
        BY <1>1, <1>6, <2>1, <2>3 DEF CheckNextFrame, Opens, TypeOK, Values
<1>7. CASE RenderTimerFires
    <2>1. counter # Uninitialized /\ HasNext
        BY <1>7, SomebodyShows DEF RenderTimerFires, HasNext, Values, Uninitialized
    <2>2. /\ frames' \in [0 .. 3 -> Frame] /\ counter' \in Values
          /\ mainAt' \in MainPlaces /\ player' \in Players
        BY <1>7, <2>1, TakesFrameTypes DEF RenderTimerFires
    <2>3. QED
        BY <1>1, <1>7, <2>2 DEF RenderTimerFires, TypeOK, Values
<1>8. CASE PlayedTill
    <2> DEFINE p == Receives(player, mainAt.position)
               q == [p EXCEPT !.position = mainAt.position]
    <2>1. mainAt.position \in Int
        <3>1. mainAt.position \in Nat
            BY <1>1, <1>8, MainPlacesAre DEF PlayedTill, TypeOK
        <3>2. QED
            BY <3>1
    <2>2. p \in Players
        BY <1>1, <2>1, ReceivesTypes
    <2>3. q \in Players
        BY <2>1, <2>2, PlayerMoved
    <2>4. player' = q
        BY <1>8 DEF PlayedTill
    <2>5. semaphore' \in Nat /\ reads' \in BOOLEAN
        BY <1>1, <1>8 DEF PlayedTill, TypeOK
    <2>6. tasks' \in Seq(Tasks)
        BY <1>1, <1>8, Queued DEF PlayedTill, TypeOK, Tasks
    <2>7. mainAt' \in MainPlaces
        BY <1>8 DEF PlayedTill, MainPlaces
    <2> HIDE DEF p, q
    <2>8. QED
        BY <1>1, <1>8, <2>3, <2>4, <2>5, <2>6, <2>7 DEF PlayedTill, TypeOK
<1>9. CASE Painted
    BY <1>1, <1>9 DEF Painted, TypeOK, MainPlaces
<1>10. CASE WidgetUpdate
    <2>1. counter # Uninitialized
        BY <1>10, SomebodyShows DEF WidgetUpdate, Values, Uninitialized
    <2>2. /\ frames' \in [0 .. 3 -> Frame] /\ counter' \in Values
          /\ mainAt' \in MainPlaces /\ player' \in Players
        BY <1>10, <2>1, CheckTypes DEF WidgetUpdate
    <2>3. QED
        BY <1>1, <1>10, <2>2 DEF WidgetUpdate, TypeOK, Values
<1>11. CASE Paint
    <2>1. Current(counter) \in 0 .. 3
        BY <1>11, SomebodyShows, CounterValues DEF Paint
    <2>2. mainAt' \in MainPlaces
        BY <1>11, <2>1 DEF Paint, MainPlaces
    <2>3. QED
        BY <1>1, <1>11, <2>2 DEF Paint, TypeOK
<1>12. CASE Toggle
    <2> DEFINE q == [player EXCEPT !.byUser = ~@, !.toggles = @ + 1]
    <2>1. q \in Players
        BY <1>1, PlayerToggled
    <2>2. UpdatePausedState(q)
        BY <1>12 DEF Toggle
    <2> HIDE DEF q
    <2>3. player' \in Players /\ tasks' \in Seq(Tasks)
        BY <1>1, <2>1, <2>2, PausedTypes
    <2>4. QED
        BY <1>1, <1>12, <2>3 DEF Toggle, TypeOK
<1>13. QED
    BY <1>2, <1>3, <1>4, <1>5, <1>6, <1>7, <1>8, <1>9, <1>10, <1>11, <1>12
    DEF MainThread, OpensMail

LEMMA TypeStep ==
    ASSUME Inv, Next
    PROVE  TypeOK'
<1>1. CASE FileThread
    BY <1>1, FileTypes DEF Inv
<1>2. CASE TrackQueue \/ ReadTimerFires
    BY <1>2, BegunTypes, ChoosesTypes, ReadsTypes, PresentsTypes DEF TrackQueue
<1>3. CASE MainThread \/ WidgetUpdate \/ Paint \/ Toggle
    BY <1>3, MainTypes
<1>4. QED
    BY <1>1, <1>2, <1>3 DEF Next

-----------------------------------------------------------------------------
(* Before the first frame.                                                     *)

LEMMA CounterStays ==
    ASSUME Inv, Next, counter \in Values
    PROVE  counter' \in Values
<1>1. CASE counter' = counter
    BY <1>1
<1>2. CASE FirstPacket
    BY <1>2 DEF FirstPacket, Values
<1>3. CASE ShowFrame
    <2>1. at.counter \in Values
        BY <1>3, ChosenIs DEF Inv, ShowFrame
    <2>2. QED
        BY <1>3, <2>1, CounterValues DEF ShowFrame
<1>4. CASE TakesFrame
    BY <1>4, CounterValues DEF TakesFrame
<1>5. counter' = counter \/ FirstPacket \/ ShowFrame \/ TakesFrame
    BY DEF Next, FileThread, ReadPacket, FileReadsMore, FileWakes, RoundEnds, FileStep,
       TrackQueue, Begun, NextPacket, FrameDisplayed, Resume, Pause, Subscribe,
       ReadFrames, Discard, ReadTimerFires, Chooses, PrepareState, ReadNeeded, NoneNeeded,
       NoneNeededYet, StaleDropped, Reads, ReadWaits, ReadFinishes, ReadLoops, ReadFrame,
       Presents, PresentNot, PresentFrame, ShowEnd, Tell, ShowLater, MainThread, OpensMail,
       StreamReady, VideoReceivedTill, WaitingForData, TrackDone, CheckNextFrame,
       CheckVideoStep, RenderTimerFires, PlayedTill, Painted, WidgetUpdate, Paint, Toggle,
       ringVars
<1>6. QED
    BY <1>1, <1>2, <1>3, <1>4, <1>5

LEMMA InitializingPauses ==
    ASSUME NEW p \in Players, p.stage = "initializing", ~p.next, UpdatePausedState(p)
    PROVE  player'.stage = "initializing" /\ ~player'.next /\ tasks' = tasks
<1> DEFINE set == [p EXCEPT !.paused = p.byUser \/ p.byWaiting]
<1>1. player' = set /\ tasks' = tasks
    BY DEF UpdatePausedState
<1>2. set.stage = p.stage /\ set.next = p.next
    BY DEF Players
<1>3. QED
    BY <1>1, <1>2

LEMMA NotYetStep ==
    ASSUME Inv, Next
    PROVE  NotYet'
<1> SUFFICES ASSUME counter' = Uninitialized
             PROVE  NotYet'
    BY DEF NotYet
<1>1. counter \notin Values /\ counter = Uninitialized
    <2>1. counter' \notin Values
        BY DEF Values, Uninitialized
    <2>2. counter \notin Values
        BY <2>1, CounterStays
    <2>3. QED
        BY <2>2, CounterIs DEF Inv
<1>2. /\ at = Nothing /\ mainAt = Nothing /\ ~track.timer
      /\ player.stage = "initializing" /\ ~player.next
      /\ tasks \in Seq({"packet"}) /\ mail \in Seq(TillLetters)
    BY <1>1 DEF Inv, NotYet, OnlyPackets
<1>3. /\ mail # <<>> => Head(mail).kind = "till" /\ Tail(mail) \in Seq(TillLetters)
      /\ tasks # <<>> => Head(tasks) = "packet" /\ Tail(tasks) \in Seq({"packet"})
    <2>1. mail # <<>> => Head(mail) \in TillLetters /\ Tail(mail) \in Seq(TillLetters)
        BY <1>2, Queued
    <2>2. tasks # <<>> => Head(tasks) \in {"packet"} /\ Tail(tasks) \in Seq({"packet"})
        BY <1>2, Queued
    <2>3. QED
        BY <2>1, <2>2 DEF TillLetters
<1>4. CASE FileThread
    <2>1. mail' \in Seq(TillLetters) /\ tasks' \in Seq({"packet"})
        <3>1. CASE ReadPacket
            <4>1. file.sent \in Nat
                BY DEF Inv, TypeOK
            <4>2. TillLetter(Till(file.sent)) \in TillLetters
                BY <4>1, Positions DEF Inv, TypeOK, TillLetter, TillLetters
            <4>3. QED
                BY <1>2, <3>1, <4>2, Queued DEF ReadPacket
        <3>2. CASE UNCHANGED <<mail, tasks>>
            BY <1>2, <3>2
        <3>3. QED
            BY <1>4, <3>1, <3>2
            DEF FileThread, FileReadsMore, FileWakes, RoundEnds, FileStep
    <2>2. UNCHANGED <<at, mainAt, track, player>>
        BY <1>4
        DEF FileThread, ReadPacket, FileReadsMore, FileWakes, RoundEnds, FileStep
    <2>3. QED
        BY <1>2, <2>1, <2>2 DEF NotYet, OnlyPackets
<1>5. CASE Discard
    BY <1>2, <1>3, <1>5 DEF Discard, NotYet, OnlyPackets
<1>6. CASE VideoReceivedTill
    <2> DEFINE p == Receives(player, Head(mail).till)
               q == [p EXCEPT !.byWaiting = FALSE]
    <2>1. player \in Players /\ Head(mail).till \in Int
        <3>1. Head(mail).till \in Nat
            BY <1>6, Opened DEF VideoReceivedTill, Inv
        <3>2. QED
            BY <3>1 DEF Inv, TypeOK
    <2>2. p \in Players /\ p.stage = "initializing" /\ ~p.next
        <3>1. p \in Players
            BY <2>1, ReceivesTypes
        <3>2. p.stage = player.stage /\ p.next = player.next
            BY <2>1 DEF Receives, Players
        <3>3. QED
            BY <1>2, <3>1, <3>2
    <2> HIDE DEF p
    <2>3. q \in Players /\ q.stage = "initializing" /\ ~q.next
        <3>1. q \in Players
            BY <2>2, PlayerChanged
        <3>2. q.stage = p.stage /\ q.next = p.next
            BY <2>2 DEF Players
        <3>3. QED
            BY <2>2, <3>1, <3>2
    <2>4. (player' = p /\ UNCHANGED tasks) \/ UpdatePausedState(q)
        BY <1>6 DEF VideoReceivedTill, p
    <2> HIDE DEF q
    <2>5. player'.stage = "initializing" /\ ~player'.next /\ tasks' = tasks
        BY <2>2, <2>3, <2>4, InitializingPauses
    <2>6. QED
        BY <1>2, <1>3, <1>6, <2>5 DEF VideoReceivedTill, Opens, NotYet, OnlyPackets
<1>7. CASE Toggle
    <2> DEFINE q == [player EXCEPT !.byUser = ~@, !.toggles = @ + 1]
    <2>1. q \in Players /\ q.stage = "initializing" /\ ~q.next
        <3>1. player \in Players
            BY DEF Inv, TypeOK
        <3>2. q.stage = player.stage /\ q.next = player.next
            BY <3>1 DEF Players
        <3>3. QED
            BY <1>2, <3>1, <3>2, PlayerToggled
    <2>2. UpdatePausedState(q)
        BY <1>7 DEF Toggle
    <2> HIDE DEF q
    <2>3. player'.stage = "initializing" /\ ~player'.next /\ tasks' = tasks
        BY <2>1, <2>2, InitializingPauses
    <2>4. QED
        BY <1>2, <1>7, <2>3 DEF Toggle, NotYet, OnlyPackets
<1>8. ~FirstPacket /\ ~NextPacket
    BY <1>1 DEF FirstPacket, NextPacket, Uninitialized
<1>9. /\ ~FrameDisplayed /\ ~Resume /\ ~Pause /\ ~Subscribe /\ ~ReadFrames
      /\ ~ReadTimerFires
    BY <1>2, <1>3
    DEF FrameDisplayed, Resume, Pause, Subscribe, ReadFrames, ReadTimerFires, Begins
<1>10. ~Chooses /\ ~Reads /\ ~Presents
    <2>1. at.does = "nothing" /\ at # Preparing /\ at # Presenting /\ at # Telling
        BY <1>2 DEF Nothing, Preparing, Presenting, Telling
    <2>2. QED
        BY <2>1
        DEF Chooses, PrepareState, ReadNeeded, NoneNeeded, NoneNeededYet, StaleDropped,
            Reads, ReadWaits, ReadFinishes, ReadLoops, ReadFrame, HasPacket, Presents,
            PresentNot, PresentFrame, ShowEnd, ShowFrame, Tell, ShowLater
<1>11. /\ ~StreamReady /\ ~WaitingForData /\ ~TrackDone /\ ~CheckNextFrame
       /\ ~RenderTimerFires /\ ~PlayedTill /\ ~Painted /\ ~WidgetUpdate /\ ~Paint
    BY <1>2, <1>3
    DEF StreamReady, WaitingForData, TrackDone, CheckNextFrame, Opens, RenderTimerFires,
        PlayedTill, Painted, WidgetUpdate, Paint, Nothing
<1>12. QED
    BY <1>4, <1>5, <1>6, <1>7, <1>8, <1>9, <1>10, <1>11
    DEF Next, TrackQueue, Begun, MainThread, OpensMail

-----------------------------------------------------------------------------
(* The ring.                                                                   *)

RingInv == TrackOwns /\ MainPaints /\ PaintsItsPicture /\ NextIsThere

\* Where the track is it knows which two frames are its own.
LEMMA ChosenIsOwn ==
    ASSUME Inv, at.does \in {"choose", "show"}
    PROVE  /\ Chosen = First /\ Other = Second
           /\ counter \in Values /\ at.counter \in Values
           /\ Even(at.counter) => at.counter = counter
<1>1. at.counter \in Values
    BY TrackPlacesAre DEF Inv, TypeOK
<1>2. counter \in Values
    BY SomebodyShows DEF Nothing
<1>3. MayHaveRead(at.counter)
    BY DEF Inv, TrackOwns
<1>4. Prepares(counter) = Prepares(at.counter)
    BY <1>1, <1>2, <1>3, MainGoesOn DEF MayHaveRead
<1>5. Even(at.counter) => at.counter = counter
    BY <1>1, <1>2, <1>3 DEF MayHaveRead
<1>6. QED
    BY <1>1, <1>2, <1>4, <1>5 DEF Chosen, Other, First, Second

\* Steps that leave the ring, and where the two threads are, as they were.
LEMMA RingStays ==
    ASSUME Inv, UNCHANGED <<counter, frames, at, mainAt>>, player'.next = player.next
    PROVE  RingInv'
<1>1. TrackOwns /\ MainPaints /\ PaintsItsPicture /\ NextIsThere
    BY DEF Inv
<1>2. TrackOwns'
    BY <1>1 DEF TrackOwns, MayHaveRead, First, Second
<1>3. MainPaints' /\ NextIsThere'
    BY <1>1 DEF MainPaints, NextIsThere
<1>4. PaintsItsPicture'
    BY <1>1 DEF PaintsItsPicture
<1>5. QED
    BY <1>2, <1>3, <1>4 DEF RingInv

\* What the track writes into its own frames is not seen by the main thread.
LEMMA TrackWrites ==
    ASSUME Inv, TypeOK', counter \in Values, UNCHANGED <<counter, mainAt, player>>,
           \A i \in (0 .. 3) \ {First, Second} : frames'[i] = frames[i]
    PROVE  MainPaints' /\ PaintsItsPicture' /\ NextIsThere'
<1>1. MainPaints' /\ NextIsThere'
    BY DEF Inv, MainPaints, NextIsThere
<1>2. /\ Current(counter) \in 0 .. 3 /\ Current(counter) \notin {First, Second}
    BY CounterValues, TwoOfFour DEF First, Second
<1>3. ASSUME ~Even(counter)
      PROVE  /\ Current(Succ(counter)) \in 0 .. 3
             /\ Current(Succ(counter)) \notin {First, Second}
    BY <1>3, CounterValues, MainGoesOn DEF First, Second
<1>4. /\ frames'[Current(counter)] = frames[Current(counter)]
      /\ ~Even(counter) =>
           frames'[Current(Succ(counter))] = frames[Current(Succ(counter))]
    BY <1>2, <1>3
<1>5. PaintsItsPicture'
    BY <1>4 DEF Inv, PaintsItsPicture
<1>6. QED
    BY <1>1, <1>5

LEMMA FileRing ==
    ASSUME Inv, FileThread
    PROVE  RingInv'
BY RingStays
DEF FileThread, ReadPacket, FileReadsMore, FileWakes, RoundEnds, FileStep, ringVars

LEMMA BegunRing ==
    ASSUME Inv, TypeOK', Begun \/ ReadTimerFires
    PROVE  RingInv'
<1>1. CASE FirstPacket
    <2>1. counter' = 0 /\ at' = Nothing /\ UNCHANGED <<mainAt, player>>
        BY <1>1 DEF FirstPacket, Begins
    <2>2. mainAt = Nothing /\ ~player.next
        BY <1>1 DEF FirstPacket, Inv, NotYet
    <2>3. frames'[0].displayed /\ frames'[0].picture = frames'[0].position
        BY <1>1 DEF FirstPacket, Inv, TypeOK
    <2>4. Even(0) /\ Current(0) = 0
        BY DEF Even, Current
    <2>5. counter' # Uninitialized => PaintsItsPicture'
        BY <2>1, <2>3, <2>4 DEF PaintsItsPicture
    <2>6. QED
        BY <2>1, <2>2, <2>5
        DEF RingInv, TrackOwns, MainPaints, NextIsThere, PaintsItsPicture, Nothing
<1>2. CASE NextPacket \/ FrameDisplayed \/ Resume \/ Pause \/ Subscribe \/ Discard
    BY <1>2, RingStays
    DEF NextPacket, FrameDisplayed, Resume, Pause, Subscribe, Discard, Begins, ringVars
<1>3. CASE ReadFrames \/ ReadTimerFires
    <2>1. counter \in Values
        BY <1>3, SomebodyShows DEF ReadFrames, ReadTimerFires, Begins
    <2>2. at'.does = "prepare" /\ UNCHANGED <<counter, frames, mainAt, player>>
        BY <1>3 DEF ReadFrames, ReadTimerFires, Begins, ringVars, Preparing
    <2>3. QED
        BY <2>1, <2>2, TrackWrites DEF RingInv, TrackOwns
<1>4. QED
    BY <1>1, <1>2, <1>3 DEF Begun

LEMMA ChoosesRing ==
    ASSUME Inv, TypeOK', Chooses
    PROVE  RingInv'
<1>1. CASE PrepareState
    <2>1. counter \in Values
        BY <1>1, SomebodyShows DEF PrepareState, Preparing, Nothing
    <2>2. /\ at' = Choosing(counter) /\ UNCHANGED <<counter, frames, mainAt, player>>
        BY <1>1 DEF PrepareState, TrackStep, ringVars
    <2>3. TrackOwns'
        BY <2>2 DEF TrackOwns, MayHaveRead, Choosing
    <2>4. QED
        BY <2>1, <2>2, <2>3, TrackWrites DEF RingInv
<1>2. ASSUME at.does = "choose"
      PROVE  /\ Chosen = First /\ Other = Second /\ counter \in Values
             /\ Chosen \in 0 .. 3 /\ Other \in 0 .. 3 /\ Chosen # Other
             /\ frames \in [0 .. 3 -> Frame]
    BY <1>2, ChosenIsOwn, ChosenIs DEF Inv, TypeOK
<1>3. CASE ReadNeeded
    <2>1. UNCHANGED <<counter, frames, mainAt, player>>
        BY <1>3 DEF ReadNeeded, TrackStep, ringVars
    <2>2. at' = Reading(IF IsDecoded(frames[Chosen]) THEN Other ELSE Chosen)
        BY <1>3 DEF ReadNeeded, TrackStep
    <2>3. Chosen = First /\ Other = Second /\ First # Second
        BY <1>2, <1>3 DEF ReadNeeded
    <2>4. First' = First /\ Second' = Second
        BY <2>1 DEF First, Second
    <2>5. TrackOwns'
        BY <2>1, <2>2, <2>3, <2>4 DEF TrackOwns, Reading
    <2>6. QED
        BY <1>2, <1>3, <2>1, <2>5, TrackWrites DEF RingInv, ReadNeeded
<1>4. CASE NoneNeeded \/ NoneNeededYet
    <2>1. at.does = "choose" /\ BothDecoded
        BY <1>4 DEF NoneNeeded, NoneNeededYet
    <2>2. UNCHANGED <<counter, mainAt, player>> /\ frames' = Sorted
        BY <1>4 DEF NoneNeeded, NoneNeededYet, TrackStep
    <2>3. \A i \in (0 .. 3) \ {First, Second} : frames'[i] = frames[i]
        BY <1>2, <2>1, <2>2, SortedIs DEF Inv
    <2>4. IsDecoded(frames'[First'])
        <3>1. IsDecoded(Sorted[Chosen]) /\ Chosen = First
            BY <1>2, <2>1, SortedIs DEF Inv
        <3>2. First' = First
            BY <2>2 DEF First
        <3>3. QED
            BY <2>2, <3>1, <3>2
    <2>5. at' = Presenting \/ at' = Nothing
        BY <1>4 DEF NoneNeeded, NoneNeededYet, TrackStep
    <2>6. TrackOwns'
        BY <2>4, <2>5 DEF TrackOwns, Presenting, Nothing
    <2>7. QED
        BY <1>2, <2>1, <2>2, <2>3, <2>6, TrackWrites DEF RingInv
<1>5. CASE StaleDropped
    <2>1. at.does = "choose" /\ BothDecoded
        BY <1>5 DEF StaleDropped
    <2>2. /\ UNCHANGED <<counter, mainAt, player>> /\ at' = Reading(Other)
          /\ frames' = [frames EXCEPT ![Chosen] = Sorted[Other],
                          ![Other] = [Sorted[Chosen] EXCEPT !.displayed = TRUE]]
        BY <1>5 DEF StaleDropped, TrackStep
    <2>3. \A i \in (0 .. 3) \ {First, Second} : frames'[i] = frames[i]
        BY <1>2, <2>1, <2>2
    <2>4. First' = First /\ Second' = Second
        BY <2>2 DEF First, Second
    <2>5. IsDecoded(frames'[First'])
        <3>1. frames'[Chosen] = Sorted[Other]
            BY <1>2, <2>1, <2>2
        <3>2. IsDecoded(Sorted[Other])
            BY <2>1, SortedIs DEF Inv
        <3>3. QED
            BY <1>2, <2>1, <2>4, <3>1, <3>2
    <2>6. TrackOwns'
        BY <1>2, <2>1, <2>2, <2>4, <2>5 DEF TrackOwns, Reading
    <2>7. QED
        BY <1>2, <2>1, <2>2, <2>3, <2>6, TrackWrites DEF RingInv
<1>6. QED
    BY <1>1, <1>3, <1>4, <1>5 DEF Chooses

LEMMA ReadsRing ==
    ASSUME Inv, TypeOK', Reads
    PROVE  RingInv'
<1>1. /\ at.does = "read" /\ at.frame \in {First, Second} /\ counter \in Values
      /\ at.frame = Second => IsDecoded(frames[First])
      /\ UNCHANGED <<counter, mainAt, player>>
    <2>1. at.does = "read"
        BY DEF Reads, ReadWaits, ReadFinishes, ReadLoops, ReadFrame, HasPacket
    <2>2. counter \in Values
        BY <2>1, SomebodyShows DEF Nothing
    <2>3. UNCHANGED <<counter, mainAt, player>>
        BY DEF Reads, ReadWaits, ReadFinishes, ReadLoops, ReadFrame, TrackStep, ringVars
    <2>4. QED
        BY <2>1, <2>2, <2>3 DEF Inv, TrackOwns
<1>2. First \in 0 .. 3 /\ Second \in 0 .. 3 /\ First # Second
    BY <1>1, CounterValues, TwoOfFour DEF First, Second
<1>3. First' = First /\ Second' = Second
    BY <1>1 DEF First, Second
<1>4. CASE ReadWaits \/ ReadLoops
    <2>1. UNCHANGED frames /\ at' = Nothing
        BY <1>4 DEF ReadWaits, ReadLoops, TrackStep, ringVars
    <2>2. QED
        BY <1>1, <2>1, TrackWrites DEF RingInv, TrackOwns, Nothing
<1>5. ASSUME NEW p \in Nat, frames' = [frames EXCEPT ![at.frame] = Decoded(@, p)]
      PROVE  /\ \A i \in (0 .. 3) \ {First, Second} : frames'[i] = frames[i]
             /\ IsDecoded(frames'[First])
    <2>1. /\ frames \in [0 .. 3 -> Frame] /\ at.frame \in 0 .. 3
          /\ frames[at.frame] \in Frame
        BY <1>1, <1>2 DEF Inv, TypeOK
    <2>2. /\ frames'[at.frame] = Decoded(frames[at.frame], p)
          /\ \A i \in (0 .. 3) \ {at.frame} : frames'[i] = frames[i]
        BY <1>5, <2>1
    <2>3. IsDecoded(frames'[at.frame])
        BY <2>1, <2>2, FrameIs
    <2>4. QED
        BY <1>1, <1>2, <2>2, <2>3
<1>6. CASE ReadFinishes
    <2>1. frames' = [frames EXCEPT ![at.frame] = Decoded(@, Finished)] /\ at' = Presenting
        BY <1>6 DEF ReadFinishes, TrackStep
    <2>2. /\ \A i \in (0 .. 3) \ {First, Second} : frames'[i] = frames[i]
          /\ IsDecoded(frames'[First])
        BY <1>5, <2>1, FinishedIs
    <2>3. TrackOwns'
        BY <1>3, <2>1, <2>2 DEF TrackOwns, Presenting
    <2>4. QED
        BY <1>1, <2>2, <2>3, TrackWrites DEF RingInv
<1>7. CASE ReadFrame
    <2>1. /\ frames' = [frames EXCEPT ![at.frame] = Decoded(@, PositionOf(track.taken))]
          /\ at' = Preparing \/ at' = at
        BY <1>7 DEF ReadFrame, TrackStep
    <2>2. PositionOf(track.taken) \in Nat
        <3>1. track.taken \in Nat /\ video \in Videos
            BY DEF Inv, TypeOK, Tracks
        <3>2. QED
            BY <1>7, <3>1, Positions DEF ReadFrame
    <2>3. /\ \A i \in (0 .. 3) \ {First, Second} : frames'[i] = frames[i]
          /\ IsDecoded(frames'[First])
        BY <1>5, <2>1, <2>2
    <2>4. TrackOwns'
        BY <1>1, <1>3, <2>1, <2>3 DEF TrackOwns, Preparing
    <2>5. QED
        BY <1>1, <2>3, <2>4, TrackWrites DEF RingInv
<1>8. QED
    BY <1>4, <1>6, <1>7 DEF Reads

LEMMA PresentsRing ==
    ASSUME Inv, TypeOK', Presents
    PROVE  RingInv'
<1>0. /\ at.does \in {"present", "show", "tell"}
      /\ UNCHANGED <<mainAt, player>> /\ counter \in Values
    <2>1. at.does \in {"present", "show", "tell"}
        BY DEF Presents, PresentNot, PresentFrame, ShowEnd, ShowFrame, Tell, ShowLater,
               Presenting, Telling
    <2>2. counter \in Values
        BY <2>1, SomebodyShows DEF Nothing
    <2>3. UNCHANGED <<mainAt, player>>
        BY DEF Presents, PresentNot, PresentFrame, ShowEnd, ShowFrame, Tell, ShowLater,
               TrackStep
    <2>4. QED
        BY <2>1, <2>2, <2>3
<1>1. CASE PresentNot \/ ShowEnd \/ Tell \/ ShowLater
    <2>1. at' = Nothing /\ UNCHANGED <<counter, frames>>
        BY <1>1 DEF PresentNot, ShowEnd, Tell, ShowLater, TrackStep, ringVars
    <2>2. QED
        BY <1>0, <2>1, TrackWrites DEF RingInv, TrackOwns, Nothing
<1>2. CASE PresentFrame
    <2>1. /\ at.does = "present" /\ at' = Showing(counter)
          /\ UNCHANGED <<counter, frames>>
        BY <1>2 DEF PresentFrame, TrackStep, ringVars, Presenting
    <2>2. IsDecoded(frames[First])
        BY <2>1 DEF Inv, TrackOwns
    <2>3. First' = First
        BY <2>1 DEF First
    <2>4. TrackOwns'
        BY <2>1, <2>2, <2>3 DEF TrackOwns, MayHaveRead, Showing
    <2>5. QED
        BY <1>0, <2>1, <2>4, TrackWrites DEF RingInv
<1>3. CASE ShowFrame
    <2>1. /\ Chosen = First /\ at.counter = counter /\ Even(counter)
          /\ First \in 0 .. 3 /\ frames[First] \in Frame
          /\ IsDecoded(frames[First])
        <3>1. at.does = "show" /\ Even(at.counter)
            BY <1>3 DEF ShowFrame
        <3>2. QED
            BY <3>1, ChosenIsOwn, ChosenIs DEF Inv, TrackOwns
    <2>2. /\ frames' = [frames EXCEPT ![First] =
                          [frames[First] EXCEPT !.picture = frames[First].position]]
          /\ counter' = Succ(counter) /\ at' = Telling
        BY <1>3, <2>1 DEF ShowFrame, TrackStep
    <2>3. /\ ~Even(counter') /\ Current(counter') = Current(counter)
          /\ Current(Succ(counter')) = First
        BY <1>0, <2>1, <2>2, TrackGivesOne DEF First
    <2>4. Current(counter) \in 0 .. 3 /\ Current(counter) # First
        BY <1>0, CounterValues, TwoOfFour DEF First
    <2>5. frames \in [0 .. 3 -> Frame]
        BY DEF Inv, TypeOK
    <2>6. /\ frames'[Current(counter)] = frames[Current(counter)]
          /\ frames'[First] = [frames[First] EXCEPT !.picture = frames[First].position]
        BY <2>1, <2>2, <2>4, <2>5
    <2>7. /\ frames'[First].position = frames[First].position
          /\ frames'[First].displayed = frames[First].displayed
          /\ frames'[First].picture = frames[First].position
        BY <2>1, <2>6 DEF Frame
    <2>8. IsDecoded(frames'[First])
        BY <2>1, <2>7 DEF IsDecoded
    <2>9. PaintsItsPicture'
        <3>1. counter # Uninitialized
            BY <1>0 DEF Values, Uninitialized
        <3>2. frames[Current(counter)].displayed
              /\ frames[Current(counter)].picture = frames[Current(counter)].position
            BY <3>1 DEF Inv, PaintsItsPicture
        <3>3. QED
            BY <2>3, <2>6, <2>7, <2>8, <3>2 DEF PaintsItsPicture
    <2>10. TrackOwns'
        BY <2>2 DEF TrackOwns, Telling
    <2>11. MainPaints' /\ NextIsThere'
        BY <1>0, <2>3 DEF Inv, MainPaints, NextIsThere
    <2>12. QED
        BY <2>9, <2>10, <2>11 DEF RingInv
<1>4. QED
    BY <1>1, <1>2, <1>3 DEF Presents

\* The main thread goes on to the next frame: what the track read of the counter
\* still tells it the same two frames.
LEMMA TakesFrameRing ==
    ASSUME Inv, counter # Uninitialized, HasNext, TakesFrame, UNCHANGED at
    PROVE  RingInv'
<1> DEFINE i == Current(Succ(counter))
<1>1. /\ counter \in Values /\ ~Even(counter) /\ i \in 0 .. 3
      /\ IsDecoded(frames[i]) /\ frames[i].picture = frames[i].position
      /\ frames \in [0 .. 3 -> Frame] /\ frames[i] \in Frame
    BY TakenIs DEF Inv, TypeOK
<1>2. /\ frames' = [frames EXCEPT ![i] = [frames[i] EXCEPT !.displayed = TRUE]]
      /\ counter' = Succ(counter)
      /\ mainAt' = Marked(frames[i].position)
      /\ player' = [player EXCEPT !.next = FALSE]
    BY DEF TakesFrame
<1>3. /\ Even(counter') /\ Prepares(counter') = Prepares(counter)
      /\ i # Prepares(counter) /\ i # After(Prepares(counter))
    BY <1>1, <1>2, MainGoesOn
<1>4. Current(counter') = i
    BY <1>2
<1> HIDE DEF i
<1>5. First' = First /\ Second' = Second /\ First # i /\ Second # i
    BY <1>3 DEF First, Second
<1>6. /\ frames'[i].displayed /\ frames'[i].picture = frames'[i].position
    BY <1>1, <1>2 DEF Frame
<1>7. frames'[First] = frames[First]
    <2>1. First \in 0 .. 3
        BY <1>1, CounterValues DEF First
    <2>2. QED
        BY <1>1, <1>2, <1>5, <2>1
<1>8. PaintsItsPicture'
    BY <1>3, <1>4, <1>6 DEF PaintsItsPicture
<1>9. ASSUME NEW c, MayHaveRead(c), c \in Values
      PROVE  MayHaveRead(c)'
    <2>1. c = counter
        BY <1>1, <1>9, MainGoesOn DEF MayHaveRead
    <2>2. QED
        BY <1>1, <1>2, <2>1 DEF MayHaveRead
<1>10. TrackOwns'
    <2>1. at.does \in {"choose", "show"} => MayHaveRead(at.counter)'
        <3>1. at.does \in {"choose", "show"} => at.counter \in Values
            BY TrackPlacesAre DEF Inv, TypeOK
        <3>2. QED
            BY <1>9, <3>1 DEF Inv, TrackOwns
    <2>2. QED
        BY <1>5, <1>7, <2>1 DEF Inv, TrackOwns, MayHaveRead
<1>11. MainPaints' /\ NextIsThere'
    <2>1. mainAt'.does = "marked"
        BY <1>2 DEF Marked
    <2>2. ~player'.next
        BY <1>2 DEF Inv, TypeOK, Players
    <2>3. QED
        BY <2>1, <2>2 DEF MainPaints, NextIsThere
<1>12. QED
    BY <1>8, <1>10, <1>11 DEF RingInv

LEMMA CheckRing ==
    ASSUME Inv, counter # Uninitialized, CheckVideoStep, UNCHANGED at
    PROVE  RingInv'
<1>1. CASE UNCHANGED <<ringVars, mainAt, player>>
    BY <1>1, RingStays DEF ringVars
<1>2. CASE HasNext /\ player' = [player EXCEPT !.next = TRUE] /\ UNCHANGED <<ringVars, mainAt>>
    <2>1. TrackOwns' /\ MainPaints' /\ PaintsItsPicture'
        BY <1>2 DEF ringVars, Inv, TrackOwns, MayHaveRead, First, Second, MainPaints,
                    PaintsItsPicture
    <2>2. ~Even(counter)
        BY <1>2 DEF HasNext, Inv, NextIsThere
    <2>3. NextIsThere'
        BY <1>2, <2>2 DEF NextIsThere, ringVars
    <2>4. QED
        BY <2>1, <2>3 DEF RingInv
<1>3. CASE HasNext /\ TakesFrame
    BY <1>3, TakesFrameRing
<1>4. QED
    BY <1>1, <1>2, <1>3 DEF CheckVideoStep

LEMMA PausedNext ==
    ASSUME NEW p \in Players, UpdatePausedState(p)
    PROVE  player'.next = p.next
<1> DEFINE set == [p EXCEPT !.paused = p.byUser \/ p.byWaiting]
<1>1. set.next = p.next /\ [set EXCEPT !.stage = "started"].next = set.next
    BY DEF Players
<1>2. \/ player' = set \/ player' = [set EXCEPT !.stage = "started"]
    BY DEF UpdatePausedState
<1> HIDE DEF set
<1>3. QED
    BY <1>1, <1>2

\* Pausing has nothing to do with the frame that is waited for.
LEMMA PausingKeepsNext ==
    ASSUME Inv, StreamReady \/ VideoReceivedTill \/ WaitingForData \/ TrackDone \/ Toggle
    PROVE  player'.next = player.next
<1>1. TypeOK /\ player \in Players
    BY DEF Inv, TypeOK
<1>2. CASE StreamReady
    <2> DEFINE r == [player EXCEPT !.stage = "ready"]
               s == [r EXCEPT !.position = PositionOf(0)]
               n == Least(Length, Greatest(player.received, PositionOf(0)))
               p == [player EXCEPT
                       !.stage = "ready", !.position = PositionOf(0),
                       !.received = Least(Length, Greatest(@, PositionOf(0)))]
               q == [p EXCEPT !.paused = TRUE]
    <2>1. PositionOf(0) \in Int /\ Length \in Int
        <3>1. PositionOf(0) \in Nat /\ Length \in Nat
            BY <1>1, Positions DEF TypeOK
        <3>2. QED
            BY <3>1
    <2>2. n \in Int
        BY <1>1, <2>1 DEF Least, Greatest, Players
    <2>3. r \in Players /\ r.next = player.next /\ r.received = player.received
        BY <1>1, PlayerChanged DEF Players
    <2> HIDE DEF r, n
    <2>4. s \in Players /\ s.next = r.next /\ s.received = r.received
        BY <2>1, <2>3, PlayerMoved DEF Players
    <2>5. p = [s EXCEPT !.received = n]
        BY <2>3, <2>4 DEF r, n
    <2> HIDE DEF s
    <2>6. [s EXCEPT !.received = n] \in Players /\ [s EXCEPT !.received = n].next = s.next
        BY <2>2, <2>4, PlayerMoved DEF Players
    <2>7. player' = p \/ UpdatePausedState(q)
        BY <1>2 DEF StreamReady
    <2> HIDE DEF p
    <2>8. q \in Players /\ q.next = p.next
        <3>1. q \in Players
            BY <2>5, <2>6, PlayerChanged
        <3>2. q.next = p.next
            BY <2>5, <2>6 DEF Players
        <3>3. QED
            BY <3>1, <3>2
    <2> HIDE DEF q
    <2>9. QED
        BY <2>3, <2>4, <2>5, <2>6, <2>7, <2>8, PausedNext
<1>3. CASE VideoReceivedTill
    <2> DEFINE p == Receives(player, Head(mail).till)
               q == [p EXCEPT !.byWaiting = FALSE]
    <2>1. Head(mail).till \in Int
        <3>1. Head(mail).till \in Nat
            BY <1>1, <1>3, Opened DEF VideoReceivedTill
        <3>2. QED
            BY <3>1
    <2>2. p \in Players /\ p.next = player.next
        <3>1. p \in Players
            BY <1>1, <2>1, ReceivesTypes
        <3>2. p.next = player.next
            BY <1>1, <2>1 DEF Receives, Players
        <3>3. QED
            BY <3>1, <3>2
    <2>3. player' = p \/ UpdatePausedState(q)
        BY <1>3 DEF VideoReceivedTill
    <2> HIDE DEF p
    <2>4. q \in Players /\ q.next = p.next
        <3>1. q \in Players
            BY <2>2, PlayerChanged
        <3>2. q.next = p.next
            BY <2>2 DEF Players
        <3>3. QED
            BY <3>1, <3>2
    <2> HIDE DEF q
    <2>5. QED
        BY <2>2, <2>3, <2>4, PausedNext
<1>4. CASE WaitingForData
    <2> DEFINE q == [player EXCEPT !.byWaiting = TRUE]
    <2>1. q \in Players /\ q.next = player.next
        BY <1>1, PlayerChanged DEF Players
    <2>2. player' = player \/ UpdatePausedState(q)
        BY <1>4 DEF WaitingForData
    <2> HIDE DEF q
    <2>3. QED
        BY <2>1, <2>2, PausedNext
<1>5. CASE TrackDone
    BY <1>1, <1>5 DEF TrackDone, Players
<1>6. CASE Toggle
    <2> DEFINE q == [player EXCEPT !.byUser = ~@, !.toggles = @ + 1]
    <2>1. q \in Players
        BY <1>1, PlayerToggled
    <2>2. q.next = player.next
        <3>1. [player EXCEPT !.byUser = ~player.byUser].next = player.next
            BY <1>1 DEF Players
        <3>2. q.next = [player EXCEPT !.byUser = ~player.byUser].next
            BY <1>1 DEF Players
        <3>3. QED
            BY <3>1, <3>2
    <2>3. UpdatePausedState(q)
        BY <1>6 DEF Toggle
    <2> HIDE DEF q
    <2>4. QED
        BY <2>1, <2>2, <2>3, PausedNext
<1>7. QED
    BY <1>2, <1>3, <1>4, <1>5, <1>6

LEMMA MainRing ==
    ASSUME Inv, MainThread \/ WidgetUpdate \/ Paint \/ Toggle
    PROVE  RingInv'
<1>1. CASE StreamReady \/ VideoReceivedTill \/ WaitingForData \/ TrackDone \/ Toggle
    <2>1. UNCHANGED <<counter, frames, at, mainAt>>
        BY <1>1 DEF StreamReady, VideoReceivedTill, WaitingForData, TrackDone, Toggle, Opens,
                    ringVars
    <2>2. QED
        BY <1>1, <2>1, PausingKeepsNext, RingStays
<1>2. CASE CheckNextFrame \/ WidgetUpdate
    <2>1. counter # Uninitialized
        BY <1>2, SomebodyShows
        DEF CheckNextFrame, Opens, WidgetUpdate, Values, Uninitialized
    <2>2. CheckVideoStep /\ UNCHANGED at
        BY <1>2 DEF CheckNextFrame, Opens, WidgetUpdate
    <2>3. QED
        BY <2>1, <2>2, CheckRing
<1>3. CASE RenderTimerFires
    <2>1. counter # Uninitialized /\ HasNext
        BY <1>3, SomebodyShows DEF RenderTimerFires, HasNext, Values, Uninitialized
    <2>2. TakesFrame /\ UNCHANGED at
        BY <1>3 DEF RenderTimerFires
    <2>3. QED
        BY <2>1, <2>2, TakesFrameRing
<1>4. CASE PlayedTill \/ Painted \/ Paint
    <2>1. UNCHANGED <<counter, frames, at>>
        BY <1>4 DEF PlayedTill, Painted, Paint, ringVars
    <2>2. mainAt' = Nothing \/ mainAt' = Painting(Current(counter))
        BY <1>4 DEF PlayedTill, Painted, Paint
    <2>3. player'.next = player.next
        <3>1. player \in Players
            BY DEF Inv, TypeOK
        <3>2. CASE PlayedTill
            <4> DEFINE p == Receives(player, mainAt.position)
            <4>1. mainAt.position \in Int
                <5>1. mainAt.position \in Nat
                    BY <3>2, MainPlacesAre DEF PlayedTill, Inv, TypeOK
                <5>2. QED
                    BY <5>1
            <4>2. p \in Players /\ p.next = player.next
                <5>1. p \in Players
                    BY <3>1, <4>1, ReceivesTypes
                <5>2. p.next = player.next
                    BY <3>1, <4>1 DEF Receives, Players
                <5>3. QED
                    BY <5>1, <5>2
            <4>3. player' = [p EXCEPT !.position = mainAt.position]
                BY <3>2 DEF PlayedTill
            <4> HIDE DEF p
            <4>4. QED
                BY <4>1, <4>2, <4>3 DEF Players
        <3>3. CASE Painted \/ Paint
            BY <3>3 DEF Painted, Paint
        <3>4. QED
            BY <1>4, <3>2, <3>3
    <2>4. TrackOwns' /\ PaintsItsPicture'
        BY <2>1 DEF Inv, TrackOwns, MayHaveRead, First, Second, PaintsItsPicture
    <2>5. NextIsThere'
        BY <2>1, <2>3 DEF Inv, NextIsThere
    <2>6. MainPaints'
        BY <2>1, <2>2 DEF MainPaints, Nothing, Painting
    <2>7. QED
        BY <2>4, <2>5, <2>6 DEF RingInv
<1>5. QED
    BY <1>1, <1>2, <1>3, <1>4 DEF MainThread, OpensMail

LEMMA InvStep ==
    ASSUME Inv, Next
    PROVE  Inv'
<1>1. TypeOK' /\ NotYet'
    BY TypeStep, NotYetStep
<1>2. RingInv'
    <2>1. CASE FileThread
        BY <2>1, FileRing
    <2>2. CASE TrackQueue \/ ReadTimerFires
        BY <1>1, <2>2, BegunRing, ChoosesRing, ReadsRing, PresentsRing DEF TrackQueue
    <2>3. CASE MainThread \/ WidgetUpdate \/ Paint \/ Toggle
        BY <2>3, MainRing
    <2>4. QED
        BY <2>1, <2>2, <2>3 DEF Next
<1>3. QED
    BY <1>1, <1>2 DEF Inv, RingInv

LEMMA InitInv ==
    ASSUME Init
    PROVE  Inv
<1>1. NoFrame \in Frame
    BY DEF NoFrame, Frame, Position, Unknown
<1>2. frames \in [0 .. 3 -> Frame]
    BY <1>1 DEF Init
<1>3. track \in Tracks
    BY DEF Init, Tracks
<1>4. player \in Players
    BY DEF Init, Players, Unknown
<1>5. at \in TrackPlaces /\ mainAt \in MainPlaces
    BY DEF Init, TrackPlaces, MainPlaces
<1>6. TypeOK
    BY <1>2, <1>3, <1>4, <1>5 DEF Init, TypeOK, Uninitialized
<1>7. NotYet
    BY DEF Init, NotYet, OnlyPackets
<1>8. TrackOwns /\ MainPaints /\ PaintsItsPicture /\ NextIsThere
    BY DEF Init, TrackOwns, MainPaints, PaintsItsPicture, NextIsThere, Nothing
<1>9. QED
    BY <1>6, <1>7, <1>8 DEF Inv

LEMMA InvStutters ==
    ASSUME Inv, UNCHANGED vars
    PROVE  Inv'
<1> USE DEF vars, ringVars, fileVars
<1>1. TypeOK'
    BY DEF Inv, TypeOK
<1>2. NotYet'
    BY DEF Inv, NotYet, OnlyPackets
<1>3. RingInv'
    BY RingStays
<1>4. QED
    BY <1>1, <1>2, <1>3 DEF Inv, RingInv

-----------------------------------------------------------------------------
(* The order in which frames are shown.                                        *)

\* The numbers of a video: Length, IsEnd and PositionOf of any.
LengthOf(v)     == Cardinality(DOMAIN v.order)
EndsRound(v, n) == n % (LengthOf(v) + 1) = LengthOf(v)
Pos(v, n) ==
    (n \div (LengthOf(v) + 1)) * LengthOf(v) + v.order[n % (LengthOf(v) + 1)]
\* Packet n brings a frame: there is one round, or one after the other.
Brings(v, n) == ~EndsRound(v, n) /\ (v.loop \/ n < LengthOf(v))

\* What two frames can set in order: each position comes once, the first one
\* first, and at most one frame is decoded before another that precedes it.
IsSortable(v) ==
    /\ v.order[0] = 0
    /\ \A p \in DOMAIN v.order : \E i \in DOMAIN v.order : v.order[i] = p
    /\ \A i, j \in DOMAIN v.order : v.order[i] = v.order[j] => i = j
    /\ \A i, j, k \in DOMAIN v.order :
         i < k /\ j < k /\ v.order[k] < v.order[i] /\ v.order[k] < v.order[j] => i = j
    /\ v.loop \/ LengthOf(v) <= Finished

\* A frame that is held is the end of the video, or one of those decoded from the
\* first taken packets, and later than the last one that was given away.
HeldIs(v, f, taken, last) ==
    IsDecoded(f) =>
        \/ f.position = Finished /\ ~v.loop /\ taken = LengthOf(v)
        \/ /\ f.position > last
           /\ \E n \in Nat : n < taken /\ Brings(v, n) /\ f.position = Pos(v, n)

Holds(f, p) == IsDecoded(f) /\ f.position = p

\* a and b are the frames the track goes on with, and last is the position of the
\* one it gave away last.  Nothing is left to come before last, and nothing was
\* lost unless decoding is late.
InTurn(v, a, b, taken, last) ==
    /\ taken \in Nat /\ last \in Nat
    /\ ~v.loop => taken <= LengthOf(v)
    /\ HeldIs(v, a, taken, last) /\ HeldIs(v, b, taken, last)
    /\ IsDecoded(a) /\ IsDecoded(b) /\ a.position = b.position => a.position = Finished
    /\ \A n \in Nat : n >= taken /\ Brings(v, n) => Pos(v, n) > last
    /\ ~v.late => \A n \in Nat : n < taken /\ Brings(v, n) =>
         Pos(v, n) <= last \/ Holds(a, Pos(v, n)) \/ Holds(b, Pos(v, n))

LEMMA VideoIs ==
    ASSUME NEW v \in Videos
    PROVE  /\ LengthOf(v) \in Nat /\ LengthOf(v) > 0
           /\ DOMAIN v.order = 0 .. LengthOf(v) - 1
           /\ \A i \in DOMAIN v.order : v.order[i] \in Nat /\ v.order[i] < LengthOf(v)
           /\ v.loop \in BOOLEAN /\ v.late \in BOOLEAN
<1> DEFINE D == DOMAIN v.order
<1>1. /\ IsFiniteSet(D) /\ 0 \in D /\ D = 0 .. Cardinality(D) - 1
      /\ \A i \in D : v.order[i] \in D
      /\ v.loop \in BOOLEAN /\ v.late \in BOOLEAN
    BY ConstantsAssumption DEF IsVideo
<1>2. Cardinality(D) \in Nat
    BY <1>1, FS_CardinalityType
<1> HIDE DEF D
<1>3. /\ Cardinality(D) > 0
      /\ \A i \in D : v.order[i] \in Nat /\ v.order[i] < Cardinality(D)
    BY <1>1, <1>2
<1>4. QED
    BY <1>1, <1>2, <1>3 DEF LengthOf, D

LEMMA PositionsAre ==
    /\ Length = LengthOf(video)
    /\ \A n \in Nat : IsEnd(n) <=> EndsRound(video, n)
    /\ \A n \in Nat : PositionOf(n) = Pos(video, n)
BY DEF Length, LengthOf, IsEnd, EndsRound, PositionOf, Pos

\* Which round a packet is of, and which one of it.
LEMMA RoundIs ==
    ASSUME NEW l \in Nat, NEW n \in Nat
    PROVE  /\ n \div (l + 1) \in Nat /\ n % (l + 1) \in 0 .. l
           /\ n = (l + 1) * (n \div (l + 1)) + (n % (l + 1))
<1>1. \A k \in Nat : k > 0 =>
        n \div k \in Nat /\ n % k \in 0 .. k - 1 /\ n = k * (n \div k) + (n % k)
    OBVIOUS
<1>2. QED
    BY <1>1

LEMMA RoundsGrow ==
    ASSUME NEW l \in Nat, NEW r \in Nat, NEW s \in Nat, r < s
    PROVE  (r + 1) * l <= s * l /\ (r + 1) * l = r * l + l
<1>1. (r + 1) * l = r * l + l
    OBVIOUS
<1>2. PICK d \in Nat : s = (r + 1) + d
    <2>1. s - (r + 1) \in Nat /\ s = (r + 1) + (s - (r + 1))
        OBVIOUS
    <2>2. QED
        BY <2>1
<1>3. s * l = (r + 1) * l + d * l
    BY <1>2
<1>4. d * l \in Nat /\ (r + 1) * l \in Nat
    BY <1>2
<1>5. QED
    BY <1>1, <1>3, <1>4

\* The earlier of two frames is before the later one, or of the same round.
LEMMA PosIs ==
    ASSUME NEW v \in Videos, NEW n \in Nat, ~EndsRound(v, n)
    PROVE  LET l == LengthOf(v)
               r == n \div (l + 1)
               i == n % (l + 1) IN
           /\ l \in Nat /\ r \in Nat /\ i \in DOMAIN v.order /\ r * l \in Nat
           /\ n = (l + 1) * r + i
           /\ Pos(v, n) = r * l + v.order[i] /\ Pos(v, n) \in Nat
           /\ r * l <= Pos(v, n) /\ Pos(v, n) < r * l + l
<1> DEFINE l == LengthOf(v)
           r == n \div (l + 1)
           i == n % (l + 1)
           o == v.order[i]
<1>1. /\ l \in Nat /\ l > 0 /\ DOMAIN v.order = 0 .. l - 1
      /\ \A j \in DOMAIN v.order : v.order[j] \in Nat /\ v.order[j] < l
    BY VideoIs
<1>2. i # l
    BY DEF EndsRound
<1>3. Pos(v, n) = r * l + o
    BY DEF Pos
<1> HIDE DEF l
<1>4. r \in Nat /\ i \in 0 .. l /\ n = (l + 1) * r + i
    BY <1>1, RoundIs
<1> HIDE DEF r, i
<1>5. i \in DOMAIN v.order
    BY <1>1, <1>2, <1>4
<1>6. o \in Nat /\ o < l
    BY <1>1, <1>5
<1>7. r * l \in Nat
    BY <1>1, <1>4
<1> DEFINE m == r * l
<1> HIDE DEF o, m
<1>8. Pos(v, n) = m + o /\ m \in Nat
    BY <1>3, <1>7 DEF m
<1>9. m + o \in Nat /\ m <= m + o /\ m + o < m + l
    BY <1>1, <1>6, <1>8
<1>10. QED
    BY <1>1, <1>4, <1>5, <1>7, <1>8, <1>9 DEF l, r, i, o, m

LEMMA PosApart ==
    ASSUME NEW v \in Videos, NEW m \in Nat, NEW n \in Nat, m < n,
           ~EndsRound(v, m), ~EndsRound(v, n)
    PROVE  LET l == LengthOf(v) IN
           \/ Pos(v, m) < Pos(v, n)
           \/ /\ m \div (l + 1) = n \div (l + 1) /\ m % (l + 1) < n % (l + 1)
              /\ m % (l + 1) \in DOMAIN v.order /\ n % (l + 1) \in DOMAIN v.order
              /\ Pos(v, m) < Pos(v, n) <=> v.order[m % (l + 1)] < v.order[n % (l + 1)]
              /\ Pos(v, n) < Pos(v, m) <=> v.order[n % (l + 1)] < v.order[m % (l + 1)]
<1> DEFINE l == LengthOf(v)
           r == m \div (l + 1)
           i == m % (l + 1)
           s == n \div (l + 1)
           j == n % (l + 1)
<1>1. /\ l \in Nat /\ r \in Nat /\ i \in DOMAIN v.order /\ r * l \in Nat
      /\ m = (l + 1) * r + i
      /\ Pos(v, m) = r * l + v.order[i] /\ Pos(v, m) \in Nat
      /\ r * l <= Pos(v, m) /\ Pos(v, m) < r * l + l
    BY PosIs
<1>2. /\ s \in Nat /\ j \in DOMAIN v.order /\ s * l \in Nat
      /\ n = (l + 1) * s + j
      /\ Pos(v, n) = s * l + v.order[j] /\ Pos(v, n) \in Nat
      /\ s * l <= Pos(v, n)
    BY PosIs
<1>3. i \in 0 .. l - 1 /\ j \in 0 .. l - 1 /\ v.order[i] \in Nat /\ v.order[j] \in Nat
    BY <1>1, <1>2, VideoIs
<1> HIDE DEF l, r, i, s, j
<1>4. CASE r < s
    <2>1. r * l + l <= s * l
        BY <1>1, <1>2, <1>4, RoundsGrow
    <2> DEFINE a == r * l
               b == s * l
    <2>2. /\ a \in Nat /\ b \in Nat /\ a + l <= b /\ Pos(v, m) < a + l /\ b <= Pos(v, n)
          /\ l \in Nat /\ Pos(v, m) \in Nat /\ Pos(v, n) \in Nat
        BY <1>1, <1>2, <2>1
    <2> HIDE DEF a, b
    <2>3. Pos(v, m) < Pos(v, n)
        BY <2>2
    <2>4. QED
        BY <2>3
<1>5. CASE s < r
    <2>1. (s + 1) * (l + 1) <= r * (l + 1) /\ (s + 1) * (l + 1) = s * (l + 1) + (l + 1)
        BY <1>1, <1>2, <1>5, RoundsGrow
    <2> DEFINE a == r * (l + 1)
               b == s * (l + 1)
    <2>2. a \in Nat /\ b \in Nat /\ b + (l + 1) <= a /\ m = a + i /\ n = b + j
        BY <1>1, <1>2, <2>1
    <2> HIDE DEF a, b
    <2>3. FALSE
        BY <1>1, <1>3, <2>2
    <2>4. QED
        BY <2>3
<1>6. CASE r = s
    <2> DEFINE a == r * l
               b == (l + 1) * r
    <2>1. /\ a \in Nat /\ b \in Int /\ m = b + i /\ n = b + j
          /\ Pos(v, m) = a + v.order[i] /\ Pos(v, n) = a + v.order[j]
        BY <1>1, <1>2, <1>6
    <2> HIDE DEF a, b
    <2>2. /\ i < j
          /\ Pos(v, m) < Pos(v, n) <=> v.order[i] < v.order[j]
          /\ Pos(v, n) < Pos(v, m) <=> v.order[j] < v.order[i]
        BY <1>3, <2>1
    <2>3. QED
        BY <1>1, <1>2, <1>6, <2>2 DEF l, r, i, s, j
<1>7. QED
    BY <1>1, <1>2, <1>4, <1>5, <1>6

LEMMA PosDistinct ==
    ASSUME NEW v \in Videos, IsSortable(v), NEW m \in Nat, NEW n \in Nat, m # n,
           ~EndsRound(v, m), ~EndsRound(v, n)
    PROVE  Pos(v, m) # Pos(v, n)
<1>1. ASSUME NEW a \in Nat, NEW b \in Nat, a < b, ~EndsRound(v, a), ~EndsRound(v, b)
      PROVE  Pos(v, a) # Pos(v, b)
    <2> DEFINE l == LengthOf(v)
               i == a % (l + 1)
               j == b % (l + 1)
    <2>1. Pos(v, a) \in Nat /\ Pos(v, b) \in Nat
        BY <1>1, PosIs
    <2>2. \/ Pos(v, a) < Pos(v, b)
          \/ /\ i < j /\ i \in DOMAIN v.order /\ j \in DOMAIN v.order
             /\ Pos(v, a) < Pos(v, b) <=> v.order[i] < v.order[j]
             /\ Pos(v, b) < Pos(v, a) <=> v.order[j] < v.order[i]
        BY <1>1, PosApart
    <2>3. \A k \in DOMAIN v.order : k \in Nat /\ v.order[k] \in Nat
        BY VideoIs
    <2> HIDE DEF i, j
    <2>4. CASE i < j /\ i \in DOMAIN v.order /\ j \in DOMAIN v.order
        <3>1. v.order[i] # v.order[j]
            BY <2>3, <2>4 DEF IsSortable
        <3>2. QED
            BY <2>1, <2>2, <2>3, <2>4, <3>1
    <2>5. QED
        BY <2>1, <2>2, <2>4
<1>2. m < n \/ n < m
    OBVIOUS
<1>3. QED
    BY <1>1, <1>2

\* No two frames are decoded before another that precedes both.
LEMMA PosSorted ==
    ASSUME NEW v \in Videos, IsSortable(v), NEW m \in Nat, NEW n \in Nat, NEW k \in Nat,
           m # n, m < k, n < k, ~EndsRound(v, m), ~EndsRound(v, n), ~EndsRound(v, k),
           Pos(v, k) < Pos(v, m), Pos(v, k) < Pos(v, n)
    PROVE  FALSE
<1> DEFINE l == LengthOf(v)
           i == m % (l + 1)
           j == n % (l + 1)
           h == k % (l + 1)
           r == k \div (l + 1)
<1>1. /\ Pos(v, m) \in Nat /\ Pos(v, n) \in Nat /\ Pos(v, k) \in Nat
      /\ m = (l + 1) * (m \div (l + 1)) + i /\ n = (l + 1) * (n \div (l + 1)) + j
    BY PosIs
<1>2. ~(Pos(v, m) < Pos(v, k)) /\ ~(Pos(v, n) < Pos(v, k))
    BY <1>1
<1>3. /\ m \div (l + 1) = r /\ i < h /\ i \in DOMAIN v.order /\ h \in DOMAIN v.order
      /\ v.order[h] < v.order[i]
    BY <1>2, PosApart
<1>4. /\ n \div (l + 1) = r /\ j < h /\ j \in DOMAIN v.order
      /\ v.order[h] < v.order[j]
    BY <1>2, PosApart
<1>5. i # j
    BY <1>1, <1>3, <1>4
<1> HIDE DEF i, j, h
<1>6. QED
    BY <1>3, <1>4, <1>5 DEF IsSortable

LEMMA Divided ==
    ASSUME NEW k \in Nat, k > 0, NEW q \in Nat, NEW i \in 0 .. k - 1
    PROVE  k * q + i \in Nat /\ (k * q + i) \div k = q /\ (k * q + i) % k = i
<1> DEFINE n == k * q + i
           a == n \div k
           b == n % k
<1>1. k * q \in Nat /\ n \in Nat
    OBVIOUS
<1> HIDE DEF n
<1>2. a \in Nat /\ b \in 0 .. k - 1 /\ n = k * a + b
    BY <1>1
<1> HIDE DEF a, b
<1>3. CASE a < q
    <2>1. (a + 1) * k <= q * k /\ (a + 1) * k = a * k + k
        BY <1>2, <1>3, RoundsGrow
    <2>2. k * q + i = k * a + b /\ k * q = q * k /\ k * a = a * k /\ a * k \in Nat /\ q * k \in Nat
        BY <1>1, <1>2 DEF n
    <2>3. FALSE
        <3> DEFINE x == a * k
                   y == q * k
        <3>1. x \in Nat /\ y \in Nat /\ x + k <= y /\ y + i = x + b
            BY <2>1, <2>2
        <3> HIDE DEF x, y
        <3>2. QED
            BY <1>2, <3>1
    <2>4. QED
        BY <2>3
<1>4. CASE q < a
    <2>1. (q + 1) * k <= a * k /\ (q + 1) * k = q * k + k
        BY <1>2, <1>4, RoundsGrow
    <2>2. k * q + i = k * a + b /\ k * q = q * k /\ k * a = a * k /\ a * k \in Nat /\ q * k \in Nat
        BY <1>1, <1>2 DEF n
    <2>3. FALSE
        <3> DEFINE x == a * k
                   y == q * k
        <3>1. x \in Nat /\ y \in Nat /\ y + k <= x /\ y + i = x + b
            BY <2>1, <2>2
        <3> HIDE DEF x, y
        <3>2. QED
            BY <1>2, <3>1
    <2>4. QED
        BY <2>3
<1>5. CASE a = q
    <2>1. k * q + b = k * q + i
        BY <1>2, <1>5 DEF n
    <2>2. b = i
        BY <1>1, <1>2, <2>1
    <2>3. QED
        BY <1>1, <1>5, <2>2 DEF n, a, b
<1>6. QED
    BY <1>2, <1>3, <1>4, <1>5

LEMMA OneRound ==
    ASSUME NEW v \in Videos, NEW n \in Nat, n < LengthOf(v)
    PROVE  ~EndsRound(v, n) /\ Pos(v, n) = v.order[n] /\ Pos(v, n) < LengthOf(v)
<1> DEFINE l == LengthOf(v)
<1>1. l \in Nat /\ l > 0 /\ n \in 0 .. (l + 1) - 1 /\ l + 1 \in Nat /\ l + 1 > 0
    BY VideoIs
<1> HIDE DEF l
<1>2. (l + 1) * 0 + n = n
    BY <1>1
<1>3. n \div (l + 1) = 0 /\ n % (l + 1) = n
    BY <1>1, <1>2, Divided
<1>4. n # l /\ n < l
    BY <1>1 DEF l
<1>5. ~EndsRound(v, n)
    BY <1>3, <1>4 DEF EndsRound, l
<1>6. v.order[n] \in Nat /\ v.order[n] < l
    BY <1>1, <1>4, VideoIs DEF l
<1>7. Pos(v, n) = 0 * l + v.order[n]
    BY <1>3 DEF Pos, l
<1>8. QED
    BY <1>1, <1>5, <1>6, <1>7 DEF l

LEMMA FirstIs ==
    ASSUME NEW v \in Videos, IsSortable(v)
    PROVE  Brings(v, 0) /\ Pos(v, 0) = 0
<1>1. LengthOf(v) \in Nat /\ 0 < LengthOf(v)
    BY VideoIs
<1>2. QED
    BY <1>1, OneRound DEF Brings, IsSortable

\* Every position before that of some frame is the one of some frame.
LEMMA PosAll ==
    ASSUME NEW v \in Videos, IsSortable(v), NEW n \in Nat, Brings(v, n),
           NEW p \in Nat, p < Pos(v, n)
    PROVE  \E m \in Nat : Brings(v, m) /\ Pos(v, m) = p
<1> DEFINE l == LengthOf(v)
           q == p \div l
           r == p % l
<1>1. l \in Nat /\ l > 0 /\ DOMAIN v.order = 0 .. l - 1 /\ Pos(v, n) \in Nat
    BY VideoIs, PosIs DEF Brings
<1>2. ~v.loop => p < l
    BY <1>1, OneRound DEF Brings
<1> HIDE DEF l
<1>3. q \in Nat /\ r \in 0 .. l - 1 /\ p = l * q + r
    BY <1>1
<1> HIDE DEF q, r
<1>4. PICK i \in 0 .. l - 1 : v.order[i] = r
    BY <1>1, <1>3 DEF IsSortable
<1> DEFINE m == (l + 1) * q + i
<1>5. m \in Nat /\ m \div (l + 1) = q /\ m % (l + 1) = i
    <2>1. l + 1 \in Nat /\ l + 1 > 0 /\ i \in 0 .. (l + 1) - 1
        BY <1>1
    <2>2. QED
        BY <1>3, <2>1, Divided
<1> HIDE DEF m
<1>6. ~EndsRound(v, m)
    BY <1>1, <1>4, <1>5 DEF EndsRound, l
<1>7. Pos(v, m) = q * l + r
    BY <1>4, <1>5 DEF Pos, l
<1>8. q * l = l * q /\ l * q \in Nat
    BY <1>1, <1>3
<1>9. Pos(v, m) = p
    BY <1>3, <1>7, <1>8
<1>10. ASSUME p < l
       PROVE  m < l
    <2>1. p = l * 0 + p /\ p \in 0 .. l - 1
        BY <1>1, <1>10
    <2>2. q = 0
        BY <1>1, <2>1, Divided DEF q
    <2>3. QED
        BY <1>1, <1>4, <2>2 DEF m
<1>11. QED
    BY <1>2, <1>5, <1>6, <1>9, <1>10 DEF Brings, l

LEMMA FramesDiffer ==
    ASSUME NEW v \in Videos, IsSortable(v), NEW m \in Nat, NEW n \in Nat,
           Brings(v, m), Brings(v, n)
    PROVE  /\ Pos(v, m) \in Nat
           /\ Pos(v, m) = Pos(v, n) => m = n
           /\ ~v.loop => m < LengthOf(v) /\ Pos(v, m) < Finished
<1>1. ~EndsRound(v, m) /\ ~EndsRound(v, n)
    BY DEF Brings
<1>2. ~v.loop => m < LengthOf(v) /\ LengthOf(v) <= Finished
    BY DEF Brings, IsSortable
<1>3. Pos(v, m) \in Nat /\ LengthOf(v) \in Nat /\ Finished \in Nat
    BY <1>1, PosIs, VideoIs, FinishedIs
<1>4. ~v.loop => Pos(v, m) < LengthOf(v)
    BY <1>2, OneRound
<1>5. ~v.loop => Pos(v, m) < Finished
    BY <1>2, <1>3, <1>4
<1>6. QED
    BY <1>1, <1>2, <1>3, <1>5, PosDistinct

\* Only what is decoded counts, and which of the two it is in does not.
LEMMA TurnsExchanged ==
    ASSUME NEW v, NEW a, NEW b, NEW taken, NEW last, InTurn(v, a, b, taken, last)
    PROVE  InTurn(v, b, a, taken, last)
BY DEF InTurn

LEMMA TurnsAlike ==
    ASSUME NEW v, NEW a, NEW b, NEW c, NEW d, NEW taken, NEW last,
           InTurn(v, a, b, taken, last),
           IsDecoded(c) <=> IsDecoded(a), IsDecoded(a) => c.position = a.position,
           IsDecoded(d) <=> IsDecoded(b), IsDecoded(b) => d.position = b.position
    PROVE  InTurn(v, c, d, taken, last)
BY DEF InTurn, HeldIs, Holds

\* What was taken stays taken.
LEMMA StillHeld ==
    ASSUME NEW v, NEW f, NEW taken \in Nat, NEW last, HeldIs(v, f, taken, last),
           v.loop \/ taken # LengthOf(v)
    PROVE  HeldIs(v, f, taken + 1, last)
BY DEF HeldIs

LEMMA ReadInTurn ==
    ASSUME NEW v \in Videos, IsSortable(v), NEW a, NEW b, NEW f, NEW taken, NEW last,
           InTurn(v, a, b, taken, last), ~EndsRound(v, taken),
           IsDecoded(f), f.position = Pos(v, taken), ~v.late => ~IsDecoded(b)
    PROVE  InTurn(v, a, f, taken + 1, last)
<1>1. /\ taken \in Nat /\ last \in Nat /\ LengthOf(v) \in Nat
      /\ ~v.loop => taken <= LengthOf(v)
    BY VideoIs DEF InTurn
<1>2. ~v.loop => taken < LengthOf(v)
    <2>1. CASE taken = LengthOf(v)
        <3>1. taken \in 0 .. (LengthOf(v) + 1) - 1 /\ LengthOf(v) + 1 \in Nat /\ LengthOf(v) + 1 > 0
            BY <1>1, <2>1
        <3>2. (LengthOf(v) + 1) * 0 + taken = taken
            BY <1>1
        <3>3. taken % (LengthOf(v) + 1) = taken
            BY <3>1, <3>2, Divided
        <3>4. QED
            BY <2>1, <3>3 DEF EndsRound
    <2>2. QED
        BY <1>1, <2>1
<1>3. Brings(v, taken)
    BY <1>2 DEF Brings
<1>4. taken + 1 \in Nat /\ (~v.loop => taken + 1 <= LengthOf(v))
    BY <1>1, <1>2
<1>5. HeldIs(v, a, taken + 1, last)
    BY <1>1, <1>2, StillHeld DEF InTurn
<1>6. f.position > last
    BY <1>1, <1>3 DEF InTurn
<1>7. HeldIs(v, f, taken + 1, last)
    BY <1>1, <1>3, <1>6 DEF HeldIs
<1>8. ASSUME IsDecoded(a), a.position = f.position
      PROVE  a.position = Finished
    <2>1. ASSUME NEW n \in Nat, n < taken, Brings(v, n), a.position = Pos(v, n)
          PROVE  FALSE
        <3>1. Pos(v, n) = Pos(v, taken)
            BY <1>8, <2>1
        <3>2. n = taken
            BY <1>1, <1>3, <2>1, <3>1, FramesDiffer
        <3>3. QED
            BY <1>1, <2>1, <3>2
    <2>2. QED
        BY <1>8, <2>1 DEF InTurn, HeldIs
<1>9. ASSUME NEW n \in Nat, n >= taken + 1, Brings(v, n)
      PROVE  Pos(v, n) > last
    BY <1>1, <1>9 DEF InTurn
<1>10. ASSUME ~v.late, NEW n \in Nat, n < taken + 1, Brings(v, n)
       PROVE  Pos(v, n) <= last \/ Holds(a, Pos(v, n)) \/ Holds(f, Pos(v, n))
    <2>1. CASE n = taken
        BY <2>1 DEF Holds
    <2>2. CASE n < taken
        BY <1>10, <2>2 DEF InTurn, Holds
    <2>3. QED
        BY <1>1, <1>10, <2>1, <2>2
<1>11. QED
    BY <1>1, <1>4, <1>5, <1>7, <1>8, <1>9, <1>10 DEF InTurn

LEMMA FinishInTurn ==
    ASSUME NEW v \in Videos, NEW a, NEW b, NEW f, NEW taken, NEW last,
           InTurn(v, a, b, taken, last), EndsRound(v, taken), ~v.loop,
           IsDecoded(f), f.position = Finished, ~v.late => ~IsDecoded(b)
    PROVE  InTurn(v, a, f, taken, last)
<1>1. taken \in Nat /\ LengthOf(v) \in Nat /\ taken <= LengthOf(v)
    BY VideoIs DEF InTurn
<1>2. taken = LengthOf(v)
    BY <1>1, OneRound
<1>3. HeldIs(v, f, taken, last)
    BY <1>2 DEF HeldIs
<1>4. QED
    BY <1>3 DEF InTurn, Holds

LEMMA DropInTurn ==
    ASSUME NEW v, NEW a, NEW b, NEW f, NEW taken, NEW last,
           InTurn(v, a, b, taken, last), v.late, ~IsDecoded(f)
    PROVE  InTurn(v, a, f, taken, last)
BY DEF InTurn, HeldIs

LEMMA LoopInTurn ==
    ASSUME NEW v \in Videos, NEW a, NEW b, NEW taken, NEW last,
           InTurn(v, a, b, taken, last), EndsRound(v, taken), v.loop
    PROVE  InTurn(v, a, b, taken + 1, last)
<1>1. taken \in Nat /\ last \in Nat /\ ~Brings(v, taken) /\ taken + 1 \in Nat
    BY DEF InTurn, Brings
<1>2. HeldIs(v, a, taken + 1, last) /\ HeldIs(v, b, taken + 1, last)
    BY <1>1, StillHeld DEF InTurn
<1>3. \A n \in Nat : n >= taken + 1 => n >= taken
    BY <1>1
<1>4. \A n \in Nat : n < taken + 1 /\ Brings(v, n) => n < taken
    BY <1>1
<1>5. QED
    BY <1>1, <1>2, <1>3, <1>4 DEF InTurn

\* The earlier of the two is given away: nothing comes later that precedes it.
LEMMA GiveInTurn ==
    ASSUME NEW v \in Videos, IsSortable(v), NEW a, NEW b, NEW f, NEW taken, NEW last,
           InTurn(v, a, b, taken, last), IsDecoded(a), a.position # Finished,
           IsDecoded(b), a.position <= b.position, ~IsDecoded(f)
    PROVE  /\ InTurn(v, b, f, taken, a.position)
           /\ a.position > last
           /\ ~v.late => a.position = last + 1
<1>1. PICK m \in Nat : m < taken /\ Brings(v, m) /\ a.position = Pos(v, m) /\ a.position > last
    BY DEF InTurn, HeldIs
<1>2. taken \in Nat /\ last \in Nat /\ a.position \in Nat /\ Finished \in Nat
    BY <1>1, FramesDiffer, FinishedIs DEF InTurn
<1>3. \/ b.position = Finished /\ ~v.loop /\ taken = LengthOf(v)
      \/ \E n \in Nat : n < taken /\ Brings(v, n) /\ b.position = Pos(v, n)
    BY DEF InTurn, HeldIs
<1>4. b.position \in Nat
    BY <1>2, <1>3, FramesDiffer
<1>5. b.position > a.position
    BY <1>2, <1>4 DEF InTurn
<1>6. HeldIs(v, b, taken, a.position)
    BY <1>3, <1>5 DEF HeldIs
<1>7. ASSUME NEW n \in Nat, n >= taken, Brings(v, n)
      PROVE  Pos(v, n) > a.position
    <2>1. v.loop \/ taken # LengthOf(v)
        <3>1. ~v.loop => n < LengthOf(v)
            BY <1>7 DEF Brings
        <3>2. LengthOf(v) \in Nat
            BY VideoIs
        <3>3. QED
            BY <1>2, <1>7, <3>1, <3>2
    <2>2. PICK k \in Nat : k < taken /\ Brings(v, k) /\ b.position = Pos(v, k)
        BY <1>3, <2>1
    <2>3. m # k /\ m < n /\ k < n /\ m # n
        BY <1>1, <1>2, <1>4, <1>5, <1>7, <2>2
    <2>4. Pos(v, n) \in Nat /\ Pos(v, n) # Pos(v, m)
        BY <1>1, <1>7, <2>3, FramesDiffer
    <2>5. ~(Pos(v, n) < Pos(v, m) /\ Pos(v, n) < Pos(v, k))
        BY <1>1, <1>7, <2>2, <2>3, PosSorted DEF Brings
    <2>6. QED
        BY <1>1, <1>2, <1>4, <1>5, <2>2, <2>4, <2>5
<1>8. ASSUME ~v.late, NEW n \in Nat, n < taken, Brings(v, n)
      PROVE  Pos(v, n) <= a.position \/ Holds(b, Pos(v, n))
    <2>1. Pos(v, n) <= last \/ Holds(a, Pos(v, n)) \/ Holds(b, Pos(v, n))
        BY <1>8 DEF InTurn
    <2>2. Pos(v, n) \in Nat
        BY <1>8, FramesDiffer
    <2>3. QED
        BY <1>1, <1>2, <2>1, <2>2 DEF Holds
<1>9. InTurn(v, b, f, taken, a.position)
    <2>1. HeldIs(v, f, taken, a.position)
        BY DEF HeldIs
    <2>2. ~v.loop => taken <= LengthOf(v)
        BY DEF InTurn
    <2>3. QED
        BY <1>2, <1>6, <1>7, <1>8, <2>1, <2>2 DEF InTurn
<1>10. ASSUME ~v.late
       PROVE  a.position = last + 1
    <2> SUFFICES ASSUME a.position # last + 1
                 PROVE  FALSE
        OBVIOUS
    <2>1. last + 1 \in Nat /\ last + 1 < a.position
        BY <1>1, <1>2
    <2>2. PICK n \in Nat : Brings(v, n) /\ Pos(v, n) = last + 1
        BY <1>1, <2>1, PosAll
    <2>3. n < taken
        BY <1>2, <1>7, <2>1, <2>2
    <2>4. Pos(v, n) <= last \/ Holds(a, Pos(v, n)) \/ Holds(b, Pos(v, n))
        BY <1>10, <2>2, <2>3 DEF InTurn
    <2>5. QED
        BY <1>2, <1>4, <1>5, <2>1, <2>2, <2>4 DEF Holds
<1>11. QED
    BY <1>1, <1>9, <1>10

\* The first frame is shown when it is decoded.
LEMMA FirstInTurn ==
    ASSUME NEW v \in Videos, IsSortable(v), NEW a, NEW b, ~IsDecoded(a), ~IsDecoded(b)
    PROVE  InTurn(v, a, b, 1, 0)
<1>1. Brings(v, 0) /\ Pos(v, 0) = 0 /\ LengthOf(v) \in Nat /\ LengthOf(v) > 0
    BY FirstIs, VideoIs
<1>2. HeldIs(v, a, 1, 0) /\ HeldIs(v, b, 1, 0)
    BY DEF HeldIs
<1>3. ASSUME NEW n \in Nat, n >= 1, Brings(v, n)
      PROVE  Pos(v, n) > 0
    <2>1. Pos(v, n) \in Nat /\ Pos(v, n) # Pos(v, 0)
        BY <1>1, <1>3, FramesDiffer
    <2>2. QED
        BY <1>1, <2>1
<1>4. \A n \in Nat : n < 1 => Pos(v, n) <= 0
    <2>1. \A n \in Nat : n < 1 => n = 0
        OBVIOUS
    <2>2. QED
        BY <1>1, <2>1
<1>5. QED
    BY <1>1, <1>2, <1>3, <1>4 DEF InTurn

-----------------------------------------------------------------------------
(* The two frames of the track.                                                *)

\* The frame that was given away last, and the one the track gets back next.
LastGiven == IF Even(counter) THEN frames[Current(counter)] ELSE frames[Current(Succ(counter))]
Fourth    == After(Second)

TrackTurns ==
    /\ counter = Uninitialized =>
         track.taken = 0 /\ \A i \in 0 .. 3 : ~IsDecoded(frames[i])
    /\ counter # Uninitialized =>
         /\ InTurn(video, frames[First], frames[Second], track.taken, LastGiven.position)
         /\ Even(counter) => ~IsDecoded(frames[Fourth])
         /\ IsDecoded(frames[Second]) => IsDecoded(frames[First])
    /\ at.does = "read" =>
         /\ at.frame = First => ~IsDecoded(frames[Second])
         /\ ~video.late => ~IsDecoded(frames[at.frame])
    /\ at.does \in {"present", "show"} =>
         \/ frames[First].position = Finished
         \/ /\ IsDecoded(frames[Second])
            /\ frames[First].position <= frames[Second].position

Follows(p, q) == q > p /\ (~video.late => q = p + 1)

\* Until streamReady() the player has shown nothing, and the letter is on its way,
\* behind nothing but what tells how much was received.
ReadyComes ==
    \E k \in 1 .. Len(mail) : /\ mail[k].kind = "ready"
                              /\ \A j \in 1 .. k - 1 : mail[j].kind = "till"
                              /\ \A j \in k + 1 .. Len(mail) : mail[j].kind # "ready"

MainTurns ==
    /\ player.stage = "initializing" =>
         /\ player.position = Unknown /\ ~player.next /\ mainAt = Nothing
         /\ counter # Uninitialized =>
              ReadyComes /\ frames[Current(counter)].position = PositionOf(0)
    /\ player.stage # "initializing" =>
         /\ counter # Uninitialized /\ player.position \in Nat
         /\ \A k \in 1 .. Len(mail) : mail[k].kind # "ready"
         /\ mainAt.does # "marked" => player.position = frames[Current(counter)].position
         /\ mainAt.does = "marked" =>
              /\ mainAt.position = frames[Current(counter)].position
              /\ Follows(player.position, mainAt.position)
    /\ counter # Uninitialized =>
         /\ frames[Current(counter)].position \in Nat
         /\ ~Even(counter) =>
              Follows(frames[Current(counter)].position, frames[Current(Succ(counter))].position)

-----------------------------------------------------------------------------
(* The track's frames stay in turn.                                            *)

LEMMA RingIs ==
    ASSUME NEW c \in Values
    PROVE  LET fourth == After(After(Prepares(c))) IN
           /\ fourth \in 0 .. 3 /\ fourth # Prepares(c) /\ fourth # After(Prepares(c))
           /\ Even(c) => /\ fourth # Current(c) /\ Prepares(Succ(c)) = After(Prepares(c))
                         /\ After(Prepares(Succ(c))) = fourth
           /\ ~Even(c) => fourth = Current(c)
<1>1. c = 0 \/ c = 1 \/ c = 2 \/ c = 3 \/ c = 4 \/ c = 5 \/ c = 6 \/ c = 7
    BY DEF Values
<1>2. QED
    BY <1>1 DEF Values, Succ, Current, Prepares, After, Even

\* Steps that leave the frames as they were, and read nothing.
LEMMA TurnsKept ==
    ASSUME TrackTurns, UNCHANGED <<video, counter, frames>>, track'.taken = track.taken,
           at' = at \/ at'.does \notin {"read", "present", "show"}
    PROVE  TrackTurns'
<1>1. UNCHANGED <<LastGiven, First, Second, Fourth>>
    BY DEF LastGiven, First, Second, Fourth
<1>2. QED
    BY <1>1 DEF TrackTurns

\* What the track owns is none of the frames it gave away.
LEMMA TrackChanges ==
    ASSUME Inv, TypeOK', counter \in Values, UNCHANGED <<video, counter>>,
           \A i \in (0 .. 3) \ {First, Second} : frames'[i] = frames[i],
           Even(counter) => ~IsDecoded(frames[Fourth])
    PROVE  /\ UNCHANGED <<LastGiven, First, Second, Fourth>>
           /\ First \in 0 .. 3 /\ Second \in 0 .. 3 /\ First # Second
           /\ Even(counter) => ~IsDecoded(frames'[Fourth])
<1>1. /\ First \in 0 .. 3 /\ Second \in 0 .. 3 /\ First # Second
      /\ Current(counter) \in (0 .. 3) \ {First, Second}
    BY CounterValues, TwoOfFour DEF First, Second
<1>2. ~Even(counter) => Current(Succ(counter)) \in (0 .. 3) \ {First, Second}
    BY CounterValues, MainGoesOn DEF First, Second
<1>3. Fourth \in (0 .. 3) \ {First, Second}
    BY RingIs DEF First, Second, Fourth
<1>4. UNCHANGED <<First, Second, Fourth>>
    BY DEF First, Second, Fourth
<1>5. LastGiven' = LastGiven
    BY <1>1, <1>2 DEF LastGiven
<1>6. QED
    BY <1>1, <1>3, <1>4, <1>5

LEMMA TurnsAre ==
    ASSUME TrackTurns, counter \in Values
    PROVE  /\ InTurn(video, frames[First], frames[Second], track.taken, LastGiven.position)
           /\ Even(counter) => ~IsDecoded(frames[Fourth])
           /\ IsDecoded(frames[Second]) => IsDecoded(frames[First])
BY DEF TrackTurns, Values, Uninitialized

LEMMA FirstTurns ==
    ASSUME Inv, TypeOK', TrackTurns, IsSortable(video), FirstPacket
    PROVE  TrackTurns'
<1>1. /\ counter = Uninitialized /\ counter' = 0 /\ at' = Nothing /\ video' = video
      /\ frames' = [frames EXCEPT ![0] =
           [position |-> PositionOf(0), displayed |-> TRUE, picture |-> PositionOf(0)]]
    BY DEF FirstPacket, Begins, Inv, NotYet
<1>2. track.taken = 0 /\ track \in Tracks /\ \A i \in 0 .. 3 : ~IsDecoded(frames[i])
    BY <1>1 DEF TrackTurns, Inv, TypeOK
<1>3. track'.taken = 1
    BY <1>2 DEF FirstPacket, QueueRead, Tracks
<1>4. frames \in [0 .. 3 -> Frame] /\ video \in Videos
    BY DEF Inv, TypeOK
<1>5. \A i \in 1 .. 3 : ~IsDecoded(frames'[i])
    BY <1>1, <1>2, <1>4
<1>6. frames'[0].position = 0
    <2>1. PositionOf(0) = 0
        BY <1>4, PositionsAre, FirstIs
    <2>2. QED
        BY <1>1, <1>4, <2>1
<1>7. Even(0) /\ Current(0) = 0 /\ Prepares(0) = 1 /\ After(1) = 2 /\ After(2) = 3
    BY DEF Even, Current, Prepares, After
<1>8. First' = 1 /\ Second' = 2 /\ Fourth' = 3 /\ LastGiven' = frames'[0]
    BY <1>1, <1>7 DEF First, Second, Fourth, LastGiven
<1>9. InTurn(video, frames'[1], frames'[2], 1, 0)
    BY <1>4, <1>5, FirstInTurn
<1>10. 0 # Uninitialized /\ Nothing.does = "nothing"
    BY DEF Uninitialized, Nothing
<1>11. QED
    BY <1>1, <1>3, <1>5, <1>6, <1>8, <1>9, <1>10 DEF TrackTurns

LEMMA BegunTurns ==
    ASSUME Inv, TypeOK', TrackTurns, IsSortable(video), Begun \/ ReadTimerFires
    PROVE  TrackTurns'
<1>1. CASE FirstPacket
    BY <1>1, FirstTurns
<1>2. track \in Tracks
    BY DEF Inv, TypeOK
<1>3. CASE NextPacket \/ FrameDisplayed \/ Resume \/ Pause \/ Subscribe \/ Discard
    <2>1. track'.taken = track.taken
        BY <1>2, <1>3
        DEF NextPacket, FrameDisplayed, Resume, Pause, Subscribe, Discard, QueueRead, Tracks
    <2>2. UNCHANGED <<video, counter, frames, at>>
        BY <1>3 DEF NextPacket, FrameDisplayed, Resume, Pause, Subscribe, Discard, Begins,
                    ringVars
    <2>3. QED
        BY <2>1, <2>2, TurnsKept
<1>4. CASE ReadFrames \/ ReadTimerFires
    <2>1. track'.taken = track.taken
        BY <1>2, <1>4 DEF ReadFrames, ReadTimerFires, Tracks
    <2>2. UNCHANGED <<video, counter, frames>> /\ at'.does = "prepare"
        BY <1>4 DEF ReadFrames, ReadTimerFires, Begins, ringVars, Preparing
    <2>3. QED
        BY <2>1, <2>2, TurnsKept
<1>5. QED
    BY <1>1, <1>3, <1>4 DEF Begun

LEMMA SortedInTurn ==
    ASSUME Inv, TrackTurns, at.does = "choose", BothDecoded
    PROVE  /\ InTurn(video, Sorted[First], Sorted[Second], track.taken, LastGiven.position)
           /\ Sorted[First].position <= Sorted[Second].position
<1>1. Chosen = First /\ Other = Second /\ counter \in Values
    BY ChosenIsOwn
<1>2. /\ First \in 0 .. 3 /\ Second \in 0 .. 3 /\ First # Second
      /\ frames \in [0 .. 3 -> Frame] /\ frames[First] \in Frame /\ frames[Second] \in Frame
    BY <1>1, ChosenIs DEF Inv, TypeOK
<1>3. frames[First].position \in Int /\ frames[Second].position \in Int
    BY <1>2 DEF Frame, Position, Unknown
<1>4. InTurn(video, frames[First], frames[Second], track.taken, LastGiven.position)
    BY <1>1, TurnsAre
<1>5. CASE frames[Second].position < frames[First].position
    <2>1. Sorted[First] = frames[Second] /\ Sorted[Second] = frames[First]
        BY <1>1, <1>2, <1>5 DEF Sorted
    <2>2. QED
        BY <1>3, <1>4, <1>5, <2>1, TurnsExchanged
<1>6. CASE ~(frames[Second].position < frames[First].position)
    <2>1. Sorted = frames
        BY <1>1, <1>6 DEF Sorted
    <2>2. QED
        BY <1>3, <1>4, <1>6, <2>1
<1>7. QED
    BY <1>5, <1>6

LEMMA ChoosesTurns ==
    ASSUME Inv, TypeOK', TrackTurns, Chooses
    PROVE  TrackTurns'
<1>1. CASE PrepareState
    <2>1. UNCHANGED <<video, counter, frames, track>> /\ at'.does = "choose"
        BY <1>1 DEF PrepareState, TrackStep, ringVars, Choosing
    <2>2. QED
        BY <2>1, TurnsKept
<1>2. ASSUME at.does = "choose"
      PROVE  /\ Chosen = First /\ Other = Second /\ counter \in Values
             /\ counter # Uninitialized
             /\ First \in 0 .. 3 /\ Second \in 0 .. 3 /\ First # Second
             /\ frames \in [0 .. 3 -> Frame]
    BY <1>2, ChosenIsOwn, ChosenIs DEF Inv, TypeOK, Values, Uninitialized
<1>3. CASE ReadNeeded
    <2>1. UNCHANGED <<video, counter, frames, track>> /\ at.does = "choose" /\ ~BothDecoded
        BY <1>3 DEF ReadNeeded, TrackStep, ringVars
    <2>2. /\ at' = Reading(IF IsDecoded(frames[First]) THEN Second ELSE First)
          /\ First # Second /\ counter \in Values /\ counter # Uninitialized
          /\ ~(IsDecoded(frames[First]) /\ IsDecoded(frames[Second]))
        BY <1>2, <1>3, <2>1 DEF ReadNeeded, TrackStep, BothDecoded
    <2>3. UNCHANGED <<LastGiven, First, Second, Fourth>>
        BY <2>1 DEF LastGiven, First, Second, Fourth
    <2>4. IsDecoded(frames[Second]) => IsDecoded(frames[First])
        BY <2>2, TurnsAre
    <2>5. at'.does = "read" /\ ~IsDecoded(frames[at'.frame])
          /\ (at'.frame = First => ~IsDecoded(frames[Second]))
        BY <2>2, <2>4 DEF Reading
    <2>6. QED
        BY <2>1, <2>2, <2>3, <2>5 DEF TrackTurns
<1>4. CASE NoneNeeded \/ NoneNeededYet
    <2>1. at.does = "choose" /\ BothDecoded
        BY <1>4 DEF NoneNeeded, NoneNeededYet
    <2>2. UNCHANGED <<video, counter>> /\ frames' = Sorted /\ track'.taken = track.taken
        BY <1>4 DEF NoneNeeded, NoneNeededYet, TrackStep, Inv, TypeOK, Tracks
    <2>3. \A i \in (0 .. 3) \ {First, Second} : frames'[i] = frames[i]
        BY <1>2, <2>1, <2>2, SortedIs DEF Inv
    <2>4. Even(counter) => ~IsDecoded(frames[Fourth])
        BY <1>2, <2>1, TurnsAre
    <2>5. /\ UNCHANGED <<LastGiven, First, Second, Fourth>>
          /\ Even(counter) => ~IsDecoded(frames'[Fourth])
        BY <1>2, <2>1, <2>2, <2>3, <2>4, TrackChanges
    <2>6. /\ InTurn(video, frames'[First], frames'[Second], track.taken, LastGiven.position)
          /\ frames'[First].position <= frames'[Second].position
        BY <2>1, <2>2, SortedInTurn
    <2>7. IsDecoded(frames'[First]) /\ IsDecoded(frames'[Second])
        BY <1>2, <2>1, <2>2, SortedIs DEF Inv
    <2>8. at'.does # "read"
        BY <1>4 DEF NoneNeeded, NoneNeededYet, TrackStep, Presenting, Nothing
    <2>9. counter # Uninitialized
        BY <1>2, <2>1
    <2>10. QED
        BY <2>2, <2>5, <2>6, <2>7, <2>8, <2>9 DEF TrackTurns
<1>5. CASE StaleDropped
    <2>1. at.does = "choose" /\ BothDecoded /\ video.late
        BY <1>5 DEF StaleDropped
    <2>2. /\ UNCHANGED <<video, counter, track>> /\ at' = Reading(Second)
          /\ frames' = [frames EXCEPT ![First] = Sorted[Second],
                          ![Second] = [Sorted[First] EXCEPT !.displayed = TRUE]]
        BY <1>2, <1>5, <2>1 DEF StaleDropped, TrackStep
    <2>3. /\ \A i \in (0 .. 3) \ {First, Second} : frames'[i] = frames[i]
          /\ frames'[First] = Sorted[Second]
          /\ frames'[Second] = [Sorted[First] EXCEPT !.displayed = TRUE]
        BY <1>2, <2>1, <2>2
    <2>4. Even(counter) => ~IsDecoded(frames[Fourth])
        BY <1>2, <2>1, TurnsAre
    <2>5. /\ UNCHANGED <<LastGiven, First, Second, Fourth>>
          /\ Even(counter) => ~IsDecoded(frames'[Fourth])
        BY <1>2, <2>1, <2>2, <2>3, <2>4, TrackChanges
    <2>6. ~IsDecoded(frames'[Second]) /\ IsDecoded(frames'[First])
        <3>1. Sorted \in [0 .. 3 -> Frame] /\ IsDecoded(Sorted[Second])
            BY <1>2, <2>1, SortedIs DEF Inv
        <3>2. Sorted[First] \in Frame
            BY <1>2, <2>1, <3>1
        <3>3. frames'[Second].displayed
            BY <2>3, <3>2 DEF Frame
        <3>4. QED
            BY <2>3, <3>1, <3>3 DEF IsDecoded
    <2>7. InTurn(video, Sorted[Second], Sorted[First], track.taken, LastGiven.position)
        BY <2>1, SortedInTurn, TurnsExchanged
    <2>8. InTurn(video, frames'[First], frames'[Second], track.taken, LastGiven.position)
        BY <2>1, <2>3, <2>6, <2>7, DropInTurn
    <2>9. at'.does = "read" /\ at'.frame = Second /\ First # Second /\ counter # Uninitialized
        BY <1>2, <2>1, <2>2 DEF Reading
    <2>10. QED
        BY <2>1, <2>2, <2>5, <2>6, <2>8, <2>9 DEF TrackTurns
<1>6. QED
    BY <1>1, <1>3, <1>4, <1>5 DEF Chooses

LEMMA ReadsTurns ==
    ASSUME Inv, TypeOK', TrackTurns, IsSortable(video), Reads
    PROVE  TrackTurns'
<1> DEFINE last == LastGiven.position
           f == frames'[at.frame]
<1>1. /\ at.does = "read" /\ UNCHANGED <<video, counter>>
      /\ video \in Videos /\ track \in Tracks /\ frames \in [0 .. 3 -> Frame]
      /\ track.taken \in Nat
    <2>1. at.does = "read"
        BY DEF Reads, ReadWaits, ReadFinishes, ReadLoops, ReadFrame, HasPacket
    <2>2. UNCHANGED <<video, counter>>
        BY DEF Reads, ReadWaits, ReadFinishes, ReadLoops, ReadFrame, TrackStep, ringVars
    <2>3. QED
        BY <2>1, <2>2 DEF Inv, TypeOK, Tracks
<1>2. counter \in Values /\ counter # Uninitialized
    BY <1>1, SomebodyShows DEF Nothing, Values, Uninitialized
<1>3. /\ First \in 0 .. 3 /\ Second \in 0 .. 3 /\ First # Second
    BY <1>2, CounterValues, TwoOfFour DEF First, Second
<1>4. /\ at.frame \in {First, Second}
      /\ at.frame = Second => IsDecoded(frames[First])
      /\ at.frame = First => ~IsDecoded(frames[Second])
      /\ ~video.late => ~IsDecoded(frames[at.frame])
    BY <1>1 DEF Inv, TrackOwns, TrackTurns
<1>5. /\ InTurn(video, frames[First], frames[Second], track.taken, last)
      /\ Even(counter) => ~IsDecoded(frames[Fourth])
    BY <1>2, TurnsAre
<1>6. CASE ReadWaits
    <2>1. UNCHANGED <<frames, track>> /\ at'.does = "nothing"
        BY <1>6 DEF ReadWaits, TrackStep, ringVars, Nothing
    <2>2. QED
        BY <1>1, <2>1, TurnsKept
<1>7. ASSUME NEW p \in Nat, frames' = [frames EXCEPT ![at.frame] = Decoded(@, p)]
      PROVE  /\ f.position = p /\ IsDecoded(f)
             /\ \A i \in (0 .. 3) \ {at.frame} : frames'[i] = frames[i]
             /\ UNCHANGED <<LastGiven, First, Second, Fourth>>
             /\ Even(counter) => ~IsDecoded(frames'[Fourth])
    <2>1. frames[at.frame] \in Frame /\ at.frame \in 0 .. 3
        BY <1>1, <1>3, <1>4
    <2>2. f = Decoded(frames[at.frame], p)
        BY <1>1, <1>7, <2>1
    <2>3. f.position = p /\ IsDecoded(f)
        <3>1. Decoded(frames[at.frame], p).position = p
            BY <2>1 DEF Decoded, Frame
        <3>2. IsDecoded(Decoded(frames[at.frame], p))
            BY <2>1, FrameIs
        <3>3. QED
            BY <2>2, <3>1, <3>2
    <2>4. \A i \in (0 .. 3) \ {at.frame} : frames'[i] = frames[i]
        BY <1>1, <1>7, <2>1
    <2>5. \A i \in (0 .. 3) \ {First, Second} : frames'[i] = frames[i]
        BY <1>4, <2>4
    <2>6. QED
        BY <1>1, <1>2, <1>5, <2>3, <2>4, <2>5, TrackChanges
<1> HIDE DEF last, f
\* The frame that is read is one of the two.
<1>8. ASSUME NEW taken,
             \A i \in (0 .. 3) \ {at.frame} : frames'[i] = frames[i],
             UNCHANGED <<LastGiven, First, Second, Fourth>>, IsDecoded(f),
             \A a, b : /\ InTurn(video, a, b, track.taken, last)
                       /\ ~video.late => ~IsDecoded(b)
                       => InTurn(video, a, f, taken, last)
      PROVE  /\ InTurn(video, frames'[First], frames'[Second], taken, last)
             /\ IsDecoded(frames'[First])
             /\ at.frame = First => ~IsDecoded(frames'[Second])
    <2>1. CASE at.frame = Second
        <3>1. frames'[Second] = f /\ frames'[First] = frames[First]
            BY <1>3, <1>8, <2>1 DEF f
        <3>2. InTurn(video, frames[First], f, taken, last)
            BY <1>4, <1>5, <1>8, <2>1
        <3>3. QED
            BY <1>3, <1>4, <2>1, <3>1, <3>2
    <2>2. CASE at.frame = First
        <3>1. frames'[First] = f /\ frames'[Second] = frames[Second]
            BY <1>3, <1>8, <2>2 DEF f
        <3>2. InTurn(video, frames[Second], frames[First], track.taken, last)
            BY <1>5, TurnsExchanged
        <3>3. InTurn(video, frames[Second], f, taken, last)
            BY <1>4, <1>8, <2>2, <3>2
        <3>4. InTurn(video, f, frames[Second], taken, last)
            BY <3>3, TurnsExchanged
        <3>5. QED
            BY <1>4, <1>8, <2>2, <3>1, <3>4
    <2>3. QED
        BY <1>4, <2>1, <2>2
<1>9. CASE ReadFinishes
    <2>1. /\ frames' = [frames EXCEPT ![at.frame] = Decoded(@, Finished)]
          /\ at'.does = "present" /\ track' = track
          /\ IsEnd(track.taken) /\ ~video.loop
        BY <1>9 DEF ReadFinishes, TrackStep, Presenting
    <2>2. /\ f.position = Finished /\ IsDecoded(f)
          /\ \A i \in (0 .. 3) \ {at.frame} : frames'[i] = frames[i]
          /\ UNCHANGED <<LastGiven, First, Second, Fourth>>
          /\ Even(counter) => ~IsDecoded(frames'[Fourth])
        BY <1>7, <2>1, FinishedIs
    <2>3. EndsRound(video, track.taken)
        BY <1>1, <2>1, PositionsAre
    <2>4. ASSUME NEW a, NEW b, InTurn(video, a, b, track.taken, last),
                 ~video.late => ~IsDecoded(b)
          PROVE  InTurn(video, a, f, track.taken, last)
        BY <1>1, <2>1, <2>2, <2>3, <2>4, FinishInTurn
    <2>5. /\ InTurn(video, frames'[First], frames'[Second], track.taken, last)
          /\ IsDecoded(frames'[First])
        BY <1>8, <2>2, <2>4
    <2>6. \/ frames'[First].position = Finished
          \/ /\ IsDecoded(frames'[Second])
             /\ frames'[First].position <= frames'[Second].position
        <3>1. CASE at.frame = First
            BY <2>2, <3>1 DEF f
        <3>2. CASE at.frame = Second
            <4>1. frames'[Second] = f
                BY <3>2 DEF f
            <4>2. \/ frames'[First].position = Finished
                  \/ \E n \in Nat : Brings(video, n) /\ frames'[First].position = Pos(video, n)
                BY <2>5 DEF InTurn, HeldIs
            <4>3. \/ frames'[First].position = Finished
                  \/ /\ frames'[First].position \in Nat
                     /\ frames'[First].position < Finished
                BY <1>1, <2>1, <4>2, FramesDiffer
            <4>4. QED
                BY <2>2, <4>1, <4>3, FinishedIs
        <3>3. QED
            BY <1>4, <3>1, <3>2
    <2>7. QED
        BY <1>1, <1>2, <2>1, <2>2, <2>5, <2>6 DEF TrackTurns, last
<1>10. CASE ReadLoops
    <2>1. /\ UNCHANGED frames /\ at'.does = "nothing" /\ track'.taken = track.taken + 1
          /\ IsEnd(track.taken) /\ video.loop
        BY <1>1, <1>10 DEF ReadLoops, TrackStep, ringVars, Nothing, Tracks
    <2>2. EndsRound(video, track.taken)
        BY <1>1, <2>1, PositionsAre
    <2>3. InTurn(video, frames[First], frames[Second], track.taken + 1, last)
        BY <1>1, <1>5, <2>1, <2>2, LoopInTurn
    <2>4. UNCHANGED <<LastGiven, First, Second, Fourth>>
        BY <1>1, <2>1 DEF LastGiven, First, Second, Fourth
    <2>5. IsDecoded(frames[Second]) => IsDecoded(frames[First])
        BY <1>2, TurnsAre
    <2>6. QED
        BY <1>1, <1>2, <1>5, <2>1, <2>3, <2>4, <2>5 DEF TrackTurns, last
<1>11. CASE ReadFrame
    <2> DEFINE p == PositionOf(track.taken)
    <2>1. /\ frames' = [frames EXCEPT ![at.frame] = Decoded(@, p)]
          /\ track'.taken = track.taken + 1 /\ ~IsEnd(track.taken)
          /\ at'.does = "prepare" \/ (at' = at /\ video.late)
        BY <1>1, <1>11 DEF ReadFrame, TrackStep, Preparing, Tracks
    <2>2. p \in Nat
        BY <1>1, <2>1, Positions
    <2> HIDE DEF p
    <2>3. /\ f.position = p /\ IsDecoded(f)
          /\ \A i \in (0 .. 3) \ {at.frame} : frames'[i] = frames[i]
          /\ UNCHANGED <<LastGiven, First, Second, Fourth>>
          /\ Even(counter) => ~IsDecoded(frames'[Fourth])
        BY <1>7, <2>1, <2>2
    <2>4. ~EndsRound(video, track.taken) /\ p = Pos(video, track.taken)
        BY <1>1, <2>1, PositionsAre DEF p
    <2>5. ASSUME NEW a, NEW b, InTurn(video, a, b, track.taken, last),
                 ~video.late => ~IsDecoded(b)
          PROVE  InTurn(video, a, f, track.taken + 1, last)
        BY <1>1, <2>3, <2>4, <2>5, ReadInTurn
    <2>6. /\ InTurn(video, frames'[First], frames'[Second], track.taken + 1, last)
          /\ IsDecoded(frames'[First])
          /\ at.frame = First => ~IsDecoded(frames'[Second])
        BY <1>8, <2>3, <2>5
    <2>7. QED
        BY <1>1, <1>2, <2>1, <2>3, <2>6 DEF TrackTurns, last
<1>12. QED
    BY <1>6, <1>9, <1>10, <1>11 DEF Reads

\* What is shown is the next frame in turn.
LEMMA ShowsNext ==
    ASSUME Inv, TypeOK', TrackTurns, IsSortable(video), ShowFrame
    PROVE  /\ TrackTurns'
           /\ UNCHANGED <<video, mainAt, player, mail>>
           /\ Even(counter) /\ ~Even(counter') /\ counter' = Succ(counter)
           /\ Current(counter') = Current(counter)
           /\ frames'[Current(counter)] = frames[Current(counter)]
           /\ LastGiven = frames[Current(counter)]
           /\ LastGiven' = frames'[Current(Succ(counter'))]
           /\ Follows(LastGiven.position, LastGiven'.position)
<1> DEFINE last == LastGiven.position
           a == frames[First]
           b == frames[Second]
<1>1. /\ at.does = "show" /\ Chosen = First /\ counter \in Values /\ Even(counter)
      /\ counter # Uninitialized /\ at.counter = counter
    BY ChosenIsOwn DEF ShowFrame, Values, Uninitialized
<1>2. /\ First \in 0 .. 3 /\ Second \in 0 .. 3 /\ First # Second
      /\ Fourth \in 0 .. 3 /\ Fourth # First /\ Fourth # Second
      /\ Current(counter) \in 0 .. 3 /\ Current(counter) # First
      /\ Succ(counter) \in Values
    BY <1>1, CounterValues, TwoOfFour, RingIs DEF First, Second, Fourth
<1>3. /\ frames' = [frames EXCEPT ![First] = [a EXCEPT !.picture = a.position]]
      /\ counter' = Succ(counter) /\ at' = Telling /\ a.position # Finished
      /\ UNCHANGED <<video, mainAt, player, mail, track>>
    BY <1>1 DEF ShowFrame, TrackStep
<1>4. /\ ~Even(counter') /\ Current(counter') = Current(counter)
      /\ Current(Succ(counter')) = First
      /\ First' = Second /\ Second' = Fourth
    BY <1>1, <1>3, TrackGivesOne, RingIs DEF First, Second, Fourth
<1>5. /\ frames \in [0 .. 3 -> Frame] /\ a \in Frame /\ video \in Videos
    BY <1>2 DEF Inv, TypeOK
<1>6. /\ \A i \in (0 .. 3) \ {First} : frames'[i] = frames[i]
      /\ frames'[First].position = a.position
    BY <1>2, <1>3, <1>5 DEF Frame
<1>7. LastGiven = frames[Current(counter)] /\ LastGiven' = frames'[First]
    BY <1>1, <1>4 DEF LastGiven
<1>8. IsDecoded(a) /\ (a.position = Finished \/ (IsDecoded(b) /\ a.position <= b.position))
    BY <1>1 DEF Inv, TrackOwns, TrackTurns
<1>9. InTurn(video, a, b, track.taken, last) /\ ~IsDecoded(frames[Fourth])
    BY <1>1, TurnsAre
<1> HIDE DEF a, last
<1>10. /\ InTurn(video, b, frames[Fourth], track.taken, a.position)
       /\ a.position > last
       /\ ~video.late => a.position = last + 1
    BY <1>3, <1>5, <1>8, <1>9, GiveInTurn
<1>11. Follows(last, a.position)
    BY <1>10 DEF Follows
<1>12. /\ frames'[First'] = b /\ frames'[Second'] = frames[Fourth]
       /\ LastGiven'.position = a.position
    BY <1>2, <1>4, <1>6, <1>7
<1>13. counter' # Uninitialized /\ ~(at'.does \in {"read", "present", "show"})
    BY <1>2, <1>3 DEF Values, Uninitialized, Telling
<1>14. TrackTurns'
    BY <1>3, <1>4, <1>8, <1>9, <1>10, <1>12, <1>13 DEF TrackTurns
<1>15. QED
    BY <1>1, <1>2, <1>3, <1>4, <1>6, <1>7, <1>11, <1>12, <1>14 DEF last

LEMMA PresentsTurns ==
    ASSUME Inv, TypeOK', TrackTurns, IsSortable(video), Presents
    PROVE  TrackTurns'
<1>1. track \in Tracks
    BY DEF Inv, TypeOK
<1>2. CASE PresentNot \/ ShowEnd \/ Tell \/ ShowLater
    <2>1. UNCHANGED <<video, counter, frames>> /\ at'.does = "nothing"
        BY <1>2 DEF PresentNot, ShowEnd, Tell, ShowLater, TrackStep, ringVars, Nothing
    <2>2. track'.taken = track.taken
        BY <1>1, <1>2 DEF PresentNot, ShowEnd, Tell, ShowLater, QueueRead, Tracks
    <2>3. QED
        BY <2>1, <2>2, TurnsKept
<1>3. CASE PresentFrame
    <2>1. /\ UNCHANGED <<video, counter, frames, track>>
          /\ at.does = "present" /\ at'.does = "show"
        BY <1>3 DEF PresentFrame, TrackStep, ringVars, Presenting, Showing
    <2>2. UNCHANGED <<LastGiven, First, Second, Fourth>>
        BY <2>1 DEF LastGiven, First, Second, Fourth
    <2>3. QED
        BY <2>1, <2>2 DEF TrackTurns
<1>4. CASE ShowFrame
    BY <1>4, ShowsNext
<1>5. QED
    BY <1>2, <1>3, <1>4 DEF Presents

\* The main thread goes on to the frame it was given.
LEMMA TakesNext ==
    ASSUME Inv, TrackTurns, counter # Uninitialized, HasNext, TakesFrame,
           UNCHANGED <<video, at, track>>
    PROVE  /\ TrackTurns'
           /\ ~Even(counter) /\ Even(counter') /\ counter' # Uninitialized
           /\ LET next == frames[Current(Succ(counter))].position IN
              /\ mainAt' = Marked(next) /\ next \in Nat
              /\ frames'[Current(counter')].position = next
           /\ player'.position = player.position /\ player'.stage = player.stage
           /\ ~player'.next
<1> DEFINE i == Current(Succ(counter))
<1>1. /\ counter \in Values /\ ~Even(counter) /\ i \in 0 .. 3
      /\ frames \in [0 .. 3 -> Frame] /\ frames[i] \in Frame /\ frames[i].position \in Nat
    BY TakenIs DEF Inv, TypeOK
<1>2. /\ frames' = [frames EXCEPT ![i] = [frames[i] EXCEPT !.displayed = TRUE]]
      /\ counter' = Succ(counter)
      /\ mainAt' = Marked(frames[i].position)
      /\ player' = [player EXCEPT !.next = FALSE]
    BY DEF TakesFrame
<1>3. /\ Even(counter') /\ Prepares(counter') = Prepares(counter)
      /\ i # Prepares(counter) /\ i # After(Prepares(counter))
      /\ i # Current(counter) /\ Succ(counter) \in Values
    BY <1>1, <1>2, MainGoesOn, CounterValues
<1>4. Current(counter') = i /\ LastGiven = frames[i]
    BY <1>1, <1>2 DEF LastGiven
<1>5. LastGiven' = frames'[i]
    BY <1>3, <1>4 DEF LastGiven
<1>6. Fourth = Current(counter)
    BY <1>1, RingIs DEF Fourth, Second
<1>7. ~IsDecoded(frames[Current(counter)])
    <2>1. frames[Current(counter)].displayed
        BY DEF Inv, PaintsItsPicture
    <2>2. QED
        BY <2>1 DEF IsDecoded
<1> HIDE DEF i
<1>8. /\ First' = First /\ Second' = Second /\ Fourth' = Fourth
      /\ First # i /\ Second # i /\ Fourth # i
    BY <1>2, <1>3, <1>6 DEF First, Second, Fourth
<1>9. First \in 0 .. 3 /\ Second \in 0 .. 3 /\ Fourth \in 0 .. 3
    BY <1>1, CounterValues, RingIs DEF First, Second, Fourth
<1>10. /\ frames'[First] = frames[First] /\ frames'[Second] = frames[Second]
       /\ frames'[Fourth] = frames[Fourth]
       /\ frames'[i].position = frames[i].position
    BY <1>1, <1>2, <1>8, <1>9 DEF Frame
<1>11. counter' # Uninitialized
    BY <1>2, <1>3 DEF Values, Uninitialized
<1>12. TrackTurns'
    <2>1. /\ InTurn(video, frames[First], frames[Second], track.taken, LastGiven.position)
          /\ IsDecoded(frames[Second]) => IsDecoded(frames[First])
        BY <1>1, TurnsAre
    <2>2. LastGiven'.position = LastGiven.position
        BY <1>4, <1>5, <1>10
    <2>3. ASSUME at.does = "read"
          PROVE  /\ at.frame = First => ~IsDecoded(frames'[Second])
                 /\ ~video.late => ~IsDecoded(frames'[at.frame])
        <3>1. at.frame = First \/ at.frame = Second
            BY <2>3 DEF Inv, TrackOwns
        <3>2. QED
            BY <1>10, <2>3, <3>1 DEF TrackTurns
    <2>4. at.does \in {"present", "show"} =>
            \/ frames'[First].position = Finished
            \/ /\ IsDecoded(frames'[Second])
               /\ frames'[First].position <= frames'[Second].position
        BY <1>10 DEF TrackTurns
    <2>5. QED
        BY <1>6, <1>7, <1>8, <1>10, <1>11, <2>1, <2>2, <2>3, <2>4 DEF TrackTurns
<1>13. player'.position = player.position /\ player'.stage = player.stage /\ ~player'.next
    BY <1>2 DEF Inv, TypeOK, Players
<1>14. QED
    BY <1>1, <1>2, <1>3, <1>4, <1>10, <1>11, <1>12, <1>13 DEF i

-----------------------------------------------------------------------------
(* What the main thread shows.                                                 *)

NoReady  == \A k \in 1 .. Len(mail) : mail[k].kind # "ready"
MoreMail ==
    mail' = mail \/ \E l \in Letters : l.kind # "ready" /\ mail' = Append(mail, l)

LEMMA MailGrows ==
    ASSUME TypeOK, MoreMail
    PROVE  /\ NoReady => NoReady'
           /\ ReadyComes => ReadyComes'
<1>1. CASE mail' = mail
    BY <1>1 DEF NoReady, ReadyComes
<1>2. ASSUME NEW l \in Letters, l.kind # "ready", mail' = Append(mail, l)
      PROVE  /\ NoReady => NoReady'
             /\ ReadyComes => ReadyComes'
    <2>1. /\ mail \in Seq(Letters) /\ Len(mail) \in Nat /\ Len(mail') = Len(mail) + 1
          /\ mail'[Len(mail) + 1] = l
          /\ \A k \in 1 .. Len(mail) : mail'[k] = mail[k]
        BY <1>2 DEF TypeOK
    <2>2. \A k \in 1 .. Len(mail') : k \in 1 .. Len(mail) \/ k = Len(mail) + 1
        BY <2>1
    <2>3. NoReady => NoReady'
        BY <1>2, <2>1, <2>2 DEF NoReady
    <2>4. ASSUME ReadyComes
          PROVE  ReadyComes'
        <3>1. PICK k \in 1 .. Len(mail) :
                /\ mail[k].kind = "ready"
                /\ \A j \in 1 .. k - 1 : mail[j].kind = "till"
                /\ \A j \in k + 1 .. Len(mail) : mail[j].kind # "ready"
            BY <2>4 DEF ReadyComes
        <3>2. k \in 1 .. Len(mail') /\ mail'[k].kind = "ready"
            BY <2>1, <3>1
        <3>3. \A j \in 1 .. k - 1 : mail'[j].kind = "till"
            BY <2>1, <3>1
        <3>4. \A j \in k + 1 .. Len(mail') : mail'[j].kind # "ready"
            <4>1. \A j \in k + 1 .. Len(mail') : j \in k + 1 .. Len(mail) \/ j = Len(mail) + 1
                BY <2>1
            <4>2. \A j \in k + 1 .. Len(mail) : j \in 1 .. Len(mail)
                OBVIOUS
            <4>3. QED
                BY <1>2, <2>1, <3>1, <4>1, <4>2
        <3>5. QED
            BY <3>2, <3>3, <3>4 DEF ReadyComes
    <2>5. QED
        BY <2>3, <2>4
<1>3. QED
    BY <1>1, <1>2 DEF MoreMail

LEMMA MailShrinks ==
    ASSUME TypeOK, mail # <<>>, mail' = Tail(mail)
    PROVE  /\ NoReady => NoReady' /\ Head(mail).kind # "ready"
           /\ ReadyComes => \/ Head(mail).kind = "ready" /\ NoReady'
                            \/ Head(mail).kind = "till" /\ ReadyComes'
<1>1. /\ mail \in Seq(Letters) /\ Len(mail) \in Nat /\ Len(mail) > 0
      /\ Head(mail) = mail[1] /\ Len(mail') = Len(mail) - 1
      /\ \A k \in 1 .. Len(mail') : mail'[k] = mail[k + 1]
    BY DEF TypeOK
<1>2. \A k \in 1 .. Len(mail') : k + 1 \in 1 .. Len(mail)
    BY <1>1
<1>3. NoReady => NoReady' /\ Head(mail).kind # "ready"
    BY <1>1, <1>2 DEF NoReady
<1>4. ASSUME ReadyComes
      PROVE  \/ Head(mail).kind = "ready" /\ NoReady'
             \/ Head(mail).kind = "till" /\ ReadyComes'
    <2>1. PICK k \in 1 .. Len(mail) :
            /\ mail[k].kind = "ready"
            /\ \A j \in 1 .. k - 1 : mail[j].kind = "till"
            /\ \A j \in k + 1 .. Len(mail) : mail[j].kind # "ready"
        BY <1>4 DEF ReadyComes
    <2>2. CASE k = 1
        <3>1. \A j \in 1 .. Len(mail') : j + 1 \in k + 1 .. Len(mail)
            BY <1>1, <2>2
        <3>2. NoReady'
            BY <1>1, <2>1, <3>1 DEF NoReady
        <3>3. QED
            BY <1>1, <2>1, <2>2, <3>2
    <2>3. CASE k > 1
        <3>1. 1 \in 1 .. k - 1
            BY <2>3
        <3>2. Head(mail).kind = "till"
            BY <1>1, <2>1, <3>1
        <3> DEFINE h == k - 1
        <3>3. h \in 1 .. Len(mail') /\ h + 1 = k
            BY <1>1, <2>3
        <3>4. mail'[h].kind = "ready"
            BY <1>1, <2>1, <3>3
        <3>5. \A j \in 1 .. h - 1 : j \in 1 .. Len(mail') /\ j + 1 \in 1 .. k - 1
            BY <3>3
        <3>6. \A j \in h + 1 .. Len(mail') : j \in 1 .. Len(mail') /\ j + 1 \in k + 1 .. Len(mail)
            BY <1>1, <3>3
        <3> HIDE DEF h
        <3>7. /\ \A j \in 1 .. h - 1 : mail'[j].kind = "till"
              /\ \A j \in h + 1 .. Len(mail') : mail'[j].kind # "ready"
            BY <1>1, <2>1, <3>5, <3>6
        <3>8. ReadyComes'
            BY <3>3, <3>4, <3>7 DEF ReadyComes
        <3>9. QED
            BY <3>2, <3>8
    <2>4. QED
        BY <2>2, <2>3
<1>5. QED
    BY <1>3, <1>4

\* Steps that leave the frames the main thread has, and all but what was received.
LEMMA MainKept ==
    ASSUME Inv, MainTurns, UNCHANGED <<video, counter, mainAt>>, MoreMail,
           player'.position = player.position, player'.next = player.next,
           player'.stage = "initializing" <=> player.stage = "initializing",
           counter # Uninitialized =>
             /\ frames'[Current(counter)].position = frames[Current(counter)].position
             /\ ~Even(counter) => frames'[Current(Succ(counter))].position
                                    = frames[Current(Succ(counter))].position
    PROVE  MainTurns'
<1>1. (ReadyComes => ReadyComes') /\ (NoReady => NoReady')
    BY MailGrows DEF Inv
<1>2. PositionOf(0)' = PositionOf(0)
    BY DEF PositionOf, Length
<1>3. \A p, q : Follows(p, q) => Follows(p, q)'
    BY DEF Follows
<1>4. QED
    BY <1>1, <1>2, <1>3 DEF MainTurns, NoReady

\* What the file and the track do is seen by the main thread when it is given away.
LEMMA TrackKeeps ==
    ASSUME Inv, FileThread \/ TrackQueue \/ ReadTimerFires, ~FirstPacket, ~ShowFrame
    PROVE  /\ UNCHANGED <<video, counter, mainAt, player>> /\ MoreMail
           /\ counter # Uninitialized =>
                \A i \in (0 .. 3) \ {First, Second} : frames'[i] = frames[i]
<1> USE DEF ringVars
<1>1. \A k \in {"check", "waiting", "done"} :
        Letter(k) \in Letters /\ Letter(k).kind # "ready"
    <2>1. \A k \in {"check", "waiting", "done"} : Letter(k) \in Letters
        BY LetterIs
    <2>2. QED
        BY <2>1 DEF Letter
<1>2. CASE FileThread
    <2>1. UNCHANGED <<video, counter, mainAt, player, frames>>
        BY <1>2 DEF FileThread, ReadPacket, FileReadsMore, FileWakes, RoundEnds, FileStep
    <2>2. MoreMail
        <3>1. CASE ReadPacket
            <4>1. Till(file.sent) \in Nat
                <5>1. file.sent \in Nat /\ video \in Videos
                    BY DEF Inv, TypeOK
                <5>2. QED
                    BY <5>1, Positions
            <4>2. TillLetter(Till(file.sent)) \in Letters
                BY <4>1, LetterIs
            <4>3. TillLetter(Till(file.sent)).kind # "ready"
                BY DEF TillLetter
            <4>4. QED
                BY <3>1, <4>2, <4>3 DEF ReadPacket, MoreMail
        <3>2. CASE FileReadsMore \/ FileWakes \/ RoundEnds
            BY <3>2 DEF FileReadsMore, FileWakes, RoundEnds, FileStep, MoreMail
        <3>3. QED
            BY <1>2, <3>1, <3>2 DEF FileThread
    <2>3. QED
        BY <2>1, <2>2
<1>3. CASE Begun \/ ReadTimerFires
    <2>1. UNCHANGED <<video, counter, mainAt, player, frames>>
        BY <1>3 DEF Begun, NextPacket, FrameDisplayed, Resume, Pause, Subscribe, ReadFrames,
                    Discard, ReadTimerFires, Begins
    <2>2. mail' = mail \/ mail' = Append(mail, Letter("check"))
        BY <1>3 DEF Begun, NextPacket, FrameDisplayed, Resume, Pause, Subscribe, ReadFrames,
                    Discard, ReadTimerFires, Begins
    <2>3. QED
        BY <1>1, <2>1, <2>2 DEF MoreMail
<1>4. CASE Presents
    <2>1. UNCHANGED <<video, counter, mainAt, player, frames>>
        BY <1>4 DEF Presents, PresentNot, PresentFrame, ShowEnd, Tell, ShowLater, TrackStep
    <2>2. \/ mail' = mail \/ mail' = Append(mail, Letter("check"))
          \/ mail' = Append(mail, Letter("done"))
        BY <1>4 DEF Presents, PresentNot, PresentFrame, ShowEnd, Tell, ShowLater, TrackStep
    <2>3. QED
        BY <1>1, <2>1, <2>2 DEF MoreMail
<1>5. CASE Reads
    <2>1. /\ UNCHANGED <<video, counter, mainAt, player>> /\ at.does = "read"
          /\ UNCHANGED frames \/ \E f : frames' = [frames EXCEPT ![at.frame] = f]
        BY <1>5 DEF Reads, ReadWaits, ReadFinishes, ReadLoops, ReadFrame, HasPacket, TrackStep
    <2>2. mail' = mail \/ mail' = Append(mail, Letter("waiting"))
        BY <1>5 DEF Reads, ReadWaits, ReadFinishes, ReadLoops, ReadFrame
    <2>3. at.frame \in {First, Second} /\ frames \in [0 .. 3 -> Frame]
        BY <2>1 DEF Inv, TypeOK, TrackOwns
    <2>4. \A i \in (0 .. 3) \ {First, Second} : frames'[i] = frames[i]
        BY <2>1, <2>3
    <2>5. QED
        BY <1>1, <2>1, <2>2, <2>4 DEF MoreMail
<1>6. CASE Chooses
    <2>1. UNCHANGED <<video, counter, mainAt, player, mail>>
        BY <1>6 DEF Chooses, PrepareState, ReadNeeded, NoneNeeded, NoneNeededYet,
                    StaleDropped, TrackStep
    <2>2. \/ UNCHANGED frames
          \/ at.does = "choose" /\ frames' = Sorted
          \/ /\ at.does = "choose"
             /\ frames' = [frames EXCEPT ![Chosen] = Sorted[Other],
                             ![Other] = [Sorted[Chosen] EXCEPT !.displayed = TRUE]]
        BY <1>6 DEF Chooses, PrepareState, ReadNeeded, NoneNeeded, NoneNeededYet,
                    StaleDropped, TrackStep
    <2>3. at.does = "choose" => /\ Chosen = First /\ Other = Second
                                /\ frames \in [0 .. 3 -> Frame]
        BY ChosenIsOwn DEF Inv, TypeOK
    <2>4. at.does = "choose" => \A i \in (0 .. 3) \ {First, Second} : Sorted[i] = frames[i]
        BY <2>3 DEF Sorted
    <2>5. \A i \in (0 .. 3) \ {First, Second} : frames'[i] = frames[i]
        BY <2>2, <2>3, <2>4
    <2>6. QED
        BY <2>1, <2>5 DEF MoreMail
<1>7. QED
    BY <1>2, <1>3, <1>4, <1>5, <1>6 DEF TrackQueue

LEMMA TurnsStep ==
    ASSUME Inv, TypeOK', TrackTurns, MainTurns, IsSortable(video),
           FileThread \/ TrackQueue \/ ReadTimerFires
    PROVE  TrackTurns' /\ MainTurns'
<1>1. TrackTurns'
    <2>1. CASE FileThread
        <3>1. UNCHANGED <<video, counter, frames, at, track>>
            BY <2>1 DEF FileThread, ReadPacket, FileReadsMore, FileWakes, RoundEnds, FileStep,
                        ringVars
        <3>2. QED
            BY <3>1, TurnsKept
    <2>2. CASE TrackQueue \/ ReadTimerFires
        BY <2>2, BegunTurns, ChoosesTurns, ReadsTurns, PresentsTurns DEF TrackQueue
    <2>3. QED
        BY <2>1, <2>2
<1>2. CASE FirstPacket
    <2>1. /\ counter = Uninitialized /\ counter' = 0 /\ UNCHANGED <<video, mainAt, player>>
          /\ frames' = [frames EXCEPT ![0] =
               [position |-> PositionOf(0), displayed |-> TRUE, picture |-> PositionOf(0)]]
          /\ mail' = Append(mail, Letter("ready"))
        BY <1>2 DEF FirstPacket, Begins
    <2>2. /\ player.stage = "initializing" /\ mail \in Seq(TillLetters)
          /\ frames \in [0 .. 3 -> Frame] /\ PositionOf(0) \in Nat
        <3>1. video \in Videos
            BY DEF Inv, TypeOK
        <3>2. QED
            BY <2>1, <3>1, Positions DEF Inv, TypeOK, NotYet, OnlyPackets
    <2>3. frames'[0].position = PositionOf(0)
        BY <2>1, <2>2
    <2>4. ReadyComes'
        <3> DEFINE k == Len(mail) + 1
        <3>1. /\ k \in 1 .. Len(mail') /\ k = Len(mail') /\ mail'[k] = Letter("ready")
              /\ \A j \in 1 .. k - 1 : mail'[j] \in TillLetters
            BY <2>1, <2>2
        <3>2. mail'[k].kind = "ready" /\ \A j \in 1 .. k - 1 : mail'[j].kind = "till"
            BY <3>1 DEF Letter, TillLetters
        <3>3. \A j \in k + 1 .. Len(mail') : mail'[j].kind # "ready"
            BY <3>1
        <3> HIDE DEF k
        <3>4. QED
            BY <3>1, <3>2, <3>3 DEF ReadyComes
    <2>5. Even(0) /\ Current(0) = 0
        BY DEF Even, Current
    <2>6. PositionOf(0)' = PositionOf(0)
        BY <2>1 DEF PositionOf, Length
    <2>7. QED
        BY <1>1, <2>1, <2>2, <2>3, <2>4, <2>5, <2>6 DEF MainTurns
<1>3. CASE ShowFrame
    <2>1. /\ UNCHANGED <<video, mainAt, player, mail>>
          /\ Even(counter) /\ ~Even(counter') /\ Current(counter') = Current(counter)
          /\ frames'[Current(counter)] = frames[Current(counter)]
          /\ LastGiven = frames[Current(counter)]
          /\ LastGiven' = frames'[Current(Succ(counter'))]
          /\ Follows(LastGiven.position, LastGiven'.position)
        BY <1>3, ShowsNext
    <2>2. counter # Uninitialized /\ counter' # Uninitialized
        <3>1. counter \in Values
            BY <1>3, ChosenIsOwn DEF ShowFrame
        <3>2. counter' \in Values
            BY <1>3, <3>1, ShowsNext, CounterValues
        <3>3. QED
            BY <3>1, <3>2 DEF Values, Uninitialized
    <2>3. PositionOf(0)' = PositionOf(0)
        BY <2>1 DEF PositionOf, Length
    <2>4. ReadyComes' <=> ReadyComes
        BY <2>1 DEF ReadyComes
    <2>5. \A p, q : Follows(p, q)' <=> Follows(p, q)
        BY <2>1 DEF Follows
    <2>6. Follows(frames'[Current(counter')].position,
                  frames'[Current(Succ(counter'))].position)
        BY <2>1
    <2>7. MainTurns'
        BY <2>1, <2>2, <2>3, <2>4, <2>5, <2>6 DEF MainTurns
    <2>8. QED
        BY <1>1, <2>7
<1>4. CASE ~FirstPacket /\ ~ShowFrame
    <2>1. /\ UNCHANGED <<video, counter, mainAt, player>> /\ MoreMail
          /\ counter # Uninitialized =>
               \A i \in (0 .. 3) \ {First, Second} : frames'[i] = frames[i]
        BY <1>4, TrackKeeps
    <2>2. ASSUME counter # Uninitialized
          PROVE  /\ frames'[Current(counter)] = frames[Current(counter)]
                 /\ ~Even(counter) =>
                      frames'[Current(Succ(counter))] = frames[Current(Succ(counter))]
        <3>1. counter \in Values
            BY <2>2, CounterIs DEF Inv
        <3>2. Current(counter) \in (0 .. 3) \ {First, Second}
            BY <3>1, CounterValues, TwoOfFour DEF First, Second
        <3>3. ~Even(counter) => Current(Succ(counter)) \in (0 .. 3) \ {First, Second}
            BY <3>1, CounterValues, MainGoesOn DEF First, Second
        <3>4. QED
            BY <2>1, <2>2, <3>2, <3>3
    <2>3. MainTurns'
        BY <2>1, <2>2, MainKept
    <2>4. QED
        BY <1>1, <2>3
<1>5. QED
    BY <1>2, <1>3, <1>4

LEMMA PausedRest ==
    ASSUME NEW p \in Players, UpdatePausedState(p)
    PROVE  /\ player'.position = p.position
           /\ player'.stage = "initializing" <=> p.stage = "initializing"
<1> DEFINE set == [p EXCEPT !.paused = p.byUser \/ p.byWaiting]
<1>1. set.position = p.position /\ set.stage = p.stage
    BY DEF Players
<1>2. /\ [set EXCEPT !.stage = "started"].position = set.position
      /\ [set EXCEPT !.stage = "started"].stage = "started"
    BY DEF Players
<1>3. \/ player' = set
      \/ player' = [set EXCEPT !.stage = "started"] /\ p.stage = "ready"
    BY DEF UpdatePausedState
<1> HIDE DEF set
<1>4. QED
    BY <1>1, <1>2, <1>3

\* Pausing moves neither the position nor, before streamReady(), the stage.
LEMMA PausingKeepsRest ==
    ASSUME Inv, VideoReceivedTill \/ WaitingForData \/ TrackDone \/ Toggle
    PROVE  /\ player'.position = player.position
           /\ player'.stage = "initializing" <=> player.stage = "initializing"
<1>1. TypeOK /\ player \in Players
    BY DEF Inv, TypeOK
<1>2. CASE VideoReceivedTill
    <2> DEFINE p == Receives(player, Head(mail).till)
               q == [p EXCEPT !.byWaiting = FALSE]
    <2>1. Head(mail).till \in Int
        <3>1. Head(mail).till \in Nat
            BY <1>1, <1>2, Opened DEF VideoReceivedTill
        <3>2. QED
            BY <3>1
    <2>2. p \in Players
        BY <1>1, <2>1, ReceivesTypes
    <2>3. p.position = player.position /\ p.stage = player.stage
        BY <1>1, <2>1 DEF Receives, Players
    <2>4. player' = p \/ UpdatePausedState(q)
        BY <1>2 DEF VideoReceivedTill
    <2> HIDE DEF p
    <2>5. q \in Players
        BY <2>2, PlayerChanged
    <2>6. q.position = p.position /\ q.stage = p.stage
        BY <2>2 DEF Players
    <2> HIDE DEF q
    <2>7. QED
        BY <2>3, <2>4, <2>5, <2>6, PausedRest
<1>3. CASE WaitingForData
    <2> DEFINE q == [player EXCEPT !.byWaiting = TRUE]
    <2>1. q \in Players /\ q.position = player.position /\ q.stage = player.stage
        BY <1>1, PlayerChanged DEF Players
    <2>2. player' = player \/ UpdatePausedState(q)
        BY <1>3 DEF WaitingForData
    <2> HIDE DEF q
    <2>3. QED
        BY <2>1, <2>2, PausedRest
<1>4. CASE TrackDone
    BY <1>1, <1>4 DEF TrackDone, Players
<1>5. CASE Toggle
    <2> DEFINE r == [player EXCEPT !.byUser = ~player.byUser]
               q == [player EXCEPT !.byUser = ~@, !.toggles = @ + 1]
    <2>1. q \in Players
        BY <1>1, PlayerToggled
    <2>2. q.position = player.position /\ q.stage = player.stage
        <3>1. r.position = player.position /\ r.stage = player.stage
            BY <1>1 DEF Players
        <3>2. q.position = r.position /\ q.stage = r.stage
            BY <1>1 DEF Players
        <3>3. QED
            BY <3>1, <3>2
    <2>3. UpdatePausedState(q)
        BY <1>5 DEF Toggle
    <2> HIDE DEF q
    <2>4. QED
        BY <2>1, <2>2, <2>3, PausedRest
<1>6. QED
    BY <1>2, <1>3, <1>4, <1>5

LEMMA ReadyIs ==
    ASSUME Inv, StreamReady
    PROVE  player'.position = PositionOf(0) /\ player'.stage # "initializing"
<1> DEFINE r == [player EXCEPT !.stage = "ready"]
           s == [r EXCEPT !.position = PositionOf(0)]
           n == Least(Length, Greatest(player.received, PositionOf(0)))
           p == [player EXCEPT
                   !.stage = "ready", !.position = PositionOf(0),
                   !.received = Least(Length, Greatest(@, PositionOf(0)))]
           q == [p EXCEPT !.paused = TRUE]
<1>1. player \in Players /\ PositionOf(0) \in Int /\ Length \in Int
    <2>1. player \in Players /\ video \in Videos
        BY DEF Inv, TypeOK
    <2>2. PositionOf(0) \in Nat /\ Length \in Nat
        BY <2>1, Positions
    <2>3. QED
        BY <2>1, <2>2
<1>2. n \in Int
    BY <1>1 DEF Least, Greatest, Players
<1>3. r \in Players /\ r.stage = "ready" /\ r.received = player.received
    BY <1>1, PlayerChanged DEF Players
<1> HIDE DEF r, n
<1>4. s \in Players /\ s.stage = r.stage /\ s.received = r.received /\ s.position = PositionOf(0)
    BY <1>1, <1>3, PlayerMoved DEF Players
<1>5. p = [s EXCEPT !.received = n]
    BY <1>3, <1>4 DEF r, n
<1> HIDE DEF s
<1>6. p \in Players /\ p.position = s.position /\ p.stage = s.stage
    <2>1. [s EXCEPT !.received = n] \in Players
        BY <1>2, <1>4, PlayerMoved
    <2>2. /\ [s EXCEPT !.received = n].position = s.position
          /\ [s EXCEPT !.received = n].stage = s.stage
        BY <1>2, <1>4 DEF Players
    <2>3. QED
        BY <1>5, <2>1, <2>2
<1>7. player' = p \/ UpdatePausedState(q)
    BY DEF StreamReady
<1> HIDE DEF p
<1>8. q \in Players /\ q.position = p.position /\ q.stage = p.stage
    <2>1. q \in Players
        BY <1>6, PlayerChanged
    <2>2. q.position = p.position /\ q.stage = p.stage
        BY <1>6 DEF Players
    <2>3. QED
        BY <2>1, <2>2
<1> HIDE DEF q
<1>9. QED
    BY <1>3, <1>4, <1>6, <1>7, <1>8, PausedRest

\* A letter that is none of the first ones is opened after streamReady().
LEMMA OpenedIs ==
    ASSUME Inv, MainTurns, NEW kind, Opens(kind)
    PROVE  /\ kind # "till" => counter \in Values
           /\ kind = "ready" => player.stage = "initializing" /\ NoReady'
           /\ kind = "till" /\ player.stage = "initializing" /\ counter # Uninitialized =>
                ReadyComes'
           /\ kind \notin {"till", "ready"} => player.stage # "initializing"
           /\ player.stage # "initializing" => NoReady'
<1>1. TypeOK /\ mail # <<>> /\ Head(mail).kind = kind /\ mail' = Tail(mail)
    BY DEF Inv, Opens
<1>2. kind # "till" => counter \in Values
    BY <1>1, SomebodyShows
<1>3. player.stage # "initializing" => NoReady
    BY DEF MainTurns, NoReady
<1>4. player.stage = "initializing" /\ counter # Uninitialized => ReadyComes
    BY DEF MainTurns
<1>5. kind # "till" => counter # Uninitialized
    BY <1>2 DEF Values, Uninitialized
<1>6. QED
    BY <1>1, <1>2, <1>3, <1>4, <1>5, MailShrinks

\* What a step may do to the position of the frame on the screen.
Moves ==
    \/ player'.position = player.position
    \/ player.position = Unknown
    \/ Follows(player.position, player'.position)

LEMMA PausingTurns ==
    ASSUME Inv, TypeOK', MainTurns,
           StreamReady \/ VideoReceivedTill \/ WaitingForData \/ TrackDone \/ Toggle
    PROVE  MainTurns' /\ Moves
<1>1. /\ UNCHANGED <<video, counter, frames, mainAt>>
      /\ mainAt = Nothing
    BY DEF StreamReady, VideoReceivedTill, WaitingForData, TrackDone, Toggle, Opens,
           MainIdle, ringVars
<1>2. PositionOf(0)' = PositionOf(0) /\ \A p, q : Follows(p, q)' <=> Follows(p, q)
    BY <1>1 DEF PositionOf, Length, Follows
<1>3. player'.next = player.next
    BY PausingKeepsNext
<1>4. CASE StreamReady
    <2>1. Opens("ready")
        BY <1>4 DEF StreamReady
    <2>2. counter \in Values /\ player.stage = "initializing" /\ NoReady'
        BY <2>1, OpenedIs
    <2>3. player'.position = PositionOf(0) /\ player'.stage # "initializing"
        BY <1>4, ReadyIs
    <2>4. counter # Uninitialized /\ Nothing.does # "marked"
        BY <2>2 DEF Values, Uninitialized, Nothing
    <2>5. /\ player.position = Unknown
          /\ frames[Current(counter)].position = PositionOf(0)
          /\ PositionOf(0) \in Nat
        BY <2>2, <2>4 DEF MainTurns
    <2>6. MainTurns'
        BY <1>1, <1>2, <2>2, <2>3, <2>4, <2>5 DEF MainTurns, NoReady
    <2>7. QED
        BY <2>5, <2>6 DEF Moves
<1>5. CASE VideoReceivedTill \/ WaitingForData \/ TrackDone \/ Toggle
    <2>1. /\ player'.position = player.position
          /\ player'.stage = "initializing" <=> player.stage = "initializing"
        BY <1>5, PausingKeepsRest
    <2>2. /\ player.stage # "initializing" => NoReady'
          /\ player.stage = "initializing" /\ counter # Uninitialized => ReadyComes'
        <3>1. CASE VideoReceivedTill
            BY <3>1, OpenedIs DEF VideoReceivedTill
        <3>2. CASE WaitingForData
            BY <3>2, OpenedIs DEF WaitingForData
        <3>3. CASE TrackDone
            BY <3>3, OpenedIs DEF TrackDone
        <3>4. CASE Toggle
            BY <3>4 DEF Toggle, MainTurns, NoReady, ReadyComes
        <3>5. QED
            BY <1>5, <3>1, <3>2, <3>3, <3>4
    <2>3. MainTurns'
        BY <1>1, <1>2, <1>3, <2>1, <2>2 DEF MainTurns, NoReady
    <2>4. QED
        BY <2>1, <2>3 DEF Moves
<1>6. QED
    BY <1>4, <1>5

LEMMA CheckTurns ==
    ASSUME Inv, TypeOK', TrackTurns, MainTurns,
           CheckNextFrame \/ WidgetUpdate \/ RenderTimerFires
    PROVE  TrackTurns' /\ MainTurns' /\ Moves
<1>1. UNCHANGED <<video, at, track>> /\ mainAt = Nothing
    BY DEF CheckNextFrame, WidgetUpdate, RenderTimerFires, Opens, MainIdle
<1>2. player.stage # "initializing" /\ NoReady'
    <2>1. CASE CheckNextFrame
        BY <2>1, OpenedIs DEF CheckNextFrame
    <2>2. CASE WidgetUpdate \/ RenderTimerFires
        <3>1. player.stage # "initializing" /\ mail' = mail
            BY <2>2 DEF WidgetUpdate, RenderTimerFires, MainTurns
        <3>2. QED
            BY <3>1 DEF MainTurns, NoReady
    <2>3. QED
        BY <2>1, <2>2
<1>3. counter # Uninitialized /\ Nothing.does # "marked"
    BY <1>2 DEF MainTurns, Nothing
<1>4. /\ player.position \in Nat /\ player.position = frames[Current(counter)].position
      /\ ~Even(counter) => Follows(frames[Current(counter)].position,
                                   frames[Current(Succ(counter))].position)
    BY <1>1, <1>2, <1>3 DEF MainTurns
<1>5. \A p, q : Follows(p, q)' <=> Follows(p, q)
    BY <1>1 DEF Follows
<1>6. \/ UNCHANGED <<counter, frames, mainAt, player>>
      \/ player' = [player EXCEPT !.next = TRUE] /\ UNCHANGED <<counter, frames, mainAt>>
      \/ HasNext /\ TakesFrame
    BY DEF CheckNextFrame, WidgetUpdate, RenderTimerFires, CheckVideoStep, HasNext, ringVars
<1>7. CASE HasNext /\ TakesFrame
    <2> DEFINE next == frames[Current(Succ(counter))].position
    <2>1. /\ TrackTurns'
          /\ ~Even(counter) /\ Even(counter') /\ counter' # Uninitialized
          /\ mainAt' = Marked(next) /\ next \in Nat
          /\ frames'[Current(counter')].position = next
          /\ player'.position = player.position /\ player'.stage = player.stage
        BY <1>1, <1>3, <1>7, TakesNext
    <2> HIDE DEF next
    <2>2. mainAt'.does = "marked" /\ mainAt'.position = next
        BY <2>1 DEF Marked
    <2>3. Follows(player.position, next)
        BY <1>4, <2>1 DEF next
    <2>4. MainTurns'
        BY <1>2, <1>4, <1>5, <2>1, <2>2, <2>3 DEF MainTurns, NoReady
    <2>5. QED
        BY <2>1, <2>4 DEF Moves
<1>8. CASE UNCHANGED <<counter, frames, mainAt>> /\ (player' = player
             \/ player' = [player EXCEPT !.next = TRUE])
    <2>1. player'.position = player.position /\ player'.stage = player.stage
        BY <1>8 DEF Inv, TypeOK, Players
    <2>2. TrackTurns'
        BY <1>1, <1>8, TurnsKept
    <2>3. MainTurns'
        BY <1>1, <1>2, <1>3, <1>5, <1>8, <2>1 DEF MainTurns, NoReady
    <2>4. QED
        BY <2>1, <2>2, <2>3 DEF Moves
<1>9. QED
    BY <1>6, <1>7, <1>8

LEMMA PlayedTurns ==
    ASSUME Inv, TypeOK', MainTurns, PlayedTill \/ Painted \/ Paint
    PROVE  MainTurns' /\ Moves
<1>1. UNCHANGED <<video, counter, frames, mail>>
    BY DEF PlayedTill, Painted, Paint, ringVars
<1>2. player.stage # "initializing"
    BY DEF PlayedTill, Painted, Paint, MainTurns, Nothing
<1>3. NoReady'
    BY <1>1, <1>2 DEF MainTurns, NoReady
<1>4. \A p, q : Follows(p, q)' <=> Follows(p, q)
    BY <1>1 DEF Follows
<1>5. CASE PlayedTill
    <2> DEFINE p == Receives(player, mainAt.position)
    <2>1. mainAt.does = "marked" /\ mainAt' = Nothing
        BY <1>5 DEF PlayedTill
    <2>2. mainAt.position \in Int /\ mainAt.position \in Nat
        <3>1. mainAt.position \in Nat
            BY <2>1, MainPlacesAre DEF Inv, TypeOK
        <3>2. QED
            BY <3>1
    <2>3. p \in Players /\ p.stage = player.stage
        <3>1. player \in Players
            BY DEF Inv, TypeOK
        <3>2. p \in Players
            BY <2>2, <3>1, ReceivesTypes
        <3>3. p.stage = player.stage
            BY <2>2, <3>1 DEF Receives, Players
        <3>4. QED
            BY <3>2, <3>3
    <2>4. player' = [p EXCEPT !.position = mainAt.position]
        BY <1>5 DEF PlayedTill
    <2> HIDE DEF p
    <2>5. player'.position = mainAt.position /\ player'.stage = player.stage
        BY <2>2, <2>3, <2>4 DEF Players
    <2>6. mainAt'.does # "marked"
        BY <2>1 DEF Nothing
    <2>7. /\ mainAt.position = frames[Current(counter)].position
          /\ Follows(player.position, mainAt.position)
        BY <1>2, <2>1 DEF MainTurns
    <2>8. MainTurns'
        BY <1>1, <1>2, <1>3, <1>4, <2>2, <2>5, <2>6, <2>7 DEF MainTurns, NoReady
    <2>9. QED
        BY <2>5, <2>7, <2>8 DEF Moves
<1>6. CASE Painted \/ Paint
    <2>1. player' = player /\ mainAt.does # "marked" /\ mainAt'.does # "marked"
        BY <1>6 DEF Painted, Paint, MainIdle, Nothing, Painting
    <2>2. MainTurns'
        BY <1>1, <1>2, <1>3, <1>4, <2>1 DEF MainTurns, NoReady
    <2>3. QED
        BY <2>1, <2>2 DEF Moves
<1>7. QED
    BY <1>5, <1>6

\* What ShownInOrder rests on.
OrderInv == Inv /\ TrackTurns /\ MainTurns

LEMMA OrderStep ==
    ASSUME OrderInv, IsSortable(video), Next
    PROVE  OrderInv' /\ Moves
<1>1. Inv /\ TrackTurns /\ MainTurns /\ Inv' /\ TypeOK'
    BY InvStep DEF OrderInv, Inv
<1>2. CASE FileThread \/ TrackQueue \/ ReadTimerFires
    <2>1. TrackTurns' /\ MainTurns'
        BY <1>1, <1>2, TurnsStep
    <2>2. player' = player
        <3>1. CASE FileThread
            BY <3>1 DEF FileThread, ReadPacket, FileReadsMore, FileWakes, RoundEnds, FileStep
        <3>2. CASE FirstPacket
            BY <3>2 DEF FirstPacket, Begins
        <3>3. CASE ShowFrame
            BY <3>3 DEF ShowFrame, TrackStep
        <3>4. QED
            BY <1>1, <1>2, <3>1, <3>2, <3>3, TrackKeeps
    <2>3. QED
        BY <1>1, <2>1, <2>2 DEF OrderInv, Moves
<1>3. CASE StreamReady \/ VideoReceivedTill \/ WaitingForData \/ TrackDone \/ Toggle
    <2>1. UNCHANGED <<video, counter, frames, at, track>>
        BY <1>3 DEF StreamReady, VideoReceivedTill, WaitingForData, TrackDone, Toggle, Opens,
                    ringVars
    <2>2. TrackTurns'
        BY <1>1, <2>1, TurnsKept
    <2>3. QED
        BY <1>1, <1>3, <2>2, PausingTurns DEF OrderInv
<1>4. CASE CheckNextFrame \/ WidgetUpdate \/ RenderTimerFires
    BY <1>1, <1>4, CheckTurns DEF OrderInv
<1>5. CASE PlayedTill \/ Painted \/ Paint
    <2>1. UNCHANGED <<video, counter, frames, at, track>>
        BY <1>5 DEF PlayedTill, Painted, Paint, ringVars
    <2>2. TrackTurns'
        BY <1>1, <2>1, TurnsKept
    <2>3. QED
        BY <1>1, <1>5, <2>2, PlayedTurns DEF OrderInv
<1>6. QED
    BY <1>2, <1>3, <1>4, <1>5 DEF Next, MainThread, OpensMail

LEMMA InitOrder ==
    ASSUME Init
    PROVE  OrderInv
<1>1. Inv
    BY InitInv
<1>2. \A i \in 0 .. 3 : ~IsDecoded(frames[i])
    BY DEF Init, IsDecoded, NoFrame
<1>3. TrackTurns
    BY <1>2 DEF Init, TrackTurns, Nothing
<1>4. MainTurns
    BY DEF Init, MainTurns
<1>5. QED
    BY <1>1, <1>3, <1>4 DEF OrderInv

LEMMA OrderStutters ==
    ASSUME OrderInv, UNCHANGED vars
    PROVE  OrderInv'
<1> USE DEF vars, ringVars, fileVars
<1>1. Inv'
    BY InvStutters DEF OrderInv
<1>2. TrackTurns'
    BY TurnsKept DEF OrderInv
<1>3. MainTurns'
    <2>1. PositionOf(0)' = PositionOf(0) /\ \A p, q : Follows(p, q)' <=> Follows(p, q)
        BY DEF PositionOf, Length, Follows
    <2>2. ReadyComes' <=> ReadyComes
        BY DEF ReadyComes
    <2>3. QED
        BY <2>1, <2>2 DEF OrderInv, MainTurns
<1>4. QED
    BY <1>1, <1>2, <1>3 DEF OrderInv

-----------------------------------------------------------------------------
(* Theorems.                                                                   *)

\* The invariant holds of every video, however far ahead it is read and however
\* long the queues get.
THEOREM InvHolds == Spec => []Inv
<1>1. Init => Inv
    BY InitInv
<1>2. Inv /\ [Next]_vars => Inv'
    BY InvStep, InvStutters
<1>3. QED
    BY <1>1, <1>2, PTL DEF Spec

\* Whatever the three threads do (readFrames(), presentFrameIfNeeded(),
\* checkVideoStep(), videoReceivedTill()), the state keeps its types; above all the
\* counter stays among its eight values and a place names one of the four frames.
THEOREM TypeCorrect == Spec => []TypeOK
<1>1. Inv => TypeOK
    BY DEF Inv
<1>2. QED
    BY <1>1, InvHolds, PTL

\* The track (Shared::prepareState(), presentFrame()) and the main thread
\* (frameForPaint(), markFrameDisplayed()) use four frames without a lock, and never
\* the same one, although the track goes by a counter it read some time ago.
THEOREM FramesAreNotShared == Spec => []FramesNotShared
<1>1. ASSUME Inv
      PROVE  FramesNotShared
    <2>1. ASSUME at.does \in {"choose", "show", "read"}
          PROVE  /\ counter \in Values /\ OfTrack \subseteq {First, Second}
                 /\ mainAt.does = "paint" => mainAt.frame = Current(counter)
        <3>1. counter \in Values
            BY <1>1, <2>1, SomebodyShows DEF Nothing
        <3>2. CASE at.does \in {"choose", "show"}
            <4>1. Chosen = First /\ Other = Second
                BY <1>1, <3>2, ChosenIsOwn
            <4>2. QED
                BY <1>1, <3>1, <3>2, <4>1 DEF OfTrack, Inv, MainPaints
        <3>3. CASE at.does = "read"
            BY <1>1, <3>1, <3>3 DEF OfTrack, Inv, MainPaints, TrackOwns
        <3>4. QED
            BY <2>1, <3>2, <3>3
    <2>2. CASE at.does \in {"choose", "show", "read"}
        <3>1. Current(counter) \notin {First, Second}
            BY <2>1, <2>2, TwoOfFour DEF First, Second
        <3>2. ~Even(counter) => Current(Succ(counter)) \notin {First, Second}
            BY <2>1, <2>2, MainGoesOn DEF First, Second
        <3>3. QED
            BY <2>1, <2>2, <3>1, <3>2 DEF FramesNotShared, OfMain
    <2>3. CASE at.does \notin {"choose", "show", "read"}
        BY <2>3 DEF FramesNotShared, OfTrack
    <2>4. QED
        BY <2>2, <2>3
<1>2. QED
    BY <1>1, InvHolds, PTL

\* frameForPaint() finds the picture of the frame that is on the screen, and
\* markFrameDisplayed() one that was converted (ShowFrame) and not shown before.
THEOREM PicturesAreReady == Spec => []PaintsItsPicture
<1>1. Inv => PaintsItsPicture
    BY DEF Inv
<1>2. QED
    BY <1>1, InvHolds, PTL

\* When the timer of renderFrame() fires then the frame it was set for is there, so
\* markFrameDisplayed() never comes to its "Unexpected".
THEOREM NextFrameIsThere == Spec => []NextIsThere
<1>1. Inv => NextIsThere
    BY DEF Inv
<1>2. QED
    BY <1>1, InvHolds, PTL

\* fileReadMore() goes to sleep, in the thread of the file, only as long as
\* _pauseReading is set, and videoPlayedTill(), in the main thread, releases the
\* semaphore whenever it clears that: no wake-up is lost between the two.
THEOREM SleepersAreWoken == Spec => []SleeperIsWoken
<1>1. Init => SleeperIsWoken
    BY DEF Init, SleeperIsWoken
<1>2. ASSUME Inv, SleeperIsWoken, [Next]_vars
      PROVE  SleeperIsWoken'
    <2>1. semaphore \in Nat /\ reads \in BOOLEAN
        BY <1>2 DEF Inv, TypeOK
    <2>2. CASE FileThread
        <3>1. reads' = reads /\ (file'.does = "sleep" => ~reads)
            BY <1>2, <2>2
            DEF FileThread, ReadPacket, FileReadsMore, FileWakes, RoundEnds, FileStep,
                Inv, TypeOK
        <3>2. QED
            BY <3>1 DEF SleeperIsWoken
    <2>3. CASE PlayedTill
        <3>1. /\ file' = file
              /\ \E paused, more \in BOOLEAN :
                   /\ ~reads => paused
                   /\ reads' = (~paused \/ more)
                   /\ semaphore' = IF paused /\ more THEN semaphore + 1 ELSE semaphore
            <4> DEFINE p == Receives(player, mainAt.position)
                       q == [p EXCEPT !.position = mainAt.position]
                       paused == ~reads \/ PausesReading(p)
                       more == ~PausesReading(q)
            <4>1. /\ file' = file /\ reads' = (~paused \/ more)
                  /\ semaphore' = IF paused /\ more THEN semaphore + 1 ELSE semaphore
                BY <2>3 DEF PlayedTill
            <4>2. paused \in BOOLEAN /\ more \in BOOLEAN /\ (~reads => paused)
                OBVIOUS
            <4> HIDE DEF paused, more
            <4>3. QED
                BY <4>1, <4>2
        <3>2. QED
            BY <1>2, <2>1, <3>1 DEF SleeperIsWoken
    <2>4. CASE VideoReceivedTill
        BY <1>2, <2>4 DEF VideoReceivedTill, Opens, fileVars, SleeperIsWoken
    <2>5. CASE UNCHANGED <<fileVars, reads>>
        BY <1>2, <2>5 DEF fileVars, SleeperIsWoken
    <2>6. Next => \/ FileThread \/ PlayedTill \/ VideoReceivedTill
                  \/ UNCHANGED <<fileVars, reads>>
        BY DEF Next, TrackQueue, Begun, FirstPacket, NextPacket, FrameDisplayed, Resume,
           Pause, Subscribe, ReadFrames, Begins, Discard, ReadTimerFires, Chooses,
           PrepareState, ReadNeeded, NoneNeeded, NoneNeededYet, StaleDropped, Reads,
           ReadWaits, ReadFinishes, ReadLoops, ReadFrame, Presents, PresentNot,
           PresentFrame, ShowEnd, ShowFrame, Tell, ShowLater, TrackStep, MainThread,
           OpensMail, StreamReady, WaitingForData, TrackDone, CheckNextFrame, Opens,
           RenderTimerFires, Painted, WidgetUpdate, Paint, Toggle
    <2>7. QED
        BY <1>2, <2>2, <2>3, <2>4, <2>5, <2>6 DEF vars
<1>3. QED
    BY <1>1, <1>2, InvHolds, PTL DEF Spec

\* Frames are shown one after the other (readFrame() and the exchange in
\* prepareState(), presentFrame(), markFrameDisplayed(), renderFrame()), and none is
\* left out unless decoding is late, of every video whose frames two places can sort.
THEOREM FramesShowInOrder ==
    ASSUME \A v \in Videos : IsSortable(v)
    PROVE  Spec => ShownInOrder
<1>1. Init => OrderInv
    BY InitOrder
<1>2. OrderInv /\ [Next]_vars => OrderInv'
    <2>1. OrderInv => IsSortable(video)
        BY DEF OrderInv, Inv, TypeOK
    <2>2. QED
        BY <2>1, OrderStep, OrderStutters
<1>3. OrderInv /\ [Next]_vars =>
        [player.position # Unknown /\ player.position' # player.position =>
           /\ player.position' > player.position
           /\ ~video.late => player.position' = player.position + 1]_vars
    <2>1. OrderInv => IsSortable(video)
        BY DEF OrderInv, Inv, TypeOK
    <2>2. OrderInv /\ Next => Moves
        BY <2>1, OrderStep
    <2>3. QED
        BY <2>2 DEF Moves, Follows
<1>4. QED
    BY <1>1, <1>2, <1>3, PTL DEF Spec, ShownInOrder
=============================================================================
