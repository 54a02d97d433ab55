----------------------------- MODULE VideoTrack -----------------------------
(* How a streamed video gets from its file to the screen (media/streaming):    *)
(* the thread of the file reads packets and passes them to the queue of the    *)
(* track, which decodes them into four frames; the main thread shows the       *)
(* frames and paces the other two.                                             *)
(*                                                                             *)
(* The frames are shared without a lock.  One atomic counter says whose they   *)
(* are: at 2 * n the main thread has frame n, at 2 * n + 1 it also has the     *)
(* next one, and only it can go on from there; the others are the track's.     *)
(* No step here makes more than one access to the counter.                     *)
(*                                                                             *)
(* Positions are numbers of frames.  Time is left out: if the decoder may be    *)
(* late then a frame is found stale or not, and a timer fires at any moment.   *)
EXTENDS Integers, Sequences, FiniteSets

CONSTANTS
    Videos,    \* what may be played, and how
    Advance,   \* loadInAdvanceFor(): reading pauses that far ahead
    Buffer,    \* kBufferFor: with that much a waiting player goes on
    MaxItems,  \* how many packets are read of a video that loops
    MaxQueue   \* how many letters and tasks wait before the next packet is read

\* A video is the positions of its frames, in the order they are decoded in, the
\* option loop, whether decoding may be late, and how often the user may pause
\* or resume it.
IsVideo(v) ==
    /\ IsFiniteSet(DOMAIN v.order)
    /\ 0 \in DOMAIN v.order /\ DOMAIN v.order = 0 .. Cardinality(DOMAIN v.order) - 1
    /\ \A i \in DOMAIN v.order : v.order[i] \in DOMAIN v.order
    /\ v.loop \in BOOLEAN /\ v.late \in BOOLEAN /\ v.toggles \in Nat

ASSUME ConstantsAssumption ==
    /\ \A v \in Videos : IsVideo(v)
    /\ Advance \in Nat /\ Buffer \in 0 .. Advance
    /\ MaxItems \in Nat /\ MaxQueue \in Nat

VARIABLES
    video,     \* what is played
    counter,   \* Shared::_counter
    frames,    \* Shared::_frames
    at,        \* where the track's queue is
    tasks,     \* what is queued for it
    track,     \* what the track knows
    file,      \* the thread of the file
    reads,     \* not Player::_pauseReading
    semaphore, \* File::Context::_semaphore
    mainAt,    \* where the main thread is
    mail,      \* what is queued for it
    player     \* what the player knows

ringVars == <<counter, frames>>
fileVars == <<file, semaphore>>
vars == <<video, ringVars, at, tasks, track, fileVars, reads, mainAt, mail, player>>

-----------------------------------------------------------------------------
(* Packets and frames.                                                         *)

Length   == Cardinality(DOMAIN video.order)
\* Packets are numbered on and on; an empty one ends each round.
IsEnd(n) == n % (Length + 1) = Length
PositionOf(n) == (n \div (Length + 1)) * Length + video.order[n % (Length + 1)]
\* What the player is told to have received with packet n.
Till(n) == IF IsEnd(n) THEN (n \div (Length + 1) + 1) * Length ELSE PositionOf(n)

Unknown  == -1      \* kTimeUnknown
Finished == 1000000 \* kFinishedPosition, later than any other

\* displayed says that a time of display is set; picture is the position of the
\* frame that was converted last.
Position == Nat \cup {Unknown}
Frame    == [position : Position, displayed : BOOLEAN, picture : Position]
NoFrame  == [position |-> Unknown, displayed |-> FALSE, picture |-> Unknown]

IsDecoded(f)  == f.position # Unknown /\ ~f.displayed
Decoded(f, p) == [f EXCEPT !.position = p, !.displayed = FALSE]

Uninitialized == -1
Even(c)    == c % 2 = 0
After(i)   == (i + 1) % 4
Succ(c)    == (c + 1) % 8
\* frameForPaint(): the frame on the screen.
Current(c) == c \div 2
\* (Variant.)
PreparesCurrent(c) == After(Current(c))
\* prepareState(), presentFrame(): the first of the two frames to prepare.
Prepares(c) == IF Even(c) THEN After(Current(c)) ELSE After(After(Current(c)))

Nothing     == [does |-> "nothing"]
Preparing   == [does |-> "prepare"]
Choosing(c) == [does |-> "choose", counter |-> c]
Reading(i)  == [does |-> "read", frame |-> i]
Presenting  == [does |-> "present"]
Showing(c)  == [does |-> "show", counter |-> c]
Telling     == [does |-> "tell"]
Painting(i) == [does |-> "paint", frame |-> i]
Marked(p)   == [does |-> "marked", position |-> p]

Letter(kind) == [kind |-> kind, till |-> 0]
TillLetter(n) == [kind |-> "till", till |-> n]

Init ==
    /\ video \in Videos
    /\ counter = Uninitialized
    /\ frames = [i \in 0 .. 3 |-> NoFrame]
    /\ at = Nothing /\ mainAt = Nothing
    /\ tasks = <<>> /\ mail = <<>>
    /\ track = [fed |-> 0, taken |-> 0, queued |-> FALSE, timer |-> FALSE,
                resumed |-> FALSE, paused |-> FALSE, subscribed |-> FALSE,
                interrupted |-> FALSE]
    /\ file = [does |-> "read", sent |-> 0]
    /\ reads = TRUE /\ semaphore = 0
    /\ player = [stage |-> "initializing", next |-> FALSE, byUser |-> FALSE,
                 byWaiting |-> FALSE, paused |-> FALSE, finished |-> FALSE,
                 position |-> Unknown, received |-> Unknown, toggles |-> 0]

-----------------------------------------------------------------------------
(* The thread of the file.                                                     *)

\* readNextPacket() and fileProcessPacket(): the player and the track are told.
ReadPacket ==
    /\ file.does = "read"
    /\ video.loop => file.sent < MaxItems
    /\ Len(mail) < MaxQueue /\ Len(tasks) < MaxQueue
    /\ file' = [does |-> IF ~IsEnd(file.sent) THEN "decide"
                         ELSE IF video.loop THEN "end" ELSE "over",
                sent |-> file.sent + 1]
    /\ mail' = Append(mail, TillLetter(Till(file.sent)))
    /\ tasks' = Append(tasks, "packet")
    /\ UNCHANGED <<video, ringVars, at, track, semaphore, reads, mainAt, player>>

FileStep(then) ==
    /\ file' = [file EXCEPT !.does = then]
    /\ UNCHANGED <<video, ringVars, at, tasks, track, reads, mainAt, mail, player>>

\* fileReadMore() after a packet, and after each time it was woken.
FileReadsMore ==
    /\ file.does = "decide"
    /\ FileStep(IF reads THEN "read" ELSE "sleep")
    /\ UNCHANGED semaphore

\* (Variant: it does not wait.)
FileWakesUnasked ==
    /\ file.does = "sleep"
    /\ semaphore' = semaphore - 1
    /\ FileStep("decide")

FileWakes ==
    /\ file.does = "sleep" /\ semaphore > 0
    /\ semaphore' = semaphore - 1
    /\ FileStep("decide")

\* handleEndOfFile() asks a second time whether to go on with the next round.
RoundEnds ==
    /\ file.does = "end"
    /\ FileStep(IF reads THEN "read" ELSE "over")
    /\ UNCHANGED semaphore

-----------------------------------------------------------------------------
(* The track's queue: what it is asked to do.                                  *)

\* queueReadFrames()
QueueRead(t, rest) ==
    /\ track' = [t EXCEPT !.queued = TRUE]
    /\ tasks' = IF t.queued THEN rest ELSE Append(rest, "read")

Begins(task) ==
    /\ at = Nothing /\ ~track.interrupted
    /\ tasks # <<>> /\ Head(tasks) = task
    /\ UNCHANGED <<video, fileVars, reads, mainAt, player>>

\* tryReadFirstFrame() and processFirstFrame()
FirstPacket ==
    /\ Begins("packet") /\ counter = Uninitialized
    /\ frames' = [frames EXCEPT ![0] =
         [position |-> PositionOf(0), displayed |-> TRUE, picture |-> PositionOf(0)]]
    /\ counter' = 0
    /\ mail' = Append(mail, Letter("ready"))
    /\ QueueRead([track EXCEPT !.fed = @ + 1, !.taken = @ + 1], Tail(tasks))
    /\ UNCHANGED at

NextPacket ==
    /\ Begins("packet") /\ counter # Uninitialized
    /\ QueueRead([track EXCEPT !.fed = @ + 1], Tail(tasks))
    /\ UNCHANGED <<ringVars, at, mail>>

FrameDisplayed ==
    /\ Begins("displayed")
    /\ QueueRead(track, Tail(tasks))
    /\ UNCHANGED <<ringVars, at, mail>>

Resume ==
    /\ Begins("resume")
    /\ QueueRead([track EXCEPT !.resumed = TRUE, !.paused = FALSE], Tail(tasks))
    /\ UNCHANGED <<ringVars, at, mail>>

Pause ==
    /\ Begins("pause")
    /\ track' = [track EXCEPT !.paused = TRUE]
    /\ tasks' = Tail(tasks)
    /\ UNCHANGED <<ringVars, at, mail>>

\* checkNextFrame() and waitingForData(), subscribed to from the main thread.
Subscribe ==
    /\ Begins("subscribe")
    /\ track' = [track EXCEPT !.subscribed = TRUE]
    /\ tasks' = Tail(tasks)
    /\ mail' = IF counter = 0 THEN mail ELSE Append(mail, Letter("check"))
    /\ UNCHANGED <<ringVars, at>>

ReadFrames ==
    /\ Begins("read")
    /\ track' = [track EXCEPT !.queued = FALSE]
    /\ tasks' = Tail(tasks)
    /\ at' = Preparing
    /\ UNCHANGED <<ringVars, mail>>

ReadTimerFires ==
    /\ at = Nothing /\ ~track.interrupted /\ track.timer
    /\ track' = [track EXCEPT !.timer = FALSE]
    /\ at' = Preparing
    /\ UNCHANGED <<video, ringVars, tasks, fileVars, reads, mainAt, mail, player>>

Discard ==
    /\ at = Nothing /\ track.interrupted /\ tasks # <<>>
    /\ tasks' = Tail(tasks)
    /\ UNCHANGED <<video, ringVars, at, track, fileVars, reads, mainAt, mail, player>>

-----------------------------------------------------------------------------
(* readEnoughFrames(): which of its frames to read, if any.                    *)

TrackStep(then) ==
    /\ at' = then
    /\ UNCHANGED <<video, fileVars, reads, mainAt, player>>

PrepareState ==
    /\ at = Preparing
    /\ TrackStep(Choosing(counter))
    /\ UNCHANGED <<ringVars, tasks, track, mail>>

Chosen == Prepares(at.counter)
Other  == After(Chosen)
BothDecoded == IsDecoded(frames[Chosen]) /\ IsDecoded(frames[Other])

\* (Variant.)
Unsorted == frames
Sorted ==
    IF frames[Other].position < frames[Chosen].position
    THEN [frames EXCEPT ![Chosen] = frames[Other], ![Other] = frames[Chosen]]
    ELSE frames

ReadNeeded ==
    /\ at.does = "choose"
    /\ ~BothDecoded
    /\ TrackStep(Reading(IF IsDecoded(frames[Chosen]) THEN Other ELSE Chosen))
    /\ UNCHANGED <<ringVars, tasks, track, mail>>

\* The player awaits the next frame: whether it is stale does not matter.
NoneNeeded ==
    /\ at.does = "choose"
    /\ BothDecoded /\ Even(at.counter)
    /\ frames' = Sorted
    /\ TrackStep(Presenting)
    /\ UNCHANGED <<counter, tasks, track, mail>>

NoneNeededYet ==
    /\ at.does = "choose"
    /\ BothDecoded /\ ~Even(at.counter)
    /\ frames' = Sorted
    /\ TrackStep(Nothing)
    /\ track' = [track EXCEPT !.timer = @ \/ Sorted[Other].position # Finished]
    /\ UNCHANGED <<counter, tasks, mail>>

StaleDropped ==
    /\ at.does = "choose"
    /\ BothDecoded /\ ~Even(at.counter)
    /\ Sorted[Other].position # Finished /\ video.late
    /\ frames' = [frames EXCEPT ![Chosen] = Sorted[Other],
                                ![Other] = [Sorted[Chosen] EXCEPT !.displayed = TRUE]]
    /\ TrackStep(Reading(Other))
    /\ UNCHANGED <<counter, tasks, track, mail>>

-----------------------------------------------------------------------------
(* readFrame()                                                                 *)

HasPacket == at.does = "read" /\ track.taken < track.fed

ReadWaits ==
    /\ at.does = "read" /\ track.taken = track.fed
    /\ TrackStep(Nothing)
    /\ mail' = IF track.subscribed THEN Append(mail, Letter("waiting")) ELSE mail
    /\ UNCHANGED <<ringVars, tasks, track>>

ReadFinishes ==
    /\ HasPacket /\ IsEnd(track.taken) /\ ~video.loop
    /\ frames' = [frames EXCEPT ![at.frame] = Decoded(@, Finished)]
    /\ TrackStep(Presenting)
    /\ UNCHANGED <<counter, tasks, track, mail>>

\* loopAround(): the next round begins with the next call of readFrames().
ReadLoops ==
    /\ HasPacket /\ IsEnd(track.taken) /\ video.loop
    /\ track' = [track EXCEPT !.taken = @ + 1]
    /\ TrackStep(Nothing)
    /\ UNCHANGED <<ringVars, tasks, mail>>

ReadFrame ==
    /\ HasPacket /\ ~IsEnd(track.taken)
    /\ frames' = [frames EXCEPT ![at.frame] = Decoded(@, PositionOf(track.taken))]
    /\ track' = [track EXCEPT !.taken = @ + 1]
    /\ \/ TrackStep(Preparing)
       \/ video.late /\ TrackStep(at)
    /\ UNCHANGED <<counter, tasks, mail>>

-----------------------------------------------------------------------------
(* presentFrameIfNeeded()                                                      *)

PresentNot ==
    /\ at = Presenting
    /\ ~track.resumed \/ track.paused
    /\ TrackStep(Nothing)
    /\ UNCHANGED <<ringVars, tasks, track, mail>>

PresentFrame ==
    /\ at = Presenting
    /\ track.resumed /\ ~track.paused
    /\ TrackStep(Showing(counter))
    /\ UNCHANGED <<ringVars, tasks, track, mail>>

\* The end is announced, and the track ignores whatever comes.
ShowEnd ==
    /\ at.does = "show"
    /\ frames[Chosen].position = Finished
    /\ track' = [track EXCEPT !.interrupted = TRUE]
    /\ mail' = Append(mail, Letter("done"))
    /\ TrackStep(Nothing)
    /\ UNCHANGED <<ringVars, tasks>>

\* (Variant.)
ShowUnconverted ==
    /\ at.does = "show" /\ Even(at.counter)
    /\ frames[Chosen].position # Finished
    /\ counter' = Succ(at.counter)
    /\ TrackStep(Telling)
    /\ UNCHANGED <<frames, tasks, track, mail>>

\* The frame is converted, then released to the main thread.
ShowFrame ==
    /\ at.does = "show" /\ Even(at.counter)
    /\ frames[Chosen].position # Finished
    /\ frames' = [frames EXCEPT ![Chosen].picture = frames[Chosen].position]
    /\ counter' = Succ(at.counter)
    /\ TrackStep(Telling)
    /\ UNCHANGED <<tasks, track, mail>>

Tell ==
    /\ at = Telling
    /\ mail' = Append(mail, Letter("check"))
    /\ QueueRead(track, tasks)
    /\ TrackStep(Nothing)
    /\ UNCHANGED ringVars

\* The main thread has a frame to show already.
ShowLater ==
    /\ at.does = "show" /\ ~Even(at.counter)
    /\ frames[Chosen].position # Finished
    /\ TrackStep(Nothing)
    /\ \/ ~BothDecoded /\ QueueRead(track, tasks)
       \/ /\ BothDecoded
          /\ frames[Other].position = Finished \/ video.late
          /\ UNCHANGED <<track, tasks>>
       \/ /\ BothDecoded /\ frames[Other].position # Finished
          /\ track' = [track EXCEPT !.timer = TRUE]
          /\ UNCHANGED tasks
    /\ UNCHANGED <<ringVars, mail>>

-----------------------------------------------------------------------------
(* The main thread: pausing.                                                   *)

\* updatePausedState() with the flags of p; the first time it is start().
UpdatePausedState(p) ==
    LET pause == p.byUser \/ p.byWaiting
        set   == [p EXCEPT !.paused = pause] IN
    \/ /\ p.paused = pause \/ (p.stage = "initializing")
          \/ (p.stage = "ready" /\ pause)
       /\ player' = set
       /\ UNCHANGED tasks
    \/ /\ p.paused /\ ~pause /\ p.stage = "ready"
       /\ player' = [set EXCEPT !.stage = "started"]
       /\ tasks' = tasks \o <<"subscribe", "resume">>
    \/ /\ p.paused # pause /\ p.stage = "started"
       /\ player' = set
       /\ tasks' = Append(tasks, IF pause THEN "pause" ELSE "resume")

Least(m, n)    == IF m < n THEN m ELSE n
Greatest(m, n) == IF m < n THEN n ELSE m

\* trackReceivedEnough(), receivedTillEnd()
TillEnd(p) == ~video.loop /\ p.position # Unknown /\ p.received = Length
Enough(p, amount) ==
    \/ TillEnd(p)
    \/ p.position # Unknown /\ p.position + Least(amount, Length) <= p.received

Receives(p, n) ==
    [p EXCEPT !.received = IF p.position = Unknown THEN n ELSE Greatest(@, n)]
PausesReading(p) == Enough(p, Advance) /\ ~TillEnd(p)

MainIdle == mainAt = Nothing
Opens(kind) ==
    /\ MainIdle
    /\ mail # <<>> /\ Head(mail).kind = kind
    /\ mail' = Tail(mail)
    /\ UNCHANGED <<video, at, track, fileVars>>

\* streamReady() and provideStartInformation()
StreamReady ==
    /\ Opens("ready")
    /\ LET p == [player EXCEPT
                   !.stage = "ready", !.position = PositionOf(0),
                   !.received = Least(Length, Greatest(@, PositionOf(0)))] IN
       IF p.paused THEN player' = p /\ UNCHANGED tasks
                   ELSE UpdatePausedState([p EXCEPT !.paused = TRUE])
    /\ UNCHANGED <<ringVars, reads, mainAt>>

\* videoReceivedTill()
VideoReceivedTill ==
    /\ Opens("till")
    /\ LET p == Receives(player, Head(mail).till) IN
       /\ reads' = (reads /\ ~PausesReading(p))
       /\ IF p.byWaiting /\ Enough(p, Buffer)
          THEN UpdatePausedState([p EXCEPT !.byWaiting = FALSE])
          ELSE player' = p /\ UNCHANGED tasks
    /\ UNCHANGED <<ringVars, mainAt>>

\* (Variant: whatever was received already.)
WaitingWithEnough ==
    /\ Opens("waiting")
    /\ UpdatePausedState([player EXCEPT !.byWaiting = TRUE])
    /\ UNCHANGED <<ringVars, reads, mainAt>>

WaitingForData ==
    /\ Opens("waiting")
    /\ IF Enough(player, Buffer)
       THEN UNCHANGED <<player, tasks>>
       ELSE UpdatePausedState([player EXCEPT !.byWaiting = TRUE])
    /\ UNCHANGED <<ringVars, reads, mainAt>>

TrackDone ==
    /\ Opens("done")
    /\ player' = [player EXCEPT !.finished = TRUE]
    /\ UNCHANGED <<ringVars, tasks, reads, mainAt>>

Toggle ==
    /\ MainIdle /\ player.toggles < video.toggles /\ ~player.finished
    /\ UpdatePausedState([player EXCEPT !.byUser = ~@, !.toggles = @ + 1])
    /\ UNCHANGED <<video, ringVars, at, track, fileVars, reads, mainAt, mail>>

-----------------------------------------------------------------------------
(* The main thread: showing.                                                   *)

\* (Variant: it is waited for again.)
TakesFrameAgain ==
    LET i == Current(Succ(counter)) IN
    /\ frames' = [frames EXCEPT ![i].displayed = TRUE]
    /\ counter' = Succ(counter)
    /\ mainAt' = Marked(frames[i].position)
    /\ UNCHANGED player

\* markFrameDisplayed()
TakesFrame ==
    LET i == Current(Succ(counter)) IN
    /\ frames' = [frames EXCEPT ![i].displayed = TRUE]
    /\ counter' = Succ(counter)
    /\ mainAt' = Marked(frames[i].position)
    /\ player' = [player EXCEPT !.next = FALSE]

\* checkVideoStep(): is there a frame, and is it time for it?
HasNext == player.next \/ ~Even(counter)
CheckVideoStep ==
    \/ ~HasNext /\ UNCHANGED <<ringVars, mainAt, player>>
    \/ HasNext /\ player' = [player EXCEPT !.next = TRUE] /\ UNCHANGED <<ringVars, mainAt>>
    \/ HasNext /\ TakesFrame

CheckNextFrame ==
    /\ Opens("check")
    /\ CheckVideoStep
    /\ UNCHANGED <<tasks, reads>>

WidgetUpdate ==
    /\ MainIdle /\ player.stage = "started" /\ ~player.finished
    /\ CheckVideoStep
    /\ UNCHANGED <<video, at, tasks, track, fileVars, reads, mail>>

RenderTimerFires ==
    /\ MainIdle /\ player.next
    /\ TakesFrame
    /\ UNCHANGED <<video, at, tasks, track, fileVars, reads, mail>>

\* (Variant: the one who sleeps is not woken.)
PlayedTillQuietly ==
    /\ mainAt.does = "marked"
    /\ LET p == Receives(player, mainAt.position)
           q == [p EXCEPT !.position = mainAt.position]
           paused == ~reads \/ PausesReading(p) IN
       /\ player' = q
       /\ reads' = (~paused \/ ~PausesReading(q))
       /\ UNCHANGED semaphore
    /\ tasks' = Append(tasks, "displayed")
    /\ mainAt' = Nothing
    /\ UNCHANGED <<video, ringVars, at, track, file, mail>>

\* The rest of renderFrame(): the track is told, and videoPlayedTill() wakes the
\* thread of the file when little is left.
PlayedTill ==
    /\ mainAt.does = "marked"
    /\ LET p == Receives(player, mainAt.position)
           q == [p EXCEPT !.position = mainAt.position]
           paused == ~reads \/ PausesReading(p) IN
       /\ player' = q
       /\ reads' = (~paused \/ ~PausesReading(q))
       /\ semaphore' = IF paused /\ ~PausesReading(q) THEN semaphore + 1 ELSE semaphore
    /\ tasks' = Append(tasks, "displayed")
    /\ mainAt' = Nothing
    /\ UNCHANGED <<video, ringVars, at, track, file, mail>>

\* VideoTrack::frame() uses the frame as long as it paints.
Paint ==
    /\ MainIdle /\ player.stage # "initializing"
    /\ mainAt' = Painting(Current(counter))
    /\ UNCHANGED <<video, ringVars, at, tasks, track, fileVars, reads, mail, player>>

Painted ==
    /\ mainAt.does = "paint"
    /\ mainAt' = Nothing
    /\ UNCHANGED <<video, ringVars, at, tasks, track, fileVars, reads, mail, player>>

-----------------------------------------------------------------------------
FileThread == ReadPacket \/ FileReadsMore \/ FileWakes \/ RoundEnds

Chooses  == PrepareState \/ ReadNeeded \/ NoneNeeded \/ NoneNeededYet \/ StaleDropped
Reads    == ReadWaits \/ ReadFinishes \/ ReadLoops \/ ReadFrame
Presents == PresentNot \/ PresentFrame \/ ShowEnd \/ ShowFrame \/ Tell \/ ShowLater
Begun ==
    \/ FirstPacket \/ NextPacket \/ FrameDisplayed \/ Resume \/ Pause \/ Subscribe
    \/ ReadFrames \/ Discard
TrackQueue == Begun \/ Chooses \/ Reads \/ Presents

OpensMail == StreamReady \/ VideoReceivedTill \/ WaitingForData \/ TrackDone \/ CheckNextFrame
MainThread == OpensMail \/ RenderTimerFires \/ PlayedTill \/ Painted

Next ==
    \/ FileThread \/ TrackQueue \/ ReadTimerFires \/ MainThread
    \/ WidgetUpdate \/ Paint \/ Toggle

Spec == Init /\ [][Next]_vars

\* The three threads run, and timers that are set fire; however often the window
\* is painted, the event loop of the main thread gets to the rest too.  Nobody has
\* to repaint the window, and the user may do what they like.
Fairness ==
    /\ WF_vars(FileThread) /\ WF_vars(TrackQueue) /\ WF_vars(ReadTimerFires)
    /\ SF_vars(OpensMail) /\ SF_vars(RenderTimerFires)
    /\ WF_vars(PlayedTill) /\ WF_vars(Painted)

FairSpec == Spec /\ Fairness

-----------------------------------------------------------------------------
(* Properties.                                                                 *)

Tasks   == {"packet", "displayed", "resume", "pause", "subscribe", "read"}
Letters == [kind : {"till", "ready", "check", "waiting", "done"}, till : Nat]
Tracks ==
    [fed : Nat, taken : Nat, queued : BOOLEAN, timer : BOOLEAN, resumed : BOOLEAN,
     paused : BOOLEAN, subscribed : BOOLEAN, interrupted : BOOLEAN]
Players ==
    [stage : {"initializing", "ready", "started"}, next : BOOLEAN,
     byUser : BOOLEAN, byWaiting : BOOLEAN, paused : BOOLEAN,
     finished : BOOLEAN, position : Int, received : Int, toggles : Nat]
TrackPlaces ==
    {Nothing, Preparing, Presenting, Telling}
    \cup {Choosing(c) : c \in 0 .. 7} \cup {Showing(c) : c \in 0 .. 7}
    \cup {Reading(i) : i \in 0 .. 3}
MainPlaces ==
    {Nothing} \cup {Painting(i) : i \in 0 .. 3} \cup [does : {"marked"}, position : Nat]

TypeOK ==
    /\ video \in Videos
    /\ counter \in -1 .. 7
    /\ frames \in [0 .. 3 -> Frame]
    /\ at \in TrackPlaces /\ mainAt \in MainPlaces
    /\ tasks \in Seq(Tasks) /\ mail \in Seq(Letters)
    /\ track \in Tracks
    /\ file \in [does : {"read", "decide", "sleep", "end", "over"}, sent : Nat]
    /\ reads \in BOOLEAN /\ semaphore \in Nat
    /\ player \in Players

\* What a thread may be reading or writing.
OfMain ==
    (IF counter = Uninitialized THEN {} ELSE {Current(counter)})
    \cup (IF counter # Uninitialized /\ ~Even(counter) THEN {Current(Succ(counter))} ELSE {})
    \cup (IF mainAt.does = "paint" THEN {mainAt.frame} ELSE {})
OfTrack ==
    CASE at.does \in {"choose", "show"} -> {Chosen, Other}
      [] at.does = "read" -> {at.frame}
      [] OTHER -> {}

\* No frame is painted, or awaits its time, while the track decodes into it,
\* converts it or exchanges it with another: also when the main thread has moved
\* the counter since the track read it.
FramesNotShared == OfMain \cap OfTrack = {}

\* The frame on the screen, and the one that was released to follow it, hold the
\* picture of their own position, and the second one is not on the screen yet
\* (the assertions of frameForPaint, nextFrameDisplayTime, markFrameDisplayed).
PaintsItsPicture ==
    counter # Uninitialized =>
        LET on   == frames[Current(counter)]
            next == frames[Current(Succ(counter))] IN
        /\ on.displayed /\ on.picture = on.position
        /\ ~Even(counter) => IsDecoded(next) /\ next.picture = next.position

\* The time for a frame is only waited for while a frame is there ("Unexpected",
\* markFrameDisplayed).
NextIsThere == player.next => ~Even(counter)

\* Frames are shown in the order of their positions, and none is left out unless
\* the decoder may be late.
ShownInOrder ==
    [][player.position # Unknown /\ player.position' # player.position =>
         /\ player.position' > player.position
         /\ ~video.late => player.position' = player.position + 1]_vars

\* The thread of the file does not sleep while it should read.
SleeperIsWoken == file.does = "sleep" /\ reads => semaphore > 0

\* A video that does not loop is played to its end, unless the user leaves it
\* paused: the three threads do not end up waiting for one another.  (When decoding
\* is late they may: all that was read in advance is dropped as stale then.)
AtTheEnd == player.finished /\ player.position = Length - 1
PlaysToTheEnd == ~video.loop /\ ~video.late /\ <>[](~player.byUser) => <>AtTheEnd
=============================================================================
