------------------------------ MODULE Updates ------------------------------
(* How the client keeps up with the server's sequences of updates: the part of *)
(* MainWidget (mainwidget.cpp) that owns two PtsWaiters, the one of the        *)
(* account and the one of a channel, the containers numbered by seq, and the   *)
(* timers that ask for a difference when an update was missed.                 *)
(*                                                                             *)
(* Everything runs on the main thread, so one action is one handler.  The      *)
(* network delivers pushes and answers in any order and may lose a push; an    *)
(* answer holds what the server knew when it was computed, not when it         *)
(* arrives.  Time is abstracted: an armed timer may fire at any moment.        *)
EXTENDS PtsWaiter, FiniteSets

CONSTANTS
    MaxPts,     \* how far each of the two sequences may advance
    MaxSeq,     \* how many containers carry a seq
    MaxNumbers, \* how many numbers the server gives out in all of them
    MaxFlight,  \* how many pushes are on their way at once
    Mishaps,    \* what else may happen, see MishapKinds
    MaxMishaps  \* how often, together

Owners == {"account", "channel"}

MishapKinds == {"empty",          \* an update, or an answer, takes no number
                "accountFails",   \* getDifference fails
                "channelFails",   \* getChannelDifference fails
                "unknownChannel", \* the channel's number may not be known at first
                "notLoaded",      \* an update mentions an unknown user or chat
                "newSession"}     \* the server started a new session

ASSUME ConstantsAssumption ==
    /\ MaxPts \in [Owners -> Nat]
    /\ MaxSeq \in Nat /\ MaxNumbers \in Nat
    /\ MaxFlight \in Nat
    /\ Mishaps \subseteq MishapKinds
    /\ MaxMishaps \in Nat

VARIABLES
    waiter,    \* _ptsWaiter of the main widget and of the channel
    ptsTimer,  \* _getDifferenceTimeByPts and _channelGetDifferenceTimeByPts are set
    failTimer, \* _getDifferenceTimeAfterFail and the channel's are set
    minTimer,  \* _byMinChannelTimer is active
    updSeq,    \* updSeq
    bySeq,     \* keys of _bySeqUpdates
    seqTimer,  \* _bySeqTimer is active
    shown,     \* the channel is the active chat
    issued,    \* server: the number its two sequences have reached
    ends,      \* server: the numbers at which an update of the sequence ends
    seqs,      \* server: how many numbered containers it sent
    pushes,    \* updates on their way to the client
    containers, \* numbered containers on their way
    asked,     \* requests for a difference on their way, answered or not
    mishaps,   \* how many mishaps happened so far
    applied,   \* history: the numbers whose effects the client shows
    counted,   \* history: the numbers added up since the waiter was initialised
    fedSeqs    \* history: the containers whose content the client shows

ptsVars    == <<waiter, ptsTimer, applied, counted>>
seqVars    == <<updSeq, bySeq, seqTimer, fedSeqs>>
serverVars == <<issued, ends, seqs>>
netVars    == <<pushes, containers>>
vars == <<ptsVars, seqVars, serverVars, failTimer, minTimer, shown, netVars, asked, mishaps>>

-----------------------------------------------------------------------------
(* What travels.                                                               *)

\* A push is an update the server sends by itself; a result comes with the
\* answer of some request; affected is the answer of a request whose effect the
\* caller applies, with the numbers it took; tooLong is updateChannelTooLong.
Kinds   == {"push", "result", "affected", "tooLong"}
Letter  == [owner : Owners, pts : Nat, count : Nat, kind : Kinds]
\* (Variant.)
WholeLetter(p) == p
Ev(p)   == [pts |-> p.pts, count |-> p.count]

NoAnswer == [none |-> TRUE]
Failed   == [none |-> FALSE]
\* The state after the events of the answer; last is false for a slice; tooLong
\* is the number of the channel if the answer says that the channel changed.
Answer  == [pts : Nat, seq : Nat, final : BOOLEAN, tooLong : Nat]
Request == [owner : Owners, from : Nat, answer : Answer \cup {NoAnswer, Failed}]

Asking(o, from) == [owner |-> o, from |-> from, answer |-> NoAnswer]

-----------------------------------------------------------------------------
(* The state at the start: the constructor of MainWidget marks the account as  *)
(* requesting and start() asks for the state.                                  *)
Init ==
    /\ waiter \in [Owners -> {StartRequesting(NewWaiter), NewWaiter, InitAt(NewWaiter, 1)}]
    /\ waiter["account"] = StartRequesting(NewWaiter)
    /\ waiter["channel"] \in {InitAt(NewWaiter, 1)} \cup
         (IF "unknownChannel" \in Mishaps THEN {NewWaiter} ELSE {})
    /\ ptsTimer = [o \in Owners |-> FALSE]
    /\ failTimer = [o \in Owners |-> FALSE]
    /\ minTimer = FALSE /\ seqTimer = FALSE /\ shown = FALSE
    /\ updSeq = 0 /\ bySeq = {} /\ seqs = 0 /\ mishaps = 0
    /\ issued = [o \in Owners |-> 1]
    /\ ends = [o \in Owners |-> {1}]
    /\ pushes = {} /\ containers = {}
    /\ asked = {Asking("account", 0)}
    /\ applied = [o \in Owners |-> 1 .. waiter[o].good]
    /\ counted = [o \in Owners |-> 1 .. waiter[o].good]
    /\ fedSeqs = {}

-----------------------------------------------------------------------------
(* The server: it extends a sequence and tells the client, or numbers a        *)
(* container.                                                                  *)

Mishap(kind) ==
    /\ kind \in Mishaps
    /\ mishaps < MaxMishaps
    /\ mishaps' = mishaps + 1

\* The sequences start at 1, the seqs after 0.
NumbersLeft(count) ==
    (issued["account"] - 1) + (issued["channel"] - 1) + seqs + count <= MaxNumbers

RoomInFlight == Cardinality(pushes) + Cardinality(containers) < MaxFlight

Send(o, pts, count, kind) ==
    /\ RoomInFlight
    /\ pushes' = pushes \cup {[owner |-> o, pts |-> pts, count |-> count, kind |-> kind]}
    /\ UNCHANGED containers

Publish(o, count, kind) ==
    /\ issued[o] + count <= MaxPts[o] /\ NumbersLeft(count)
    /\ issued' = [issued EXCEPT ![o] = @ + count]
    /\ ends' = [ends EXCEPT ![o] = @ \cup {issued[o] + count}]
    /\ Send(o, issued[o] + count, count, kind)
    /\ UNCHANGED <<ptsVars, seqVars, seqs, failTimer, minTimer, shown, asked, mishaps>>

\* An update or an answer that carries the number of the sequence and takes
\* none: messages.channelMessages, a history read that changed nothing.
TellPts(o, kind) ==
    /\ Mishap("empty")
    /\ Send(o, issued[o], 0, kind)
    /\ UNCHANGED <<ptsVars, seqVars, serverVars, failTimer, minTimer, shown, asked>>

TellTooLong ==
    /\ Send("channel", issued["channel"], 0, "tooLong")
    /\ UNCHANGED <<ptsVars, seqVars, serverVars, failTimer, minTimer, shown, asked, mishaps>>

PublishSeq ==
    /\ seqs < MaxSeq /\ NumbersLeft(1) /\ RoomInFlight
    /\ seqs' = seqs + 1
    /\ containers' = containers \cup {seqs + 1}
    /\ UNCHANGED <<ptsVars, seqVars, issued, ends, pushes, failTimer, minTimer, shown, asked, mishaps>>

LosePush ==
    /\ \/ \E p \in pushes : pushes' = pushes \ {p} /\ UNCHANGED containers
       \/ \E n \in containers : containers' = containers \ {n} /\ UNCHANGED pushes
    /\ UNCHANGED <<ptsVars, seqVars, serverVars, failTimer, minTimer, shown, asked, mishaps>>

\* A final answer brings everything up to now, a slice stops before.
Answers(d) ==
    LET now == issued[d.owner]
        tooLongs == IF d.owner = "account" THEN {0, issued["channel"]} ELSE {0} IN
    [pts : {now}, seq : {seqs}, final : {TRUE}, tooLong : tooLongs]
        \cup [pts : {n \in ends[d.owner] : d.from < n /\ n < now}, seq : {seqs},
              final : {FALSE}, tooLong : {0}]

AnswerRequest(d) ==
    /\ d.answer = NoAnswer
    /\ \E a \in Answers(d) :
         /\ d.from = 0 => a.final          \* updates.getState has no slices
         /\ asked' = (asked \ {d}) \cup {[d EXCEPT !.answer = a]}
    /\ UNCHANGED <<ptsVars, seqVars, serverVars, failTimer, minTimer, shown, netVars, mishaps>>

FailRequest(d) ==
    /\ d.answer = NoAnswer
    /\ d.from > 0
    /\ Mishap(IF d.owner = "account" THEN "accountFails" ELSE "channelFails")
    /\ asked' = (asked \ {d}) \cup {[d EXCEPT !.answer = Failed]}
    /\ UNCHANGED <<ptsVars, seqVars, serverVars, failTimer, minTimer, shown, netVars>>

-----------------------------------------------------------------------------
(* Asking for a difference.                                                    *)

\* getDifference(), called when the account's waiter is w and the requests on
\* their way are rest: it does nothing but forget the timer while it waits for
\* an answer.
GetDifference(w, rest) ==
    /\ ptsTimer' = [ptsTimer EXCEPT !["account"] = FALSE]
    /\ \/ /\ w.requesting
          /\ waiter' = [waiter EXCEPT !["account"] = w]
          /\ asked' = rest
          /\ UNCHANGED <<failTimer, bySeq, seqTimer>>
       \/ /\ ~w.requesting
          /\ waiter' = [waiter EXCEPT !["account"] = StartRequesting(w)]
          /\ asked' = rest \cup {Asking("account", w.good)}
          /\ failTimer' = [failTimer EXCEPT !["account"] = FALSE]
          /\ bySeq' = {} /\ seqTimer' = FALSE

\* (Variant.)
AsksForChannelAgain(w) == Inited(w)
AsksForChannel(w) == Inited(w) /\ ~w.requesting

\* getChannelDifference(), the channel's waiter being w.
GetChannelDifference(w, rest, afterFail) ==
    /\ ptsTimer' = [ptsTimer EXCEPT !["channel"] = FALSE]
    /\ \/ /\ ~AsksForChannel(w)
          /\ waiter' = [waiter EXCEPT !["channel"] = w]
          /\ asked' = rest
          /\ failTimer' = IF afterFail THEN [failTimer EXCEPT !["channel"] = FALSE]
                                       ELSE failTimer
       \/ /\ AsksForChannel(w)
          /\ waiter' = [waiter EXCEPT !["channel"] = StartRequesting(w)]
          /\ asked' = rest \cup {Asking("channel", w.good)}
          /\ failTimer' = [failTimer EXCEPT !["channel"] = FALSE]

-----------------------------------------------------------------------------
(* One numbered update, PtsWaiter::updateAndApply().                           *)

\* What the client knows once it counted the update: the first one it hears of
\* starts the sequence, whose past is loaded with the history.
Known(w, e) == IF Inited(w) THEN Covers(e) ELSE 1 .. e.pts

PtsStep(o, w, timer, shows, counts) ==
    /\ waiter'   = [waiter EXCEPT ![o] = w]
    /\ ptsTimer' = [ptsTimer EXCEPT ![o] = timer]
    /\ applied'  = [applied EXCEPT ![o] = @ \cup shows]
    /\ counted'  = [counted EXCEPT ![o] = counts]

UpdateUnchecked(o, e) ==
    /\ waiter[o].requesting
    /\ PtsStep(o, waiter[o], ptsTimer[o], Covers(e), counted[o])

UpdateStale(o, e) ==
    /\ ~waiter[o].requesting
    /\ Stale(waiter[o], e)
    /\ UNCHANGED ptsVars

UpdateHeld(o, e) ==
    LET w == waiter[o] IN
    /\ ~w.requesting /\ ~Stale(w, e) /\ ~Passes(w, e)
    /\ PtsStep(o, Enqueue(Checked(w, e), e), TRUE, {}, counted[o] \cup Known(w, e))

UpdateApplied(o, e) ==
    LET w == waiter[o]
        c == Checked(w, e) IN
    /\ ~w.requesting /\ ~Stale(w, e) /\ Passes(w, e)
    /\ ~c.waiting \/ c.queue = {}
    /\ PtsStep(o, c, ptsTimer[o] \/ Gaps(w, e), Known(w, e),
               IF Inited(w) THEN counted[o] \cup Covers(e) ELSE 1 .. e.pts)

\* (Variant.)
UpdateAppliedAlone(o, e) ==
    LET w == waiter[o]
        c == Checked(w, e) IN
    /\ ~w.requesting /\ ~Stale(w, e) /\ Passes(w, e)
    /\ c.waiting /\ c.queue # {}
    /\ PtsStep(o, EndWait(c), (ptsTimer[o] \/ Gaps(w, e)) /\ ~CancelsTimer(c),
               Known(w, e), counted[o] \cup Covers(e))

UpdateAppliedWithSkipped(o, e) ==
    LET w == waiter[o]
        c == Checked(w, e) IN
    /\ ~w.requesting /\ ~Stale(w, e) /\ Passes(w, e)
    /\ c.waiting /\ c.queue # {}
    /\ PtsStep(o, EndWait(c), (ptsTimer[o] \/ Gaps(w, e)) /\ ~CancelsTimer(c),
               Known(w, e) \cup CoversAll(c.queue), counted[o] \cup Covers(e))

ApplyUpdate(o, e) ==
    \/ UpdateUnchecked(o, e)
    \/ UpdateStale(o, e)
    \/ UpdateHeld(o, e)
    \/ UpdateApplied(o, e)
    \/ UpdateAppliedWithSkipped(o, e)

\* The overload without an update: the caller applies the effect by itself and
\* only the numbers are counted.
AffectedUncounted(o, e) ==
    LET w == waiter[o] IN
    /\ w.requesting
    /\ PtsStep(o, EndWait(w), ptsTimer[o] /\ ~CancelsTimer(w), Covers(e), counted[o])

AffectedStale(o, e) ==
    LET w == waiter[o] IN
    /\ ~w.requesting /\ Stale(w, e)
    /\ PtsStep(o, w, ptsTimer[o], Covers(e), counted[o])

\* (Variant.)
AffectedInGapUnwatched(o, e) ==
    LET w == waiter[o] IN
    /\ ~w.requesting /\ ~Stale(w, e) /\ ~Passes(w, e)
    /\ PtsStep(o, Checked(w, e), ptsTimer[o], Covers(e), counted[o] \cup Covers(e))

AffectedInGap(o, e) ==
    LET w == waiter[o] IN
    /\ ~w.requesting /\ ~Stale(w, e) /\ ~Passes(w, e)
    /\ PtsStep(o, Checked(w, e), TRUE, Covers(e), counted[o] \cup Covers(e))

AffectedCounted(o, e) ==
    LET w == waiter[o]
        c == Checked(w, e) IN
    /\ ~w.requesting /\ ~Stale(w, e) /\ Passes(w, e)
    /\ PtsStep(o, EndWait(c), (ptsTimer[o] \/ Gaps(w, e)) /\ ~CancelsTimer(c),
               Known(w, e) \cup (IF c.waiting THEN CoversAll(c.queue) ELSE {}),
               IF Inited(w) THEN counted[o] \cup Covers(e) ELSE 1 .. e.pts)

CountAffected(o, e) ==
    \/ AffectedUncounted(o, e)
    \/ AffectedStale(o, e)
    \/ AffectedInGap(o, e)
    \/ AffectedCounted(o, e)

-----------------------------------------------------------------------------
(* updSetState(): a new seq lets the stored containers that follow it in.      *)

FollowsTo(n, k) == (n + 1) .. k \subseteq bySeq /\ k + 1 \notin bySeq

\* (Variant.)
SetSeqWithoutTimer(n, content) ==
    \/ /\ n \in {0, updSeq}
       /\ fedSeqs' = fedSeqs \cup content
       /\ UNCHANGED <<updSeq, bySeq, seqTimer>>
    \/ /\ n \notin {0, updSeq}
       /\ \E k \in {n} \cup bySeq :
            /\ k >= n /\ FollowsTo(n, k)
            /\ updSeq' = k
            /\ fedSeqs' = fedSeqs \cup content \cup ((n + 1) .. k)
            /\ bySeq' = {s \in bySeq : s > k}
            /\ seqTimer' = FALSE

SetSeq(n, content) ==
    \/ /\ n \in {0, updSeq}
       /\ fedSeqs' = fedSeqs \cup content
       /\ UNCHANGED <<updSeq, bySeq, seqTimer>>
    \/ /\ n \notin {0, updSeq}
       /\ \E k \in {n} \cup bySeq :
            /\ k >= n /\ FollowsTo(n, k)
            /\ updSeq' = k
            /\ fedSeqs' = fedSeqs \cup content \cup ((n + 1) .. k)
            /\ bySeq' = {s \in bySeq : s > k}
            /\ seqTimer' = (bySeq' # {})

-----------------------------------------------------------------------------
(* What arrives: updateReceived(), feedUpdates(), feedUpdate().                *)

Requesting(o) == waiter[o].requesting
Take(p) == pushes' = pushes \ {p} /\ UNCHANGED containers
TakeContainer(n) == containers' = containers \ {n} /\ UNCHANGED pushes

\* Whatever the server pushes is dropped while the account waits for a difference.
DropPush(p) ==
    /\ p.kind \in {"push", "tooLong"}
    /\ Requesting("account")
    /\ Take(p)
    /\ UNCHANGED <<ptsVars, seqVars, serverVars, failTimer, minTimer, shown, asked, mishaps>>

Delivered(p) == p.kind = "result" \/ (p.kind = "push" /\ ~Requesting("account"))

FeedAccountUpdate(p) ==
    /\ p.owner = "account" /\ Delivered(p)
    /\ ApplyUpdate("account", Ev(p))
    /\ Take(p)
    /\ UNCHANGED <<seqVars, serverVars, failTimer, minTimer, shown, asked, mishaps>>

\* An update that mentions an unknown user is not counted: a difference brings
\* it with the user.
FeedAccountNotLoaded(p) ==
    /\ Mishap("notLoaded")
    /\ p.owner = "account" /\ Delivered(p)
    /\ ~Requesting("account")
    /\ GetDifference(waiter["account"], asked)
    /\ Take(p)
    /\ UNCHANGED <<applied, counted, updSeq, fedSeqs, serverVars, minTimer, shown>>

FeedChannelUpdate(p) ==
    /\ p.owner = "channel" /\ Delivered(p)
    /\ ~Requesting("channel")
    /\ ApplyUpdate("channel", Ev(p))
    /\ Take(p)
    /\ UNCHANGED <<seqVars, serverVars, failTimer, minTimer, shown, asked, mishaps>>

DropChannelUpdate(p) ==
    /\ p.owner = "channel" /\ Delivered(p)
    /\ Requesting("channel")
    /\ Take(p)
    /\ UNCHANGED <<ptsVars, seqVars, serverVars, failTimer, minTimer, shown, asked, mishaps>>

FeedChannelNotLoaded(p) ==
    /\ Mishap("notLoaded")
    /\ p.owner = "channel" /\ Delivered(p)
    /\ ~Requesting("account")
    /\ minTimer' = TRUE
    /\ Take(p)
    /\ UNCHANGED <<ptsVars, seqVars, serverVars, failTimer, shown, asked>>

FeedChannelTooLong(p) ==
    /\ p.kind = "tooLong"
    /\ ~Requesting("account")
    /\ IF waiter["channel"].good < p.pts
       THEN GetChannelDifference(waiter["channel"], asked, FALSE)
       ELSE UNCHANGED <<waiter, ptsTimer, failTimer, asked>>
    /\ Take(p)
    /\ UNCHANGED <<applied, counted, seqVars, serverVars, minTimer, shown, mishaps>>

ReceiveAffected(p) ==
    /\ p.kind = "affected"
    /\ CountAffected(p.owner, Ev(p))
    /\ Take(p)
    /\ UNCHANGED <<seqVars, serverVars, failTimer, minTimer, shown, asked, mishaps>>

ReceiveLetter(p) ==
    \/ FeedAccountUpdate(p)
    \/ FeedAccountNotLoaded(p)
    \/ FeedChannelUpdate(p)
    \/ DropChannelUpdate(p)
    \/ FeedChannelNotLoaded(p)
    \/ FeedChannelTooLong(p)
    \/ ReceiveAffected(p)

ContainerStale(n) ==
    /\ n <= updSeq
    /\ UNCHANGED seqVars

ContainerHeld(n) ==
    /\ n > updSeq + 1
    /\ bySeq' = bySeq \cup {n}
    /\ seqTimer' = TRUE
    /\ UNCHANGED <<updSeq, fedSeqs>>

\* (Variant.)
ContainerFedEarly(n) ==
    /\ n \in {updSeq + 1, updSeq + 2}
    /\ SetSeq(n, {n})

ContainerFed(n) ==
    /\ n = updSeq + 1
    /\ SetSeq(n, {n})

ReceiveContainer(n) ==
    /\ \/ Requesting("account") /\ UNCHANGED seqVars
       \/ ~Requesting("account") /\ (ContainerStale(n) \/ ContainerHeld(n) \/ ContainerFed(n))
    /\ TakeContainer(n)
    /\ UNCHANGED <<ptsVars, serverVars, failTimer, minTimer, shown, asked, mishaps>>

\* new_session_created: whatever was pushed in between is lost.
NewSession ==
    /\ Mishap("newSession")
    /\ updSeq' = 0
    /\ GetDifference(waiter["account"], asked)
    /\ UNCHANGED <<applied, counted, fedSeqs, serverVars, minTimer, shown, netVars>>

-----------------------------------------------------------------------------
(* The answers.                                                                *)

Answered(d) == d.answer \notin {NoAnswer, Failed}
Brought(d)  == (d.from + 1) .. d.answer.pts

\* updateChannelTooLong within the difference of the account.
ChannelChanged(d) == d.answer.tooLong > waiter["channel"].good
AsksChannel(d) == ChannelChanged(d) /\ AsksForChannel(waiter["channel"])

ShowBrought(d) ==
    /\ applied' = [applied EXCEPT ![d.owner] = @ \cup Brought(d)]
    /\ counted' = [counted EXCEPT ![d.owner] = 1 .. d.answer.pts]

\* updates.difference, differenceEmpty, and updates.state at the start.
GotDifference(d) ==
    /\ d.owner = "account" /\ Answered(d) /\ d.answer.final
    /\ waiter' = [waiter EXCEPT
         !["account"] = StopRequesting(InitAt(@, d.answer.pts)),
         !["channel"] = IF AsksChannel(d) THEN StartRequesting(@) ELSE @]
    /\ ptsTimer' = [ptsTimer EXCEPT !["channel"] = @ /\ ~ChannelChanged(d)]
    /\ failTimer' = [failTimer EXCEPT !["channel"] = @ /\ ~AsksChannel(d)]
    /\ asked' = (asked \ {d}) \cup
         (IF AsksChannel(d) THEN {Asking("channel", waiter["channel"].good)} ELSE {})
    /\ SetSeq(d.answer.seq, 1 .. d.answer.seq)
    /\ ShowBrought(d)
    /\ UNCHANGED <<serverVars, minTimer, shown, netVars, mishaps>>

\* (Variant.)
GotDifferenceSliceStill(d) ==
    /\ d.owner = "account" /\ Answered(d) /\ ~d.answer.final
    /\ GetDifference(StopRequesting(waiter["account"]), asked \ {d})
    /\ updSeq' = IF d.answer.seq = 0 THEN updSeq ELSE d.answer.seq
    /\ fedSeqs' = fedSeqs \cup 1 .. d.answer.seq
    /\ ShowBrought(d)
    /\ UNCHANGED <<serverVars, minTimer, shown, netVars, mishaps>>

GotDifferenceSlice(d) ==
    /\ d.owner = "account" /\ Answered(d) /\ ~d.answer.final
    /\ GetDifference(StopRequesting(InitAt(waiter["account"], d.answer.pts)), asked \ {d})
    /\ updSeq' = IF d.answer.seq = 0 THEN updSeq ELSE d.answer.seq
    /\ fedSeqs' = fedSeqs \cup 1 .. d.answer.seq
    /\ ShowBrought(d)
    /\ UNCHANGED <<serverVars, minTimer, shown, netVars, mishaps>>

\* (Variant.)
GotChannelDifferenceOnce(d) ==
    /\ d.owner = "channel" /\ Answered(d) /\ d.answer.final
    /\ waiter' = [waiter EXCEPT !["channel"] =
         [StopRequesting(InitAt(waiter["channel"], d.answer.pts)) EXCEPT !.polling = @ \/ shown]]
    /\ asked' = asked \ {d}
    /\ ShowBrought(d)
    /\ UNCHANGED <<ptsTimer, seqVars, serverVars, failTimer, minTimer, shown, netVars, mishaps>>

GotChannelDifference(d) ==
    /\ d.owner = "channel" /\ Answered(d) /\ d.answer.final
    /\ waiter' = [waiter EXCEPT !["channel"] =
         [StopRequesting(InitAt(waiter["channel"], d.answer.pts)) EXCEPT !.polling = @ \/ shown]]
    /\ ptsTimer' = [ptsTimer EXCEPT !["channel"] = @ \/ shown]
    /\ asked' = asked \ {d}
    /\ ShowBrought(d)
    /\ UNCHANGED <<seqVars, serverVars, failTimer, minTimer, shown, netVars, mishaps>>

GotChannelDifferenceSlice(d) ==
    /\ d.owner = "channel" /\ Answered(d) /\ ~d.answer.final
    /\ GetChannelDifference(StopRequesting(InitAt(waiter["channel"], d.answer.pts)),
                            asked \ {d}, FALSE)
    /\ ShowBrought(d)
    /\ UNCHANGED <<seqVars, serverVars, minTimer, shown, netVars, mishaps>>

\* failDifferenceStartTimerFor().
DifferenceFailed(d) ==
    /\ d.answer = Failed
    /\ asked' = asked \ {d}
    /\ failTimer' = [failTimer EXCEPT ![d.owner] = TRUE]
    /\ UNCHANGED <<ptsVars, seqVars, serverVars, minTimer, shown, netVars, mishaps>>

-----------------------------------------------------------------------------
(* The timers and the window.                                                  *)

PtsTimerFires(o) ==
    /\ ptsTimer[o]
    /\ \/ /\ o = "account"
          /\ GetDifference(waiter[o], asked)
       \/ /\ o = "channel"
          /\ GetChannelDifference(waiter[o], asked, FALSE)
          /\ UNCHANGED <<bySeq, seqTimer>>
    /\ UNCHANGED <<applied, counted, updSeq, fedSeqs, serverVars, minTimer, shown, netVars, mishaps>>

\* (Variant.)
FailTimerFiresStill(o) ==
    /\ failTimer[o]
    /\ \/ /\ o = "account"
          /\ ptsTimer' = [ptsTimer EXCEPT ![o] = FALSE]
          /\ failTimer' = [failTimer EXCEPT ![o] = FALSE]
          /\ UNCHANGED <<waiter, asked, bySeq, seqTimer>>
       \/ /\ o = "channel"
          /\ GetChannelDifference(waiter[o], asked, TRUE)
          /\ UNCHANGED <<bySeq, seqTimer>>
    /\ UNCHANGED <<applied, counted, updSeq, fedSeqs, serverVars, minTimer, shown, netVars, mishaps>>

\* getDifferenceAfterFail(): only the account's waiter is told that nothing is
\* requested any more.
FailTimerFires(o) ==
    /\ failTimer[o]
    /\ \/ /\ o = "account"
          /\ GetDifference(StopRequesting(waiter[o]), asked)
       \/ /\ o = "channel"
          /\ GetChannelDifference(waiter[o], asked, TRUE)
          /\ UNCHANGED <<bySeq, seqTimer>>
    /\ UNCHANGED <<applied, counted, updSeq, fedSeqs, serverVars, minTimer, shown, netVars, mishaps>>

\* The timer is single shot: it is over even if nothing is asked.
SeqTimerFires ==
    /\ seqTimer
    /\ GetDifference(waiter["account"], asked)
    /\ seqTimer' = FALSE
    /\ UNCHANGED <<applied, counted, updSeq, fedSeqs, serverVars, minTimer, shown, netVars, mishaps>>

MinTimerFires ==
    /\ minTimer
    /\ minTimer' = FALSE
    /\ GetDifference(waiter["account"], asked)
    /\ UNCHANGED <<applied, counted, updSeq, fedSeqs, serverVars, shown, netVars, mishaps>>

\* The chat of the channel becomes the active one and is polled from then on;
\* leaving the chat only matters at the next answer.
ShowChannel ==
    /\ ~shown
    /\ shown' = TRUE
    /\ waiter' = [waiter EXCEPT !["channel"].polling = TRUE]
    /\ ptsTimer' = [ptsTimer EXCEPT !["channel"] = TRUE]
    /\ UNCHANGED <<applied, counted, seqVars, serverVars, failTimer, minTimer, netVars, asked, mishaps>>

HideChannel ==
    /\ shown
    /\ shown' = FALSE
    /\ UNCHANGED <<ptsVars, seqVars, serverVars, failTimer, minTimer, netVars, asked, mishaps>>

\* deleteConversation() stops the poll, but not a wait for a skipped update.
LeaveChannel ==
    /\ waiter["channel"].polling
    /\ waiter' = [waiter EXCEPT !["channel"].polling = FALSE]
    /\ ptsTimer' = [ptsTimer EXCEPT !["channel"] = @ /\ waiter["channel"].waiting]
    /\ UNCHANGED <<applied, counted, seqVars, serverVars, failTimer, minTimer, shown, netVars, asked, mishaps>>

-----------------------------------------------------------------------------
Server ==
    \/ \E o \in Owners, count \in 1 .. 2, kind \in {"push", "result", "affected"} :
         Publish(o, count, kind)
    \/ \E o \in Owners, kind \in {"push", "affected"} : TellPts(o, kind)
    \/ TellTooLong
    \/ PublishSeq
    \/ LosePush
    \/ \E d \in asked : AnswerRequest(d) \/ FailRequest(d)

Receive ==
    \/ \E p \in pushes : DropPush(p) \/ ReceiveLetter(p)
    \/ \E n \in containers : ReceiveContainer(n)
    \/ NewSession

GotAnswer(d) ==
    \/ GotDifference(d)
    \/ GotDifferenceSlice(d)
    \/ GotChannelDifference(d)
    \/ GotChannelDifferenceSlice(d)
    \/ DifferenceFailed(d)

Timers ==
    \/ \E o \in Owners : PtsTimerFires(o) \/ FailTimerFires(o)
    \/ SeqTimerFires
    \/ MinTimerFires

Window == ShowChannel \/ HideChannel \/ LeaveChannel

Next == Server \/ Receive \/ (\E d \in asked : GotAnswer(d)) \/ Timers \/ Window

Spec == Init /\ [][Next]_vars

\* The event loop fires the timers that are due, and a request is answered; the
\* user and the pushes are under no obligation.
Fairness ==
    \A o \in Owners :
        /\ WF_vars(PtsTimerFires(o))
        /\ WF_vars(FailTimerFires(o))
        /\ WF_vars(\E d \in asked : d.owner = o /\ AnswerRequest(d))
        /\ WF_vars(\E d \in asked : d.owner = o /\ GotAnswer(d))

FairSpec == Spec /\ Fairness

-----------------------------------------------------------------------------
(* Properties.                                                                 *)

TypeOK ==
    /\ waiter \in [Owners -> Waiter]
    /\ ptsTimer \in [Owners -> BOOLEAN]
    /\ failTimer \in [Owners -> BOOLEAN]
    /\ minTimer \in BOOLEAN /\ seqTimer \in BOOLEAN /\ shown \in BOOLEAN
    /\ updSeq \in Nat /\ bySeq \subseteq Nat /\ seqs \in Nat /\ mishaps \in Nat
    /\ issued \in [Owners -> Nat]
    /\ ends \in [Owners -> SUBSET Nat]
    /\ pushes \subseteq Letter /\ containers \subseteq Nat
    /\ asked \subseteq Request
    /\ applied \in [Owners -> SUBSET Nat]
    /\ counted \in [Owners -> SUBSET Nat]
    /\ fedSeqs \subseteq Nat

\* The client never counts a number as received whose update it does not show,
\* however the updates were reordered, dropped, held back or replaced by a
\* difference: no message is skipped for good.
NothingSkipped == \A o \in Owners : 1 .. waiter[o].good \subseteq applied[o]

NoContainerSkipped == 1 .. updSeq \subseteq fedSeqs

\* While nothing is requested, an update shows only after everything before it
\* (an effect the caller of a request applied by itself excepted).
InOrder ==
    [][\A o \in Owners : \A n \in applied'[o] \ applied[o] :
         \/ Requesting(o)
         \/ n <= waiter'[o].good
         \/ \E p \in pushes \ pushes' : p.kind = "affected" /\ n \in Covers(Ev(p))]_vars

\* What the client knows never gets older, although answers carry the state of
\* the time they were computed at.
NeverBack == [][\A o \in Owners : waiter'[o].good >= waiter[o].good]_vars

\* A sequence that counts as requested has an answer to wait for, or the timer
\* of a failed request.
RequestEnds ==
    \A o \in Owners : Requesting(o) =>
        failTimer[o] \/ \E d \in asked : d.owner = o

\* A hole in a sequence is being watched: the timer that asks for the difference
\* is armed.
GapIsWatched ==
    \A o \in Owners : ~Complete(waiter[o]) /\ ~Requesting(o) => ptsTimer[o]

\* The same for containers that came too early.
HeldContainersAreWatched == bySeq # {} /\ ~Requesting("account") => seqTimer

\* The chat on the screen is polled.
ShownChannelIsPolled ==
    shown /\ waiter["channel"].polling /\ ~Requesting("channel") => ptsTimer["channel"]

\* A hole does not stay: the client catches up with the highest number it heard
\* of, be it by a late update, a difference, or the difference asked for after
\* one that failed.
HolesClose ==
    \A o \in Owners : ~Complete(waiter[o]) ~> waiter[o].good = waiter[o].last
=============================================================================
