--------------------------- MODULE Updates_proofs ---------------------------
(* Proofs about Updates, for any length of the sequences and any number of     *)
(* updates in flight and of mishaps.                                           *)
EXTENDS Updates, FiniteSetTheorems, TLAPS

-----------------------------------------------------------------------------
(* The operations of a waiter.                                                 *)

LEMMA WaiterTypes ==
    ASSUME NEW w \in Waiter, NEW n \in Nat
    PROVE  /\ InitAt(w, n) \in Waiter
           /\ StartRequesting(w) \in Waiter /\ StopRequesting(w) \in Waiter
           /\ EndWait(w) \in Waiter
BY DEF Waiter, Event, InitAt, StartRequesting, StopRequesting, EndWait

LEMMA CheckTypes ==
    ASSUME NEW w \in Waiter, NEW e \in Event
    PROVE  /\ Counted(w, e) \in Waiter
           /\ Checked(w, e) \in Waiter
           /\ EndWait(Checked(w, e)) \in Waiter
           /\ Enqueue(Checked(w, e), e) \in Waiter
<1>1. e.pts \in Nat /\ e.count \in Nat
    BY DEF Event
<1>2. Counted(w, e) \in Waiter
    <2>1. w.last \in Nat /\ w.count \in Nat
        BY DEF Waiter
    <2>2. (IF e.pts > w.last THEN e.pts ELSE w.last) \in Nat /\ w.count + e.count \in Nat
        BY <1>1, <2>1
    <2>3. QED
        BY <2>2 DEF Counted, Waiter
<1>3. Checked(w, e) \in Waiter
    BY <1>1, <1>2, WaiterTypes DEF Checked, Waiter
<1>4. Enqueue(Checked(w, e), e) \in Waiter
    BY <1>3 DEF Enqueue, Waiter
<1>5. QED
    BY <1>2, <1>3, <1>4, WaiterTypes

LEMMA NewWaiterType == NewWaiter \in Waiter
BY DEF NewWaiter, Waiter, Event

\* Updates as the server numbers them: the sequences start at 1.
Numbered == {e \in Event : e.count < e.pts}

LEMMA CoversType ==
    ASSUME NEW e \in Numbered
    PROVE  Covers(e) \subseteq Nat /\ Covers(e) \subseteq 1 .. e.pts
BY DEF Numbered, Event, Covers

LEMMA CoversAllType ==
    ASSUME NEW S \in SUBSET Numbered
    PROVE  CoversAll(S) \subseteq Nat
BY CoversType DEF CoversAll

-----------------------------------------------------------------------------
(* Types, and what they rest on: the numbers that travel are ones the server   *)
(* has given out.                                                              *)

PtsTypes ==
    /\ waiter \in [Owners -> Waiter]
    /\ \A o \in Owners : waiter[o].queue \subseteq Numbered
    /\ ptsTimer \in [Owners -> BOOLEAN]
    /\ applied \in [Owners -> SUBSET Nat]
    /\ counted \in [Owners -> SUBSET Nat]

ServerOK ==
    \A o \in Owners : issued[o] > 0 /\ issued[o] \in ends[o] /\ ends[o] \subseteq 1 .. issued[o]
LettersOK == \A p \in pushes : p.count < p.pts /\ p.pts <= issued[p.owner]
AnswersOK == \A d \in asked :
    Answered(d) => d.answer.pts > 0 /\ d.answer.pts <= issued[d.owner]

TypeInv == TypeOK /\ PtsTypes /\ ServerOK /\ LettersOK /\ AnswersOK

LEMMA KnownType ==
    ASSUME NEW w \in Waiter, NEW e \in Numbered
    PROVE  Known(w, e) \subseteq Nat /\ 1 .. e.pts \subseteq Nat
BY CoversType DEF Known, Numbered, Event

LEMMA QueueTypes ==
    ASSUME NEW w \in Waiter, NEW e \in Numbered, w.queue \subseteq Numbered
    PROVE  /\ Checked(w, e).queue \subseteq Numbered
           /\ EndWait(Checked(w, e)).queue \subseteq Numbered
           /\ EndWait(w).queue \subseteq Numbered
           /\ Enqueue(Checked(w, e), e).queue \subseteq Numbered
<1>1. e \in Event
    BY DEF Numbered
<1>2. Checked(w, e).queue \subseteq Numbered
    BY <1>1, CheckTypes DEF Checked, InitAt, Counted, Waiter
<1>3. ASSUME NEW v \in Waiter, v.queue \subseteq Numbered
      PROVE  EndWait(v).queue \subseteq Numbered /\ Enqueue(v, e).queue \subseteq Numbered
    <2>1. [v EXCEPT !.queue = v.queue \cup {e}].queue = v.queue \cup {e}
        BY DEF Waiter
    <2>2. [v EXCEPT !.waiting = FALSE, !.queue = {}].queue = {}
        BY DEF Waiter
    <2>3. QED
        BY <1>3, <2>1, <2>2 DEF EndWait, Enqueue
<1>4. Checked(w, e) \in Waiter
    BY <1>1, CheckTypes
<1>5. QED
    BY <1>2, <1>3, <1>4

LEMMA PtsStepTypes ==
    ASSUME PtsTypes, NEW o \in Owners, NEW w \in Waiter, w.queue \subseteq Numbered,
           NEW timer \in BOOLEAN, NEW shows \in SUBSET Nat, NEW counts \in SUBSET Nat,
           PtsStep(o, w, timer, shows, counts)
    PROVE  PtsTypes'
BY DEF PtsTypes, PtsStep

LEMMA ApplyTypes ==
    ASSUME PtsTypes, NEW o \in Owners, NEW e \in Numbered,
           ApplyUpdate(o, e) \/ CountAffected(o, e)
    PROVE  PtsTypes'
<1> DEFINE w == waiter[o]
           c == Checked(w, e)
<1>1. /\ w \in Waiter /\ w.queue \subseteq Numbered /\ e \in Event
      /\ c \in Waiter /\ EndWait(c) \in Waiter /\ EndWait(w) \in Waiter
      /\ Enqueue(c, e) \in Waiter
    BY CheckTypes, WaiterTypes DEF PtsTypes, Numbered
<1>2. /\ c.queue \subseteq Numbered /\ EndWait(c).queue \subseteq Numbered
      /\ EndWait(w).queue \subseteq Numbered /\ Enqueue(c, e).queue \subseteq Numbered
    BY <1>1, QueueTypes
<1>3. /\ Covers(e) \subseteq Nat /\ Known(w, e) \subseteq Nat /\ 1 .. e.pts \subseteq Nat
      /\ CoversAll(c.queue) \subseteq Nat
    BY <1>1, <1>2, CoversType, CoversAllType, KnownType
<1>4. /\ ptsTimer[o] \in BOOLEAN /\ Gaps(w, e) \in BOOLEAN
      /\ CancelsTimer(c) \in BOOLEAN /\ CancelsTimer(w) \in BOOLEAN
      /\ applied[o] \in SUBSET Nat /\ counted[o] \in SUBSET Nat
    BY <1>1 DEF PtsTypes, Gaps, CancelsTimer, Waiter
<1>5. Stale(w, e) \in BOOLEAN /\ Passes(w, e) \in BOOLEAN
    BY DEF Stale, Passes
<1> HIDE DEF w, c
<1>6. CASE UpdateUnchecked(o, e)
    BY <1>6, <1>1, <1>2, <1>3, <1>4, PtsStepTypes DEF UpdateUnchecked, w
<1>7. CASE UpdateStale(o, e)
    BY <1>7 DEF UpdateStale, PtsTypes, ptsVars
<1>8. CASE UpdateHeld(o, e)
    <2>1. PtsStep(o, Enqueue(c, e), TRUE, {}, counted[o] \cup Known(w, e))
        BY <1>8 DEF UpdateHeld, w, c
    <2>2. counted[o] \cup Known(w, e) \in SUBSET Nat
        BY <1>3, <1>4
    <2>3. QED
        BY <2>1, <2>2, <1>1, <1>2, PtsStepTypes
<1>9. CASE UpdateApplied(o, e)
    <2>1. PtsStep(o, c, ptsTimer[o] \/ Gaps(w, e), Known(w, e),
                  IF Inited(w) THEN counted[o] \cup Covers(e) ELSE 1 .. e.pts)
        BY <1>9 DEF UpdateApplied, w, c
    <2>2. /\ (IF Inited(w) THEN counted[o] \cup Covers(e) ELSE 1 .. e.pts) \in SUBSET Nat
          /\ (ptsTimer[o] \/ Gaps(w, e)) \in BOOLEAN
        BY <1>3, <1>4
    <2>3. QED
        BY <2>1, <2>2, <1>1, <1>2, <1>3, PtsStepTypes
<1>10. CASE UpdateAppliedWithSkipped(o, e)
    <2>1. PtsStep(o, EndWait(c), (ptsTimer[o] \/ Gaps(w, e)) /\ ~CancelsTimer(c),
                  Known(w, e) \cup CoversAll(c.queue), counted[o] \cup Covers(e))
        BY <1>10 DEF UpdateAppliedWithSkipped, w, c
    <2>2. /\ Known(w, e) \cup CoversAll(c.queue) \in SUBSET Nat
          /\ counted[o] \cup Covers(e) \in SUBSET Nat
          /\ ((ptsTimer[o] \/ Gaps(w, e)) /\ ~CancelsTimer(c)) \in BOOLEAN
        BY <1>3, <1>4
    <2>3. QED
        BY <2>1, <2>2, <1>1, <1>2, PtsStepTypes
<1>11. CASE AffectedUncounted(o, e)
    <2>1. PtsStep(o, EndWait(w), ptsTimer[o] /\ ~CancelsTimer(w), Covers(e), counted[o])
        BY <1>11 DEF AffectedUncounted, w
    <2>2. (ptsTimer[o] /\ ~CancelsTimer(w)) \in BOOLEAN
        BY <1>4
    <2>3. QED
        BY <2>1, <2>2, <1>1, <1>2, <1>3, <1>4, PtsStepTypes
<1>12. CASE AffectedStale(o, e)
    BY <1>12, <1>1, <1>3, <1>4, PtsStepTypes DEF AffectedStale, w
<1>13. CASE AffectedInGap(o, e)
    <2>1. PtsStep(o, c, TRUE, Covers(e), counted[o] \cup Covers(e))
        BY <1>13 DEF AffectedInGap, w, c
    <2>2. counted[o] \cup Covers(e) \in SUBSET Nat
        BY <1>3, <1>4
    <2>3. QED
        BY <2>1, <2>2, <1>1, <1>2, <1>3, PtsStepTypes
<1>14. CASE AffectedCounted(o, e)
    <2> DEFINE shows  == Known(w, e) \cup (IF c.waiting THEN CoversAll(c.queue) ELSE {})
               counts == IF Inited(w) THEN counted[o] \cup Covers(e) ELSE 1 .. e.pts
               timer  == (ptsTimer[o] \/ Gaps(w, e)) /\ ~CancelsTimer(c)
    <2>1. PtsStep(o, EndWait(c), timer, shows, counts)
        BY <1>14 DEF AffectedCounted, w, c
    <2>2. shows \in SUBSET Nat /\ counts \in SUBSET Nat /\ timer \in BOOLEAN
        BY <1>3, <1>4
    <2> HIDE DEF shows, counts, timer
    <2>3. QED
        BY <2>1, <2>2, <1>1, <1>2, PtsStepTypes
<1>15. QED
    BY <1>6, <1>7, <1>8, <1>9, <1>10, <1>11, <1>12, <1>13, <1>14 DEF ApplyUpdate, CountAffected

\* Asking for a difference: the timers, the marks and the requests.
AskTypes ==
    /\ waiter \in [Owners -> Waiter]
    /\ \A o \in Owners : waiter[o].queue \subseteq Numbered
    /\ ptsTimer \in [Owners -> BOOLEAN]
    /\ failTimer \in [Owners -> BOOLEAN]
    /\ seqTimer \in BOOLEAN /\ bySeq \subseteq Nat
    /\ asked \subseteq Request

LEMMA AskingIs ==
    ASSUME NEW o \in Owners, NEW n \in Nat
    PROVE  /\ Asking(o, n) \in Request /\ ~Answered(Asking(o, n))
           /\ Asking(o, n).owner = o /\ Asking(o, n).from = n
           /\ Asking(o, n).answer = NoAnswer
BY DEF Asking, Request, Answered

LEMMA RequestingTypes ==
    ASSUME NEW w \in Waiter, w.queue \subseteq Numbered, NEW n \in Nat
    PROVE  /\ StartRequesting(w) \in Waiter /\ StartRequesting(w).queue \subseteq Numbered
           /\ StopRequesting(w) \in Waiter /\ StopRequesting(w).queue \subseteq Numbered
           /\ InitAt(w, n) \in Waiter /\ InitAt(w, n).queue \subseteq Numbered
           /\ StopRequesting(InitAt(w, n)) \in Waiter
           /\ StopRequesting(InitAt(w, n)).queue \subseteq Numbered
           /\ w.good \in Nat /\ w.requesting \in BOOLEAN
BY WaiterTypes DEF StartRequesting, StopRequesting, InitAt, Waiter

LEMMA GetDifferenceTypes ==
    ASSUME AskTypes, NEW w \in Waiter, w.queue \subseteq Numbered, NEW rest \in SUBSET Request,
           GetDifference(w, rest)
    PROVE  AskTypes'
<1>1. "account" \in Owners /\ w.good \in Nat
    BY DEF Owners, Waiter
<1>2. Asking("account", w.good) \in Request
    BY <1>1, AskingIs
<1>3. QED
    BY <1>1, <1>2, RequestingTypes DEF GetDifference, AskTypes

LEMMA GetChannelDifferenceTypes ==
    ASSUME AskTypes, NEW w \in Waiter, w.queue \subseteq Numbered, NEW rest \in SUBSET Request,
           NEW afterFail \in BOOLEAN,
           GetChannelDifference(w, rest, afterFail), UNCHANGED <<bySeq, seqTimer>>
    PROVE  AskTypes'
<1>1. "channel" \in Owners /\ w.good \in Nat
    BY DEF Owners, Waiter
<1>2. Asking("channel", w.good) \in Request
    BY <1>1, AskingIs
<1>3. QED
    BY <1>1, <1>2, RequestingTypes DEF GetChannelDifference, AskTypes

LEMMA SetSeqTypes ==
    ASSUME updSeq \in Nat, bySeq \subseteq Nat, seqTimer \in BOOLEAN, fedSeqs \subseteq Nat,
           NEW n \in Nat, NEW S \in SUBSET Nat, SetSeq(n, S)
    PROVE  updSeq' \in Nat /\ bySeq' \subseteq Nat /\ seqTimer' \in BOOLEAN /\ fedSeqs' \subseteq Nat
<1>1. CASE n \in {0, updSeq} /\ fedSeqs' = fedSeqs \cup S /\ UNCHANGED <<updSeq, bySeq, seqTimer>>
    BY <1>1
<1>2. ASSUME NEW k \in {n} \cup bySeq, updSeq' = k,
             fedSeqs' = fedSeqs \cup S \cup ((n + 1) .. k),
             bySeq' = {s \in bySeq : s > k}, seqTimer' = (bySeq' # {})
      PROVE  updSeq' \in Nat /\ bySeq' \subseteq Nat /\ seqTimer' \in BOOLEAN /\ fedSeqs' \subseteq Nat
    <2>1. k \in Nat /\ (n + 1) .. k \subseteq Nat
        OBVIOUS
    <2>2. seqTimer' \in BOOLEAN
        BY <1>2, Zenon
    <2>3. QED
        BY <1>2, <2>1, <2>2
<1>3. QED
    BY <1>1, <1>2 DEF SetSeq


\* A new request has no answer yet.
NewlyAsked == {Asking(o, n) : o \in Owners, n \in Nat}

LEMMA AnswersKept ==
    ASSUME AnswersOK, asked' \subseteq asked \cup NewlyAsked, UNCHANGED issued
    PROVE  AnswersOK'
<1>1. \A d \in NewlyAsked : ~Answered(d)
    BY AskingIs DEF NewlyAsked
<1>2. QED
    BY <1>1 DEF AnswersOK, Answered

LEMMA GetDifferenceAsks ==
    ASSUME NEW w \in Waiter, NEW rest, GetDifference(w, rest)
    PROVE  asked' \subseteq rest \cup NewlyAsked
BY DEF GetDifference, NewlyAsked, Owners, Waiter

LEMMA GetChannelDifferenceAsks ==
    ASSUME NEW w \in Waiter, NEW rest, NEW afterFail, GetChannelDifference(w, rest, afterFail)
    PROVE  asked' \subseteq rest \cup NewlyAsked
BY DEF GetChannelDifference, NewlyAsked, Owners, Waiter

LEMMA TypesAre ==
    ASSUME TypeInv
    PROVE  AskTypes /\ PtsTypes
BY DEF TypeInv, TypeOK, AskTypes, PtsTypes

LEMMA LetterIs ==
    ASSUME TypeInv, NEW p \in pushes
    PROVE  /\ p.owner \in Owners /\ Ev(p) \in Numbered
           /\ Ev(p).pts = p.pts /\ Ev(p).count = p.count
           /\ p.pts \in Nat /\ p.count \in Nat /\ p.count < p.pts /\ p.pts <= issued[p.owner]
<1>1. p \in Letter
    BY DEF TypeInv, TypeOK
<1>2. QED
    BY <1>1 DEF TypeInv, LettersOK, Letter, Ev, Numbered, Event

LEMMA AnswerIs ==
    ASSUME TypeInv, NEW d \in asked
    PROVE  /\ d.owner \in Owners /\ d.from \in Nat /\ d \in Request
           /\ Answered(d) => /\ d.answer \in Answer
                             /\ d.answer.pts \in Nat /\ d.answer.seq \in Nat
                             /\ d.answer.final \in BOOLEAN /\ d.answer.tooLong \in Nat
                             /\ d.answer.pts > 0 /\ d.answer.pts <= issued[d.owner]
<1>1. d \in Request
    BY DEF TypeInv, TypeOK
<1>2. d.owner \in Owners /\ d.from \in Nat /\ d.answer \in Answer \cup {NoAnswer, Failed}
    BY <1>1 DEF Request
<1>3. Answered(d) => d.answer \in Answer
    BY <1>2 DEF Answered
<1>4. QED
    BY <1>1, <1>2, <1>3 DEF TypeInv, AnswersOK, Answer

-----------------------------------------------------------------------------
(* Types: the server and the network.                                          *)

LEMMA SendTypes ==
    ASSUME TypeInv, NEW o \in Owners, NEW n \in Nat, NEW count \in Nat, NEW kind \in Kinds,
           Send(o, n, count, kind), count < n
    PROVE  pushes' \subseteq Letter /\ containers' \subseteq Nat /\
           \A p \in pushes' : p \in pushes \/ (p.pts = n /\ p.count = count /\ p.owner = o)
BY DEF Send, Letter, TypeInv, TypeOK

LEMMA ServerTypes ==
    ASSUME TypeInv, Server
    PROVE  TypeInv'
<1> USE DEF TypeInv
<1>1. ASSUME NEW o \in Owners, NEW count \in 1 .. 2, NEW kind \in {"push", "result", "affected"},
             Publish(o, count, kind)
      PROVE  TypeInv'
    <2> DEFINE n == issued[o] + count
    <2>1. issued[o] \in Nat /\ issued[o] > 0 /\ n \in Nat /\ count < n /\ kind \in Kinds
        BY DEF TypeOK, ServerOK, Kinds
    <2>2. /\ pushes' \subseteq Letter /\ containers' \subseteq Nat
          /\ \A p \in pushes' : p \in pushes \/ (p.pts = n /\ p.count = count /\ p.owner = o)
        BY <1>1, <2>1, SendTypes DEF Publish
    <2>3. /\ issued' = [issued EXCEPT ![o] = n]
          /\ ends' = [ends EXCEPT ![o] = @ \cup {n}]
          /\ UNCHANGED <<ptsVars, seqVars, seqs, failTimer, minTimer, shown, asked, mishaps>>
        BY <1>1 DEF Publish
    <2> HIDE DEF n
    <2>4. TypeOK' /\ PtsTypes'
        BY <2>1, <2>2, <2>3 DEF TypeOK, PtsTypes, ptsVars, seqVars
    <2>5. \A q \in Owners : issued'[q] \in Nat /\ issued[q] \in Nat /\ issued'[q] >= issued[q]
        BY <2>1, <2>3 DEF TypeOK, n
    <2>6. ServerOK'
        <3> SUFFICES ASSUME NEW q \in Owners
                     PROVE  issued'[q] > 0 /\ issued'[q] \in ends'[q] /\ ends'[q] \subseteq 1 .. issued'[q]
            BY DEF ServerOK
        <3>1. CASE q = o
            <4>1. issued'[q] = n /\ ends'[q] = ends[o] \cup {n}
                BY <3>1, <2>3 DEF TypeOK
            <4>2. ends[o] \subseteq 1 .. issued[o] /\ issued[o] < n
                BY <2>1 DEF ServerOK, n
            <4>3. QED
                BY <2>1, <4>1, <4>2
        <3>2. CASE q # o
            BY <3>2, <2>3 DEF TypeOK, ServerOK
        <3>3. QED
            BY <3>1, <3>2
    <2>7. LettersOK'
        <3> SUFFICES ASSUME NEW p \in pushes'
                     PROVE  p.count < p.pts /\ p.pts <= issued'[p.owner]
            BY DEF LettersOK
        <3>1. CASE p \in pushes
            BY <3>1, <2>5, LetterIs
        <3>2. CASE p.pts = n /\ p.count = count /\ p.owner = o
            BY <3>2, <2>1, <2>3 DEF TypeOK
        <3>3. QED
            BY <2>2, <3>1, <3>2
    <2>8. AnswersOK'
        <3> SUFFICES ASSUME NEW d \in asked, Answered(d)
                     PROVE  d.answer.pts > 0 /\ d.answer.pts <= issued'[d.owner]
            BY <2>3 DEF AnswersOK
        <3>1. QED
            BY <2>5, AnswerIs
    <2>9. QED
        BY <2>4, <2>6, <2>7, <2>8
<1>2. ASSUME NEW o \in Owners, NEW kind \in {"push", "affected", "tooLong"},
             Send(o, issued[o], 0, kind), mishaps' \in Nat,
             UNCHANGED <<ptsVars, seqVars, serverVars, failTimer, minTimer, shown, asked>>
      PROVE  TypeInv'
    <2>1. issued[o] \in Nat /\ issued[o] > 0 /\ kind \in Kinds
        BY DEF TypeOK, ServerOK, Kinds
    <2>2. /\ pushes' \subseteq Letter /\ containers' \subseteq Nat
          /\ \A p \in pushes' : p \in pushes \/ (p.pts = issued[o] /\ p.count = 0 /\ p.owner = o)
        BY <1>2, <2>1, SendTypes
    <2>3. TypeOK' /\ PtsTypes'
        BY <1>2, <2>2 DEF TypeOK, PtsTypes, ptsVars, seqVars, serverVars
    <2>4. LettersOK'
        BY <1>2, <2>1, <2>2 DEF LettersOK, serverVars
    <2>5. QED
        BY <1>2, <2>3, <2>4 DEF ServerOK, AnswersOK, Answered, serverVars
<1>3. ASSUME NEW o \in Owners, NEW kind \in {"push", "affected"}, TellPts(o, kind)
      PROVE  TypeInv'
    BY <1>2, <1>3 DEF TellPts, Mishap, TypeOK
<1>4. CASE TellTooLong
    <2>1. "channel" \in Owners /\ mishaps' \in Nat
        BY <1>4 DEF Owners, TellTooLong, TypeOK
    <2>2. QED
        BY <1>4, <1>2, <2>1 DEF TellTooLong
<1>5. CASE PublishSeq
    BY <1>5 DEF PublishSeq, TypeOK, PtsTypes, ServerOK, LettersOK, AnswersOK, Answered, ptsVars, seqVars
<1>6. CASE LosePush
    BY <1>6 DEF LosePush, TypeOK, PtsTypes, ServerOK, LettersOK, AnswersOK, Answered,
                ptsVars, seqVars, serverVars
<1>7. ASSUME NEW d \in asked, NEW a \in Answer \cup {Failed},
             a \in Answer => a.pts > 0 /\ a.pts <= issued[d.owner],
             asked' = (asked \ {d}) \cup {[d EXCEPT !.answer = a]}, mishaps' \in Nat,
             UNCHANGED <<ptsVars, seqVars, serverVars, failTimer, minTimer, shown, netVars>>
      PROVE  TypeInv'
    <2>1. d \in Request
        BY DEF TypeOK
    <2>2. /\ [d EXCEPT !.answer = a] \in Request
          /\ [d EXCEPT !.answer = a].answer = a /\ [d EXCEPT !.answer = a].owner = d.owner
        BY <2>1 DEF Request
    <2>3. TypeOK' /\ PtsTypes'
        BY <1>7, <2>2 DEF TypeOK, PtsTypes, ptsVars, seqVars, serverVars, netVars
    <2>4. AnswersOK'
        BY <1>7, <2>2 DEF AnswersOK, Answered, serverVars
    <2>5. QED
        BY <1>7, <2>3, <2>4 DEF ServerOK, LettersOK, serverVars, netVars
<1>8. ASSUME NEW d \in asked, AnswerRequest(d)
      PROVE  TypeInv'
    <2>1. PICK a \in Answers(d) : asked' = (asked \ {d}) \cup {[d EXCEPT !.answer = a]}
        BY <1>8 DEF AnswerRequest
    <2>2. /\ d.owner \in Owners /\ issued[d.owner] \in Nat /\ issued[d.owner] > 0
          /\ ends[d.owner] \subseteq 1 .. issued[d.owner]
          /\ issued["channel"] \in Nat /\ seqs \in Nat
        BY AnswerIs DEF TypeOK, ServerOK, Owners
    <2>3. a \in Answer /\ a.pts > 0 /\ a.pts <= issued[d.owner]
        <3> DEFINE now == issued[d.owner]
                   tooLongs == IF d.owner = "account" THEN {0, issued["channel"]} ELSE {0}
        <3>1. tooLongs \subseteq Nat
            BY <2>2
        <3>2. \/ a \in [pts : {now}, seq : {seqs}, final : {TRUE}, tooLong : tooLongs]
              \/ a \in [pts : {n \in ends[d.owner] : d.from < n /\ n < now}, seq : {seqs},
                        final : {FALSE}, tooLong : {0}]
            BY <2>1 DEF Answers
        <3>3. CASE a \in [pts : {now}, seq : {seqs}, final : {TRUE}, tooLong : tooLongs]
            <4> HIDE DEF tooLongs
            <4>1. a.pts = issued[d.owner] /\ a \in Answer
                BY <2>2, <3>1, <3>3 DEF Answer
            <4>2. QED
                BY <2>2, <4>1
        <3>4. CASE a \in [pts : {n \in ends[d.owner] : d.from < n /\ n < now}, seq : {seqs},
                          final : {FALSE}, tooLong : {0}]
            <4>1. a.pts \in ends[d.owner] /\ a.pts \in Nat
                BY <2>2, <3>4
            <4>2. a \in Answer
                <5>1. a \in [pts : Nat, seq : {seqs}, final : {FALSE}, tooLong : {0}]
                    BY <3>4, <4>1
                <5>2. {seqs} \subseteq Nat /\ {FALSE} \subseteq BOOLEAN /\ {0} \subseteq Nat
                    BY <2>2
                <5>3. QED
                    BY <5>1, <5>2 DEF Answer
            <4>3. QED
                BY <2>2, <4>1, <4>2
        <3>5. QED
            BY <3>2, <3>3, <3>4
    <2>4. mishaps' \in Nat
        BY <1>8 DEF AnswerRequest, TypeOK
    <2>5. UNCHANGED <<ptsVars, seqVars, serverVars, failTimer, minTimer, shown, netVars>>
        BY <1>8 DEF AnswerRequest
    <2>6. QED
        BY <1>7, <2>1, <2>3, <2>4, <2>5
<1>9. ASSUME NEW d \in asked, FailRequest(d)
      PROVE  TypeInv'
    <2>1. Failed \notin Answer
        BY DEF Failed, Answer
    <2>2. mishaps' \in Nat
        BY <1>9 DEF FailRequest, Mishap, TypeOK
    <2>3. QED
        BY <1>9, <1>7, <2>1, <2>2 DEF FailRequest
<1>10. QED
    BY <1>1, <1>3, <1>4, <1>5, <1>6, <1>8, <1>9 DEF Server


-----------------------------------------------------------------------------
(* Types: what arrives.                                                        *)

\* A handler that counts a letter and changes nothing else.
LEMMA CountingTypes ==
    ASSUME TypeInv, PtsTypes', pushes' \subseteq pushes, containers' \subseteq containers,
           UNCHANGED <<seqVars, serverVars, failTimer, minTimer, shown, asked, mishaps>>
    PROVE  TypeInv'
<1>1. TypeOK'
    BY DEF TypeInv, TypeOK, PtsTypes, seqVars, serverVars
<1>2. LettersOK' /\ ServerOK' /\ AnswersOK'
    BY DEF TypeInv, LettersOK, ServerOK, AnswersOK, Answered, serverVars
<1>3. QED
    BY <1>1, <1>2 DEF TypeInv

\* A handler that may ask for a difference.
LEMMA AskingTypes ==
    ASSUME TypeInv, AskTypes', asked' \subseteq asked \cup NewlyAsked,
           pushes' \subseteq pushes, containers' \subseteq containers,
           applied' \in [Owners -> SUBSET Nat], counted' \in [Owners -> SUBSET Nat],
           updSeq' \in Nat, fedSeqs' \subseteq Nat,
           minTimer' \in BOOLEAN, shown' \in BOOLEAN, mishaps' \in Nat,
           UNCHANGED serverVars
    PROVE  TypeInv'
<1>1. TypeOK' /\ PtsTypes'
    BY DEF TypeInv, TypeOK, PtsTypes, AskTypes, serverVars
<1>2. LettersOK' /\ ServerOK'
    BY DEF TypeInv, LettersOK, ServerOK, serverVars
<1>3. AnswersOK'
    BY AnswersKept DEF TypeInv, serverVars
<1>4. QED
    BY <1>1, <1>2, <1>3 DEF TypeInv

LEMMA AccountAsks ==
    ASSUME TypeInv, GetDifference(waiter["account"], asked)
    PROVE  AskTypes' /\ asked' \subseteq asked \cup NewlyAsked
<1>1. /\ waiter["account"] \in Waiter /\ waiter["account"].queue \subseteq Numbered
      /\ asked \in SUBSET Request /\ AskTypes
    BY TypesAre DEF PtsTypes, AskTypes, Owners
<1>2. QED
    BY <1>1, GetDifferenceTypes, GetDifferenceAsks

LEMMA ChannelAsks ==
    ASSUME TypeInv, NEW afterFail \in BOOLEAN, UNCHANGED <<bySeq, seqTimer>>,
           GetChannelDifference(waiter["channel"], asked, afterFail)
    PROVE  AskTypes' /\ asked' \subseteq asked \cup NewlyAsked
<1>1. /\ waiter["channel"] \in Waiter /\ waiter["channel"].queue \subseteq Numbered
      /\ asked \in SUBSET Request /\ AskTypes
    BY TypesAre DEF PtsTypes, AskTypes, Owners
<1>2. QED
    BY <1>1, GetChannelDifferenceTypes, GetChannelDifferenceAsks

LEMMA LetterTypes ==
    ASSUME TypeInv, NEW p \in pushes, ReceiveLetter(p) \/ DropPush(p)
    PROVE  TypeInv'
<1>1. p.owner \in Owners /\ Ev(p) \in Numbered /\ PtsTypes /\ AskTypes
    BY LetterIs, TypesAre
<1>2. Take(p) => pushes' \subseteq pushes /\ containers' \subseteq containers
    BY DEF Take
<1>3. UNCHANGED ptsVars => PtsTypes'
    BY <1>1 DEF PtsTypes, ptsVars
<1>4. CASE DropPush(p) \/ DropChannelUpdate(p)
    BY <1>4, <1>2, <1>3, CountingTypes DEF DropPush, DropChannelUpdate
<1>5. CASE FeedAccountUpdate(p)
    BY <1>5, <1>1, <1>2, ApplyTypes, CountingTypes DEF FeedAccountUpdate
<1>6. CASE FeedChannelUpdate(p)
    BY <1>6, <1>1, <1>2, ApplyTypes, CountingTypes DEF FeedChannelUpdate
<1>7. CASE ReceiveAffected(p)
    BY <1>7, <1>1, <1>2, ApplyTypes, CountingTypes DEF ReceiveAffected
<1>8. CASE FeedAccountNotLoaded(p)
    <2>1. AskTypes' /\ asked' \subseteq asked \cup NewlyAsked
        BY <1>8, AccountAsks DEF FeedAccountNotLoaded
    <2>2. mishaps' \in Nat
        BY <1>8 DEF FeedAccountNotLoaded, Mishap, TypeInv, TypeOK
    <2>3. QED
        BY <1>8, <1>2, <2>1, <2>2, AskingTypes DEF FeedAccountNotLoaded, TypeInv, TypeOK
<1>9. CASE FeedChannelNotLoaded(p)
    <2>1. mishaps' \in Nat
        BY <1>9 DEF FeedChannelNotLoaded, Mishap, TypeInv, TypeOK
    <2>2. AskTypes'
        BY <1>9, <1>1 DEF FeedChannelNotLoaded, AskTypes, ptsVars, seqVars
    <2>3. QED
        BY <1>9, <1>2, <2>1, <2>2, AskingTypes
           DEF FeedChannelNotLoaded, TypeInv, TypeOK, ptsVars, seqVars
<1>10. CASE FeedChannelTooLong(p)
    <2>1. UNCHANGED <<seqVars, serverVars, minTimer, shown, mishaps, applied, counted>> /\ Take(p)
        BY <1>10 DEF FeedChannelTooLong
    <2>2. AskTypes' /\ asked' \subseteq asked \cup NewlyAsked
        <3>1. CASE UNCHANGED <<waiter, ptsTimer, failTimer, asked>>
            BY <3>1, <2>1, <1>1 DEF AskTypes, seqVars
        <3>2. CASE GetChannelDifference(waiter["channel"], asked, FALSE)
            BY <3>2, <2>1, ChannelAsks DEF seqVars
        <3>3. QED
            BY <1>10, <3>1, <3>2 DEF FeedChannelTooLong
    <2>3. QED
        BY <1>2, <2>1, <2>2, AskingTypes DEF seqVars, TypeInv, TypeOK
<1>11. QED
    BY <1>4, <1>5, <1>6, <1>7, <1>8, <1>9, <1>10 DEF ReceiveLetter

LEMMA ContainerTypes ==
    ASSUME TypeInv, NEW n \in containers, ReceiveContainer(n)
    PROVE  TypeInv'
<1>1. n \in Nat /\ {n} \in SUBSET Nat
    BY DEF TypeInv, TypeOK
<1>2. updSeq' \in Nat /\ bySeq' \subseteq Nat /\ seqTimer' \in BOOLEAN /\ fedSeqs' \subseteq Nat
    <2>1. CASE UNCHANGED seqVars
        BY <2>1 DEF TypeInv, TypeOK, seqVars
    <2>2. CASE ContainerHeld(n)
        BY <2>2, <1>1 DEF ContainerHeld, TypeInv, TypeOK
    <2>3. CASE ContainerFed(n)
        BY <2>3, <1>1, SetSeqTypes DEF ContainerFed, TypeInv, TypeOK
    <2>4. QED
        BY <2>1, <2>2, <2>3 DEF ReceiveContainer, ContainerStale
<1>3. UNCHANGED <<ptsVars, serverVars, failTimer, minTimer, shown, asked, mishaps>>
    BY DEF ReceiveContainer
<1>4. pushes' \subseteq pushes /\ containers' \subseteq containers
    BY DEF ReceiveContainer, TakeContainer
<1>5. AskTypes'
    BY <1>2, <1>3, TypesAre DEF AskTypes, ptsVars
<1>6. QED
    BY <1>2, <1>3, <1>4, <1>5, AskingTypes DEF ptsVars, TypeInv, TypeOK

LEMMA NewSessionTypes ==
    ASSUME TypeInv, NewSession
    PROVE  TypeInv'
<1>1. AskTypes' /\ asked' \subseteq asked \cup NewlyAsked
    BY AccountAsks DEF NewSession
<1>2. mishaps' \in Nat /\ updSeq' \in Nat
    BY DEF NewSession, Mishap, TypeInv, TypeOK
<1>3. QED
    BY <1>1, <1>2, AskingTypes DEF NewSession, TypeInv, TypeOK, netVars


-----------------------------------------------------------------------------
(* Types: the answers, the timers and the window.                              *)

LEMMA BroughtTypes ==
    ASSUME TypeInv, NEW d \in asked, Answered(d), ShowBrought(d)
    PROVE  applied' \in [Owners -> SUBSET Nat] /\ counted' \in [Owners -> SUBSET Nat]
<1>1. d.owner \in Owners /\ d.from \in Nat /\ d.answer.pts \in Nat
    BY AnswerIs
<1>2. Brought(d) \subseteq Nat /\ 1 .. d.answer.pts \subseteq Nat
    BY <1>1 DEF Brought
<1>3. QED
    BY <1>1, <1>2 DEF ShowBrought, TypeInv, TypeOK

LEMMA SlicePtsTypes ==
    ASSUME TypeInv, NEW d \in asked, Answered(d)
    PROVE  /\ asked \ {d} \in SUBSET Request
           /\ \A o \in Owners :
                /\ StopRequesting(InitAt(waiter[o], d.answer.pts)) \in Waiter
                /\ StopRequesting(InitAt(waiter[o], d.answer.pts)).queue \subseteq Numbered
<1>1. \A o \in Owners : waiter[o] \in Waiter /\ waiter[o].queue \subseteq Numbered
    BY TypesAre DEF PtsTypes
<1>2. d.answer.pts \in Nat
    BY AnswerIs
<1>3. asked \subseteq Request
    BY DEF TypeInv, TypeOK
<1>4. QED
    BY <1>1, <1>2, <1>3, RequestingTypes

LEMMA GotDifferenceStepTypes ==
    ASSUME TypeInv, NEW d \in asked, GotDifference(d)
    PROVE  TypeInv'
<1> DEFINE w == StopRequesting(InitAt(waiter["account"], d.answer.pts))
           c == IF AsksChannel(d) THEN StartRequesting(waiter["channel"]) ELSE waiter["channel"]
<1>1. /\ Answered(d) /\ "account" \in Owners /\ "channel" \in Owners /\ AskTypes
      /\ waiter["channel"] \in Waiter /\ waiter["channel"].queue \subseteq Numbered
    BY TypesAre DEF GotDifference, Owners, PtsTypes
<1>2. w \in Waiter /\ w.queue \subseteq Numbered /\ c \in Waiter /\ c.queue \subseteq Numbered
    BY <1>1, SlicePtsTypes, RequestingTypes
<1>3. waiter' = [waiter EXCEPT !["account"] = w, !["channel"] = c]
    BY <1>1 DEF GotDifference, AskTypes
<1>4. /\ Asking("channel", waiter["channel"].good) \in Request
      /\ waiter["channel"].good \in Nat
    BY <1>1, AskingIs, RequestingTypes
<1>5. asked' \subseteq asked \cup NewlyAsked /\ asked' \subseteq Request
    BY <1>1, <1>4 DEF GotDifference, NewlyAsked, AskTypes
<1>6. d.answer.seq \in Nat /\ 1 .. d.answer.seq \in SUBSET Nat
    BY <1>1, AnswerIs
<1>7. updSeq' \in Nat /\ bySeq' \subseteq Nat /\ seqTimer' \in BOOLEAN /\ fedSeqs' \subseteq Nat
    BY <1>6, SetSeqTypes DEF GotDifference, TypeInv, TypeOK
<1>8. ptsTimer' \in [Owners -> BOOLEAN] /\ failTimer' \in [Owners -> BOOLEAN]
    BY <1>1 DEF GotDifference, AskTypes, ChannelChanged, AsksChannel
<1> HIDE DEF w, c
<1>9. waiter' \in [Owners -> Waiter] /\ \A o \in Owners : waiter'[o].queue \subseteq Numbered
    BY <1>1, <1>2, <1>3 DEF AskTypes
<1>10. AskTypes'
    BY <1>5, <1>7, <1>8, <1>9 DEF AskTypes
<1>11. applied' \in [Owners -> SUBSET Nat] /\ counted' \in [Owners -> SUBSET Nat]
    BY <1>1, BroughtTypes DEF GotDifference
<1>12. UNCHANGED <<serverVars, minTimer, shown, netVars, mishaps>>
    BY DEF GotDifference
<1>13. QED
    BY <1>5, <1>7, <1>10, <1>11, <1>12, AskingTypes DEF netVars, TypeInv, TypeOK

LEMMA GotSliceTypes ==
    ASSUME TypeInv, NEW d \in asked, GotDifferenceSlice(d) \/ GotChannelDifferenceSlice(d)
    PROVE  TypeInv'
<1>1. Answered(d) /\ "account" \in Owners /\ "channel" \in Owners /\ AskTypes
    BY TypesAre DEF GotDifferenceSlice, GotChannelDifferenceSlice, Owners
<1>2. applied' \in [Owners -> SUBSET Nat] /\ counted' \in [Owners -> SUBSET Nat]
    BY <1>1, BroughtTypes DEF GotDifferenceSlice, GotChannelDifferenceSlice
<1>3. updSeq \in Nat /\ fedSeqs \subseteq Nat /\ d.answer.seq \in Nat /\ 1 .. d.answer.seq \subseteq Nat
    BY <1>1, AnswerIs DEF TypeInv, TypeOK
<1>4. updSeq' \in Nat /\ fedSeqs' \subseteq Nat
    BY <1>3 DEF GotDifferenceSlice, GotChannelDifferenceSlice, seqVars
<1>5. UNCHANGED <<serverVars, minTimer, shown, netVars, mishaps>>
    BY DEF GotDifferenceSlice, GotChannelDifferenceSlice
<1>6. AskTypes' /\ asked' \subseteq asked \cup NewlyAsked
    <2>1. CASE GotDifferenceSlice(d)
        <3> DEFINE w == StopRequesting(InitAt(waiter["account"], d.answer.pts))
        <3>1. w \in Waiter /\ w.queue \subseteq Numbered /\ asked \ {d} \in SUBSET Request
            BY <1>1, SlicePtsTypes
        <3>2. GetDifference(w, asked \ {d})
            BY <2>1 DEF GotDifferenceSlice
        <3> HIDE DEF w
        <3>3. AskTypes'
            BY <1>1, <3>1, <3>2, GetDifferenceTypes
        <3>4. asked' \subseteq (asked \ {d}) \cup NewlyAsked
            BY <3>1, <3>2, GetDifferenceAsks
        <3>5. QED
            BY <3>3, <3>4
    <2>2. CASE GotChannelDifferenceSlice(d)
        <3> DEFINE w == StopRequesting(InitAt(waiter["channel"], d.answer.pts))
        <3>1. w \in Waiter /\ w.queue \subseteq Numbered /\ asked \ {d} \in SUBSET Request
            BY <1>1, SlicePtsTypes
        <3>2. GetChannelDifference(w, asked \ {d}, FALSE) /\ UNCHANGED <<bySeq, seqTimer>>
            BY <2>2 DEF GotChannelDifferenceSlice, seqVars
        <3> HIDE DEF w
        <3>3. AskTypes'
            BY <1>1, <3>1, <3>2, GetChannelDifferenceTypes
        <3>4. asked' \subseteq (asked \ {d}) \cup NewlyAsked
            BY <3>1, <3>2, GetChannelDifferenceAsks
        <3>5. QED
            BY <3>3, <3>4
    <2>3. QED
        BY <2>1, <2>2
<1>7. QED
    BY <1>2, <1>4, <1>5, <1>6, AskingTypes DEF netVars, TypeInv, TypeOK

LEMMA PollingTypes ==
    ASSUME NEW w \in Waiter, w.queue \subseteq Numbered, NEW b \in BOOLEAN
    PROVE  [w EXCEPT !.polling = b] \in Waiter /\ [w EXCEPT !.polling = b].queue \subseteq Numbered
BY DEF Waiter

LEMMA GotChannelDifferenceStepTypes ==
    ASSUME TypeInv, NEW d \in asked, GotChannelDifference(d)
    PROVE  TypeInv'
<1> DEFINE v == StopRequesting(InitAt(waiter["channel"], d.answer.pts))
           w == [v EXCEPT !.polling = @ \/ shown]
<1>1. Answered(d) /\ "channel" \in Owners /\ AskTypes
    BY TypesAre DEF GotChannelDifference, Owners
<1>2. v \in Waiter /\ v.queue \subseteq Numbered
    BY <1>1, SlicePtsTypes
<1>3. waiter' = [waiter EXCEPT !["channel"] = w]
    BY DEF GotChannelDifference
<1> HIDE DEF v
<1>4. (v.polling \/ shown) \in BOOLEAN
    OBVIOUS
<1>5. w \in Waiter /\ w.queue \subseteq Numbered
    BY <1>2, <1>4, PollingTypes
<1> HIDE DEF w
<1>6. AskTypes'
    BY <1>1, <1>3, <1>5 DEF AskTypes, GotChannelDifference, seqVars
<1>7. applied' \in [Owners -> SUBSET Nat] /\ counted' \in [Owners -> SUBSET Nat]
    BY <1>1, BroughtTypes DEF GotChannelDifference
<1>8. UNCHANGED <<seqVars, serverVars, failTimer, minTimer, shown, netVars, mishaps>>
      /\ asked' \subseteq asked
    BY DEF GotChannelDifference
<1>9. QED
    BY <1>6, <1>7, <1>8, AskingTypes DEF seqVars, netVars, TypeInv, TypeOK

LEMMA AnswerTypes ==
    ASSUME TypeInv, NEW d \in asked, GotAnswer(d)
    PROVE  TypeInv'
<1>1. CASE DifferenceFailed(d)
    <2>1. AskTypes' /\ asked' \subseteq asked
        BY <1>1, AnswerIs, TypesAre DEF DifferenceFailed, AskTypes, ptsVars, seqVars
    <2>2. QED
        BY <1>1, <2>1, AskingTypes DEF DifferenceFailed, ptsVars, seqVars, netVars, TypeInv, TypeOK
<1>2. QED
    BY <1>1, GotDifferenceStepTypes, GotSliceTypes, GotChannelDifferenceStepTypes DEF GotAnswer

LEMMA TimerTypes ==
    ASSUME TypeInv, Timers
    PROVE  TypeInv'
<1>1. /\ AskTypes /\ "account" \in Owners /\ asked \in SUBSET Request
      /\ waiter["account"] \in Waiter /\ waiter["account"].queue \subseteq Numbered
    BY TypesAre DEF Owners, AskTypes
<1>2. /\ StopRequesting(waiter["account"]) \in Waiter
      /\ StopRequesting(waiter["account"]).queue \subseteq Numbered
    BY <1>1, RequestingTypes
<1>3. AskTypes' /\ asked' \subseteq asked \cup NewlyAsked
    <2>1. CASE GetDifference(waiter["account"], asked)
        BY <2>1, AccountAsks
    <2>2. CASE GetDifference(StopRequesting(waiter["account"]), asked)
        BY <2>2, <1>1, <1>2, GetDifferenceTypes, GetDifferenceAsks
    <2>3. ASSUME NEW afterFail \in BOOLEAN, UNCHANGED <<bySeq, seqTimer>>,
                 GetChannelDifference(waiter["channel"], asked, afterFail)
          PROVE  AskTypes' /\ asked' \subseteq asked \cup NewlyAsked
        BY <2>3, ChannelAsks
    <2>4. CASE SeqTimerFires
        <3>1. GetDifference(waiter["account"], asked)
            BY <2>4 DEF SeqTimerFires
        <3>2. QED
            BY <3>1, <2>1
    <2>5. CASE MinTimerFires
        BY <2>5, <2>1 DEF MinTimerFires
    <2>6. ASSUME NEW o \in Owners, PtsTimerFires(o)
          PROVE  AskTypes' /\ asked' \subseteq asked \cup NewlyAsked
        BY <2>6, <2>1, <2>3 DEF PtsTimerFires
    <2>7. ASSUME NEW o \in Owners, FailTimerFires(o)
          PROVE  AskTypes' /\ asked' \subseteq asked \cup NewlyAsked
        BY <2>7, <2>2, <2>3 DEF FailTimerFires
    <2>8. QED
        BY <2>4, <2>5, <2>6, <2>7 DEF Timers
<1>4. minTimer' \in BOOLEAN
    BY DEF Timers, PtsTimerFires, FailTimerFires, SeqTimerFires, MinTimerFires, TypeInv, TypeOK
<1>5. UNCHANGED <<applied, counted, updSeq, fedSeqs, serverVars, shown, netVars, mishaps>>
    BY DEF Timers, PtsTimerFires, FailTimerFires, SeqTimerFires, MinTimerFires
<1>6. QED
    BY <1>3, <1>4, <1>5, AskingTypes DEF netVars, TypeInv, TypeOK

LEMMA WindowTypes ==
    ASSUME TypeInv, Window
    PROVE  TypeInv'
<1>1. /\ AskTypes /\ "channel" \in Owners
      /\ waiter["channel"] \in Waiter /\ waiter["channel"].queue \subseteq Numbered
      /\ waiter["channel"].waiting \in BOOLEAN
    BY TypesAre DEF Owners, AskTypes, Waiter
<1>2. \A b \in BOOLEAN : /\ [waiter["channel"] EXCEPT !.polling = b] \in Waiter
                         /\ [waiter["channel"] EXCEPT !.polling = b].queue \subseteq Numbered
    BY <1>1, PollingTypes
<1>3. AskTypes'
    <2>1. CASE ShowChannel
        <3>1. waiter' = [waiter EXCEPT !["channel"] = [waiter["channel"] EXCEPT !.polling = TRUE]]
            BY <2>1, <1>1 DEF ShowChannel, AskTypes
        <3>2. QED
            BY <2>1, <1>1, <1>2, <3>1 DEF ShowChannel, AskTypes, seqVars
    <2>2. CASE HideChannel
        BY <2>2, <1>1 DEF HideChannel, AskTypes, ptsVars, seqVars
    <2>3. CASE LeaveChannel
        <3>1. waiter' = [waiter EXCEPT !["channel"] = [waiter["channel"] EXCEPT !.polling = FALSE]]
            BY <2>3, <1>1 DEF LeaveChannel, AskTypes
        <3>2. QED
            BY <2>3, <1>1, <1>2, <3>1 DEF LeaveChannel, AskTypes, seqVars
    <2>4. QED
        BY <2>1, <2>2, <2>3 DEF Window
<1>4. /\ UNCHANGED <<applied, counted, seqVars, serverVars, minTimer, netVars, asked, mishaps>>
      /\ shown' \in BOOLEAN
    BY DEF Window, ShowChannel, HideChannel, LeaveChannel, ptsVars, TypeInv, TypeOK
<1>5. QED
    BY <1>3, <1>4, AskingTypes DEF netVars, seqVars, TypeInv, TypeOK

LEMMA TypeStep ==
    ASSUME TypeInv, [Next]_vars
    PROVE  TypeInv'
<1>1. CASE Receive
    BY <1>1, LetterTypes, ContainerTypes, NewSessionTypes DEF Receive
<1>2. CASE UNCHANGED vars
    BY <1>2 DEF vars, ptsVars, seqVars, serverVars, netVars, TypeInv, TypeOK, PtsTypes,
                ServerOK, LettersOK, AnswersOK, Answered
<1>3. QED
    BY <1>1, <1>2, ServerTypes, AnswerTypes, TimerTypes, WindowTypes DEF Next

LEMMA TypeInit ==
    ASSUME Init
    PROVE  TypeInv
<1>1. \A o \in Owners : /\ waiter[o] \in Waiter /\ waiter[o].queue \subseteq Numbered
                        /\ waiter[o].good \in Nat
    <2>1. NewWaiter.queue = {}
        BY DEF NewWaiter
    <2>2. NewWaiter \in Waiter /\ NewWaiter.queue \subseteq Numbered
        BY <2>1, NewWaiterType
    <2>3. /\ InitAt(NewWaiter, 1) \in Waiter /\ InitAt(NewWaiter, 1).queue \subseteq Numbered
          /\ StartRequesting(NewWaiter) \in Waiter
          /\ StartRequesting(NewWaiter).queue \subseteq Numbered
        BY <2>2, RequestingTypes
    <2>4. \A w \in Waiter : w.good \in Nat
        BY DEF Waiter
    <2>5. waiter \in [Owners -> {StartRequesting(NewWaiter), NewWaiter, InitAt(NewWaiter, 1)}]
        BY DEF Init
    <2> HIDE DEF Init
    <2>6. QED
        BY <2>2, <2>3, <2>4, <2>5
<1>2. waiter \in [Owners -> Waiter]
    BY <1>1 DEF Init
<1>3. \A o \in Owners : 1 .. waiter[o].good \subseteq Nat
    BY <1>1
<1>4. asked \subseteq Request /\ \A d \in asked : ~Answered(d)
    BY AskingIs DEF Init, Owners
<1>5. PtsTypes
    BY <1>1, <1>2, <1>3 DEF Init, PtsTypes
<1>6. TypeOK
    <2>1. /\ minTimer \in BOOLEAN /\ seqTimer \in BOOLEAN /\ shown \in BOOLEAN
          /\ updSeq \in Nat /\ bySeq \subseteq Nat /\ seqs \in Nat /\ mishaps \in Nat
          /\ pushes \subseteq Letter /\ containers \subseteq Nat /\ fedSeqs \subseteq Nat
        BY DEF Init
    <2>2. failTimer \in [Owners -> BOOLEAN] /\ issued \in [Owners -> Nat]
        BY DEF Init
    <2>3. ends \in [Owners -> SUBSET Nat]
        BY DEF Init
    <2>4. QED
        BY <1>4, <1>5, <2>1, <2>2, <2>3 DEF TypeOK, PtsTypes
<1>7. ServerOK /\ LettersOK /\ AnswersOK
    BY <1>4 DEF Init, ServerOK, LettersOK, AnswersOK
<1>8. QED
    BY <1>5, <1>6, <1>7 DEF TypeInv

LEMMA TypesHold == Spec => []TypeInv
<1>1. Init => TypeInv
    BY TypeInit
<1>2. TypeInv /\ [Next]_vars => TypeInv'
    BY TypeStep
<1>3. QED
    BY <1>1, <1>2, PTL DEF Spec

\* Whatever the sequences, the faults and the timers do, each member that the
\* handlers of MainWidget and of PtsWaiter write keeps a value of its type.
THEOREM TypeCorrect == Spec => []TypeOK
<1>1. TypeInv => TypeOK
    BY DEF TypeInv
<1>2. QED
    BY <1>1, TypesHold, PTL

-----------------------------------------------------------------------------
(* What a step does to one sequence: nothing that its numbers notice, the      *)
(* counting of one update, or a new start from an answer.                      *)

Idle(o) ==
    /\ waiter'[o].good = waiter[o].good /\ waiter'[o].last = waiter[o].last
    /\ waiter'[o].count = waiter[o].count
    /\ applied'[o] = applied[o] /\ counted'[o] = counted[o]
    /\ \/ /\ waiter'[o].queue = waiter[o].queue /\ waiter'[o].waiting = waiter[o].waiting
          /\ waiter'[o].requesting = waiter[o].requesting
       \/ waiter'[o].queue = {} /\ waiter'[o].requesting

Met(o) ==
    \E p \in pushes : /\ p.owner = o /\ pushes' = pushes \ {p} /\ p.kind # "tooLong"
                      /\ \/ ApplyUpdate(o, Ev(p))
                         \/ p.kind = "affected" /\ CountAffected(o, Ev(p))

Renewed(o) ==
    \E d \in asked :
        /\ d.owner = o /\ Answered(d)
        /\ waiter'[o].good = d.answer.pts /\ waiter'[o].last = d.answer.pts
        /\ waiter'[o].count = d.answer.pts /\ waiter'[o].queue = {}
        /\ applied'[o] = applied[o] \cup Brought(d)
        /\ counted'[o] = 1 .. d.answer.pts

LEMMA WaiterFields ==
    ASSUME NEW w \in Waiter
    PROVE  /\ StartRequesting(w).good = w.good /\ StartRequesting(w).last = w.last
           /\ StartRequesting(w).count = w.count /\ StartRequesting(w).queue = {}
           /\ StartRequesting(w).requesting
           /\ StopRequesting(w).good = w.good /\ StopRequesting(w).last = w.last
           /\ StopRequesting(w).count = w.count /\ StopRequesting(w).queue = w.queue
           /\ ~StopRequesting(w).requesting
BY DEF Waiter, StartRequesting, StopRequesting

LEMMA InitFields ==
    ASSUME NEW w \in Waiter, NEW n
    PROVE  /\ InitAt(w, n).good = n /\ InitAt(w, n).last = n /\ InitAt(w, n).count = n
           /\ InitAt(w, n).queue = {}
BY DEF Waiter, InitAt

LEMMA PollingFields ==
    ASSUME NEW w \in Waiter, NEW b
    PROVE  LET v == [w EXCEPT !.polling = b] IN
           /\ v.good = w.good /\ v.last = w.last /\ v.count = w.count /\ v.queue = w.queue
           /\ v.waiting = w.waiting /\ v.requesting = w.requesting
BY DEF Waiter

LEMMA StillIdle ==
    ASSUME NEW o \in Owners, waiter'[o] = waiter[o], UNCHANGED <<applied, counted>>
    PROVE  Idle(o)
BY DEF Idle

LEMMA AskedIdle ==
    ASSUME NEW o \in Owners, waiter[o] \in Waiter, waiter'[o] = StartRequesting(waiter[o]),
           applied'[o] = applied[o], counted'[o] = counted[o]
    PROVE  Idle(o)
<1>1. /\ waiter'[o].good = waiter[o].good /\ waiter'[o].last = waiter[o].last
      /\ waiter'[o].count = waiter[o].count
      /\ waiter'[o].queue = {} /\ waiter'[o].requesting
    BY WaiterFields
<1>2. QED
    BY <1>1 DEF Idle

LEMMA AccountAskIdles ==
    ASSUME TypeInv, NEW w \in {waiter["account"], StopRequesting(waiter["account"])}, NEW rest,
           GetDifference(w, rest), UNCHANGED <<applied, counted>>, NEW o \in Owners
    PROVE  Idle(o)
<1>1. /\ waiter["account"] \in Waiter /\ w \in Waiter /\ waiter \in [Owners -> Waiter]
      /\ "account" \in Owners
    BY RequestingTypes, TypesAre DEF PtsTypes, Owners
<1>2. CASE o = "account" /\ w.requesting /\ waiter' = [waiter EXCEPT !["account"] = w]
    <2>1. w = waiter["account"]
        BY <1>1, <1>2, WaiterFields
    <2>2. QED
        BY <1>1, <1>2, <2>1, StillIdle
<1>3. CASE o = "account" /\ waiter' = [waiter EXCEPT !["account"] = StartRequesting(w)]
    <2>1. waiter'[o] = StartRequesting(w)
        BY <1>1, <1>3
    <2>2. w.good = waiter[o].good /\ w.last = waiter[o].last /\ w.count = waiter[o].count
        BY <1>1, <1>3, WaiterFields
    <2>3. /\ waiter'[o].good = w.good /\ waiter'[o].last = w.last /\ waiter'[o].count = w.count
          /\ waiter'[o].queue = {} /\ waiter'[o].requesting
        BY <1>1, <2>1, WaiterFields
    <2>4. QED
        BY <2>2, <2>3 DEF Idle
<1>4. CASE o # "account"
    BY <1>1, <1>4, StillIdle DEF GetDifference
<1>5. QED
    BY <1>2, <1>3, <1>4 DEF GetDifference

LEMMA ChannelAskIdles ==
    ASSUME TypeInv, NEW rest, NEW afterFail,
           GetChannelDifference(waiter["channel"], rest, afterFail),
           UNCHANGED <<applied, counted>>, NEW o \in Owners
    PROVE  Idle(o)
<1>1. waiter["channel"] \in Waiter /\ waiter \in [Owners -> Waiter] /\ "channel" \in Owners
    BY TypesAre DEF PtsTypes, Owners
<1>2. CASE waiter'[o] = waiter[o]
    BY <1>2, StillIdle
<1>3. CASE o = "channel" /\ waiter'[o] = StartRequesting(waiter[o])
    BY <1>1, <1>3, AskedIdle
<1>4. QED
    BY <1>1, <1>2, <1>3 DEF GetChannelDifference

LEMMA LetterTurns ==
    ASSUME TypeInv, NEW p \in pushes, ReceiveLetter(p) \/ DropPush(p), NEW o \in Owners
    PROVE  Idle(o) \/ Met(o)
<1>1. UNCHANGED ptsVars => Idle(o)
    BY StillIdle DEF ptsVars
<1>2. CASE DropPush(p) \/ DropChannelUpdate(p) \/ FeedChannelNotLoaded(p)
    BY <1>1, <1>2 DEF DropPush, DropChannelUpdate, FeedChannelNotLoaded
<1>3. ASSUME NEW q \in Owners, p.owner = q, Take(p), p.kind # "tooLong",
             ApplyUpdate(q, Ev(p)) \/ (p.kind = "affected" /\ CountAffected(q, Ev(p)))
      PROVE  Idle(o) \/ Met(o)
    <2>1. CASE o = q
        BY <1>3, <2>1 DEF Met, Take
    <2>2. CASE o # q
        <3>1. waiter \in [Owners -> Waiter] /\ applied \in [Owners -> SUBSET Nat]
              /\ counted \in [Owners -> SUBSET Nat]
            BY TypesAre DEF PtsTypes
        <3>2. \/ UNCHANGED ptsVars
              \/ \E w, timer, shows, counts : PtsStep(q, w, timer, shows, counts)
            BY <1>3 DEF ApplyUpdate, UpdateUnchecked, UpdateStale, UpdateHeld, UpdateApplied,
                        UpdateAppliedWithSkipped, CountAffected, AffectedUncounted,
                        AffectedStale, AffectedInGap, AffectedCounted
        <3>3. QED
            BY <1>1, <2>2, <3>1, <3>2 DEF PtsStep, Idle
    <2>3. QED
        BY <2>1, <2>2
<1>4. CASE FeedAccountUpdate(p)
    <2>1. p.kind # "tooLong"
        BY <1>4 DEF FeedAccountUpdate, Delivered
    <2>2. QED
        BY <1>3, <1>4, <2>1 DEF FeedAccountUpdate, Owners
<1>5. CASE FeedChannelUpdate(p)
    <2>1. p.kind # "tooLong"
        BY <1>5 DEF FeedChannelUpdate, Delivered
    <2>2. QED
        BY <1>3, <1>5, <2>1 DEF FeedChannelUpdate, Owners
<1>6. CASE ReceiveAffected(p)
    BY <1>3, <1>6, LetterIs DEF ReceiveAffected
<1>7. CASE FeedAccountNotLoaded(p)
    BY <1>7, AccountAskIdles DEF FeedAccountNotLoaded
<1>8. CASE FeedChannelTooLong(p)
    BY <1>1, <1>8, ChannelAskIdles, StillIdle DEF FeedChannelTooLong
<1>9. QED
    BY <1>2, <1>4, <1>5, <1>6, <1>7, <1>8 DEF ReceiveLetter

LEMMA AnswerTurns ==
    ASSUME TypeInv, NEW d \in asked, GotAnswer(d), NEW o \in Owners
    PROVE  Idle(o) \/ Renewed(o)
<1>1. /\ waiter \in [Owners -> Waiter] /\ applied \in [Owners -> SUBSET Nat]
      /\ counted \in [Owners -> SUBSET Nat]
      /\ "account" \in Owners /\ "channel" \in Owners /\ o \in {"account", "channel"}
    BY TypesAre DEF PtsTypes, Owners
<1> DEFINE w == InitAt(waiter[d.owner], d.answer.pts)
<1>2. ASSUME Answered(d)
      PROVE  /\ w \in Waiter /\ StopRequesting(w) \in Waiter
             /\ w.good = d.answer.pts /\ w.last = d.answer.pts /\ w.count = d.answer.pts
             /\ w.queue = {} /\ d.owner \in Owners
    <2>1. d.owner \in Owners /\ d.answer.pts \in Nat /\ waiter[d.owner] \in Waiter
        BY <1>1, <1>2, AnswerIs
    <2>2. w \in Waiter
        BY <2>1, WaiterTypes
    <2>3. QED
        BY <2>1, <2>2, WaiterTypes, InitFields
<1>3. ASSUME Answered(d), ShowBrought(d), o = d.owner, NEW v \in Waiter,
             v.good = w.good, v.last = w.last, v.count = w.count, v.queue = w.queue,
             waiter'[o] = v
      PROVE  Renewed(o)
    BY <1>1, <1>2, <1>3 DEF Renewed, ShowBrought
<1>4. ASSUME Answered(d), ShowBrought(d), o # d.owner
      PROVE  applied'[o] = applied[o] /\ counted'[o] = counted[o]
    BY <1>1, <1>4 DEF ShowBrought
<1> HIDE DEF w
<1>5. CASE DifferenceFailed(d)
    BY <1>5, StillIdle DEF DifferenceFailed, ptsVars
<1>6. CASE GotDifference(d)
    <2>1. /\ d.owner = "account" /\ Answered(d) /\ ShowBrought(d)
          /\ waiter' = [waiter EXCEPT
               !["account"] = StopRequesting(InitAt(@, d.answer.pts)),
               !["channel"] = IF AsksChannel(d) THEN StartRequesting(@) ELSE @]
        BY <1>6 DEF GotDifference
    <2>2. CASE o = "account"
        <3>1. waiter'[o] = StopRequesting(w)
            BY <1>1, <2>1, <2>2 DEF w
        <3>2. QED
            BY <1>2, <1>3, <2>1, <2>2, <3>1, WaiterFields
    <2>3. CASE o = "channel"
        <3>1. waiter'[o] = waiter[o] \/ waiter'[o] = StartRequesting(waiter[o])
            BY <1>1, <2>1, <2>3
        <3>2. applied'[o] = applied[o] /\ counted'[o] = counted[o] /\ waiter[o] \in Waiter
            BY <1>1, <1>4, <2>1, <2>3
        <3>3. CASE waiter'[o] = waiter[o]
            BY <3>2, <3>3 DEF Idle
        <3>4. QED
            BY <3>1, <3>2, <3>3, AskedIdle
    <2>4. QED
        BY <1>1, <2>2, <2>3
<1>7. CASE GotDifferenceSlice(d)
    <2>1. /\ d.owner = "account" /\ Answered(d) /\ ShowBrought(d)
          /\ GetDifference(StopRequesting(w), asked \ {d})
        BY <1>7 DEF GotDifferenceSlice, w
    <2>2. waiter' = [waiter EXCEPT !["account"] = StartRequesting(StopRequesting(w))]
        BY <1>2, <2>1, WaiterFields DEF GetDifference
    <2>3. CASE o = "account"
        <3> DEFINE v == StartRequesting(StopRequesting(w))
        <3>1. waiter'[o] = v
            BY <1>1, <2>2, <2>3
        <3>2. w \in Waiter /\ StopRequesting(w) \in Waiter /\ v \in Waiter /\ w.queue = {}
            BY <1>2, <2>1, WaiterTypes
        <3>3. /\ v.good = w.good /\ v.last = w.last /\ v.count = w.count /\ v.queue = w.queue
            BY <3>2, WaiterFields
        <3> HIDE DEF v
        <3>4. QED
            BY <1>3, <2>1, <2>3, <3>1, <3>2, <3>3
    <2>4. CASE o # "account"
        BY <1>1, <1>4, <2>1, <2>2, <2>4 DEF Idle
    <2>5. QED
        BY <2>3, <2>4
<1>8. CASE GotChannelDifference(d)
    <2>1. /\ d.owner = "channel" /\ Answered(d) /\ ShowBrought(d)
          /\ waiter' = [waiter EXCEPT !["channel"] =
               [StopRequesting(w) EXCEPT !.polling = @ \/ shown]]
        BY <1>8 DEF GotChannelDifference, w
    <2>2. CASE o = "channel"
        <3> DEFINE v == [StopRequesting(w) EXCEPT !.polling = @ \/ shown]
        <3>1. waiter'[o] = v
            BY <1>1, <2>1, <2>2
        <3>2. v \in Waiter
            <4>1. (StopRequesting(w).polling \/ shown) \in BOOLEAN
                OBVIOUS
            <4>2. QED
                BY <1>2, <2>1, <4>1 DEF Waiter
        <3>3. /\ v.good = StopRequesting(w).good /\ v.last = StopRequesting(w).last
              /\ v.count = StopRequesting(w).count /\ v.queue = StopRequesting(w).queue
            BY <1>2, <2>1, PollingFields
        <3> HIDE DEF v
        <3>4. QED
            BY <1>2, <1>3, <2>1, <2>2, <3>1, <3>2, <3>3, WaiterFields
    <2>3. CASE o # "channel"
        BY <1>1, <1>4, <2>1, <2>3 DEF Idle
    <2>4. QED
        BY <2>2, <2>3
<1>9. CASE GotChannelDifferenceSlice(d)
    <2>1. /\ d.owner = "channel" /\ Answered(d) /\ ShowBrought(d)
          /\ GetChannelDifference(StopRequesting(w), asked \ {d}, FALSE)
        BY <1>9 DEF GotChannelDifferenceSlice, w
    <2>2. \E v \in {StopRequesting(w), StartRequesting(StopRequesting(w))} :
            waiter' = [waiter EXCEPT !["channel"] = v]
        BY <2>1 DEF GetChannelDifference
    <2>3. CASE o = "channel"
        <3>1. PICK v \in {StopRequesting(w), StartRequesting(StopRequesting(w))} : waiter'[o] = v
            BY <1>1, <2>2, <2>3
        <3>2. v \in Waiter
            BY <1>2, <2>1, WaiterTypes
        <3>3. /\ v.good = w.good /\ v.last = w.last /\ v.count = w.count /\ v.queue = w.queue
            <4>1. w \in Waiter /\ StopRequesting(w) \in Waiter /\ w.queue = {}
                BY <1>2, <2>1
            <4>2. CASE v = StopRequesting(w)
                BY <4>1, <4>2, WaiterFields
            <4>3. CASE v = StartRequesting(StopRequesting(w))
                BY <4>1, <4>3, WaiterFields
            <4>4. QED
                BY <4>2, <4>3
        <3>4. QED
            BY <1>3, <2>1, <2>3, <3>1, <3>2, <3>3
    <2>4. CASE o # "channel"
        BY <1>1, <1>4, <2>1, <2>2, <2>4 DEF Idle
    <2>5. QED
        BY <2>3, <2>4
<1>10. QED
    BY <1>5, <1>6, <1>7, <1>8, <1>9 DEF GotAnswer

LEMMA Turns ==
    ASSUME TypeInv, [Next]_vars, NEW o \in Owners
    PROVE  Idle(o) \/ Met(o) \/ Renewed(o)
<1>1. UNCHANGED ptsVars => Idle(o)
    BY StillIdle DEF ptsVars
<1>2. CASE UNCHANGED vars
    BY <1>1, <1>2 DEF vars
<1>3. CASE Server
    BY <1>1, <1>3 DEF Server, Publish, TellPts, TellTooLong, PublishSeq, LosePush,
                      AnswerRequest, FailRequest
<1>4. CASE Receive
    <2>1. CASE \E n \in containers : ReceiveContainer(n)
        BY <1>1, <2>1 DEF ReceiveContainer
    <2>2. CASE NewSession
        BY <2>2, AccountAskIdles DEF NewSession
    <2>3. QED
        BY <1>4, <2>1, <2>2, LetterTurns DEF Receive
<1>5. CASE Timers
    BY <1>5, AccountAskIdles, ChannelAskIdles
       DEF Timers, PtsTimerFires, FailTimerFires, SeqTimerFires, MinTimerFires
<1>6. CASE Window
    <2>1. /\ waiter \in [Owners -> Waiter] /\ "channel" \in Owners
          /\ waiter["channel"] \in Waiter
        BY TypesAre DEF PtsTypes, Owners
    <2>2. UNCHANGED <<applied, counted>> /\
          \/ UNCHANGED waiter
          \/ \E b : waiter' = [waiter EXCEPT !["channel"] = [waiter["channel"] EXCEPT !.polling = b]]
        <3>1. CASE HideChannel
            BY <3>1 DEF HideChannel, ptsVars
        <3>2. CASE ShowChannel
            BY <3>2 DEF ShowChannel
        <3>3. CASE LeaveChannel
            BY <3>3 DEF LeaveChannel
        <3>4. QED
            BY <1>6, <3>1, <3>2, <3>3 DEF Window
    <2>3. CASE waiter'[o] = waiter[o]
        BY <2>2, <2>3, StillIdle
    <2>4. ASSUME NEW b, waiter'[o] = [waiter[o] EXCEPT !.polling = b], o = "channel"
          PROVE  Idle(o)
        <3>1. /\ waiter'[o].good = waiter[o].good /\ waiter'[o].last = waiter[o].last
              /\ waiter'[o].count = waiter[o].count /\ waiter'[o].queue = waiter[o].queue
              /\ waiter'[o].waiting = waiter[o].waiting
              /\ waiter'[o].requesting = waiter[o].requesting
            BY <2>1, <2>4, PollingFields
        <3>2. QED
            BY <2>2, <3>1 DEF Idle
    <2>5. CASE o = "channel"
        BY <2>1, <2>2, <2>3, <2>4, <2>5
    <2>6. CASE o # "channel"
        BY <2>1, <2>2, <2>3, <2>6
    <2>7. QED
        BY <2>5, <2>6
<1>7. QED
    BY <1>2, <1>3, <1>4, <1>5, <1>6, AnswerTurns DEF Next

-----------------------------------------------------------------------------
(* No number is skipped.  A waiter counts the numbers it added up, and holds   *)
(* back what it did not show: C is what was added up, A what is shown, top the *)
(* highest number the server has given out.                                    *)

SteadyIs(w, C, A, top) ==
    /\ w.good <= w.last /\ w.last <= top
    /\ w.good = 0 => w.last = 0
    /\ C \subseteq 1 .. w.last /\ Cardinality(C) = w.count
    /\ 1 .. w.good \subseteq C
    /\ 1 .. w.good \subseteq A
    /\ w.queue # {} => w.waiting
    /\ w.requesting \/ C \subseteq A \cup CoversAll(w.queue)

LEMMA Below ==
    ASSUME NEW n \in Nat
    PROVE  IsFiniteSet(1 .. n) /\ Cardinality(1 .. n) = n
<1>1. 1 \in Int /\ n \in Int
    OBVIOUS
<1>2. IsFiniteSet(1 .. n) /\ Cardinality(1 .. n) = IF 1 > n THEN 0 ELSE n - 1 + 1
    BY <1>1, FS_Interval
<1>3. QED
    BY <1>2

LEMMA AddingUp ==
    ASSUME NEW w \in Waiter, NEW e \in Numbered, NEW C, C \subseteq 1 .. w.last,
           Cardinality(C) = w.count, Covers(e) \cap C = {}
    PROVE  LET v == Counted(w, e)
               D == C \cup Covers(e) IN
           /\ v \in Waiter /\ v.good = w.good /\ v.queue = w.queue
           /\ v.waiting = w.waiting /\ v.requesting = w.requesting
           /\ v.last \in Nat /\ v.last >= w.last /\ v.last \in {w.last, e.pts}
           /\ D \subseteq 1 .. v.last /\ Cardinality(D) = v.count
           /\ Complete(v) => D = 1 .. v.last
<1> DEFINE v == Counted(w, e)
           D == C \cup Covers(e)
<1>1. /\ e \in Event /\ e.pts \in Nat /\ e.count \in Nat /\ e.count < e.pts
      /\ w.last \in Nat /\ w.count \in Nat
    BY DEF Numbered, Event, Waiter
<1>2. v \in Waiter
    BY <1>1, CheckTypes
<1>3. /\ v.last = (IF e.pts > w.last THEN e.pts ELSE w.last) /\ v.count = w.count + e.count
      /\ v.good = w.good /\ v.queue = w.queue
      /\ v.waiting = w.waiting /\ v.requesting = w.requesting
    BY DEF Counted, Waiter
<1>4. v.last \in Nat /\ v.last >= w.last /\ v.last >= e.pts /\ v.last \in {w.last, e.pts}
    BY <1>1, <1>3
<1>5. IsFiniteSet(Covers(e)) /\ Cardinality(Covers(e)) = e.count
    <2>1. e.pts - e.count + 1 \in Int /\ e.pts \in Int
        BY <1>1
    <2>2. /\ IsFiniteSet((e.pts - e.count + 1) .. e.pts)
          /\ Cardinality((e.pts - e.count + 1) .. e.pts) =
               IF e.pts - e.count + 1 > e.pts THEN 0 ELSE e.pts - (e.pts - e.count + 1) + 1
        BY <2>1, FS_Interval
    <2>3. QED
        BY <1>1, <2>2 DEF Covers
<1>6. IsFiniteSet(1 .. w.last) /\ IsFiniteSet(1 .. v.last) /\ Cardinality(1 .. v.last) = v.last
    BY <1>1, <1>4, Below
<1>7. IsFiniteSet(C)
    BY <1>6, FS_Subset
<1>8. Cardinality(D) = Cardinality(C) + Cardinality(Covers(e)) - Cardinality(C \cap Covers(e))
    BY <1>5, <1>7, FS_Union
<1>9. Cardinality(C \cap Covers(e)) = 0
    <2>1. C \cap Covers(e) = {}
        OBVIOUS
    <2>2. QED
        BY <2>1, FS_EmptySet
<1>10. Cardinality(D) = v.count
    BY <1>1, <1>3, <1>5, <1>8, <1>9
<1>11. D \subseteq 1 .. v.last
    <2>1. Covers(e) \subseteq 1 .. e.pts
        BY CoversType
    <2>2. 1 .. e.pts \subseteq 1 .. v.last
        BY <1>1, <1>4
    <2>3. 1 .. w.last \subseteq 1 .. v.last
        BY <1>1, <1>4
    <2>4. QED
        BY <2>1, <2>2, <2>3
<1>12. Complete(v) => D = 1 .. v.last
    BY <1>6, <1>10, <1>11, FS_Subset DEF Complete
<1>13. QED
    BY <1>2, <1>3, <1>4, <1>10, <1>11, <1>12

LEMMA CheckedIs ==
    ASSUME NEW w \in Waiter, NEW e \in Numbered, NEW C, NEW A, NEW top \in Nat,
           SteadyIs(w, C, A, top), ~w.requesting, e.pts <= top,
           Inited(w) => Covers(e) \cap C = {}
    PROVE  LET c == Checked(w, e)
               D == IF Inited(w) THEN C \cup Covers(e) ELSE 1 .. e.pts IN
           /\ c \in Waiter /\ ~c.requesting
           /\ c.good >= w.good /\ c.good <= c.last /\ c.last <= top /\ c.good > 0
           /\ D \subseteq 1 .. c.last /\ Cardinality(D) = c.count
           /\ 1 .. c.good \subseteq D
           /\ c.queue # {} => c.waiting
           /\ D \subseteq A \cup Known(w, e) \cup CoversAll(c.queue)
           /\ Gaps(w, e) => c.good = w.good /\ c.waiting /\ Inited(w)
           /\ ~Inited(w) => c.good = e.pts /\ ~Gaps(w, e) /\ c.queue = {}
<1> DEFINE c == Checked(w, e)
           D == IF Inited(w) THEN C \cup Covers(e) ELSE 1 .. e.pts
           v == Counted(w, e)
<1>1. /\ e \in Event /\ e.pts \in Nat /\ e.pts > 0
      /\ w.good \in Nat /\ w.last \in Nat /\ w.count \in Nat
    BY DEF Numbered, Event, Waiter
<1>2. c \in Waiter /\ v \in Waiter
    BY <1>1, CheckTypes
<1>3. CASE ~Inited(w)
    <2>1. c = InitAt(w, e.pts)
        BY <1>3 DEF Checked
    <2>2. /\ c.good = e.pts /\ c.last = e.pts /\ c.count = e.pts /\ c.queue = {}
          /\ c.requesting = w.requesting
        BY <2>1 DEF InitAt, Waiter
    <2>3. Cardinality(1 .. e.pts) = e.pts
        BY <1>1, Below
    <2>4. w.good = 0
        BY <1>1, <1>3 DEF Inited
    <2>5. D = 1 .. e.pts /\ Known(w, e) = 1 .. e.pts /\ ~Gaps(w, e)
        BY <1>3 DEF Known, Gaps
    <2> HIDE DEF c, D, v
    <2>6. QED
        BY <1>1, <1>2, <1>3, <2>2, <2>3, <2>4, <2>5 DEF c, D
<1>4. CASE Inited(w)
    <2>1. /\ v.good = w.good /\ v.queue = w.queue
          /\ v.waiting = w.waiting /\ v.requesting = w.requesting
          /\ v.last \in Nat /\ v.last >= w.last /\ v.last \in {w.last, e.pts}
          /\ C \cup Covers(e) \subseteq 1 .. v.last /\ Cardinality(C \cup Covers(e)) = v.count
          /\ Complete(v) => C \cup Covers(e) = 1 .. v.last
        <3>1. C \subseteq 1 .. w.last /\ Cardinality(C) = w.count /\ Covers(e) \cap C = {}
            BY <1>4 DEF SteadyIs
        <3> HIDE DEF c, D
        <3>2. QED
            BY <3>1, AddingUp
    <2>2. D = C \cup Covers(e) /\ Known(w, e) = Covers(e)
        BY <1>4 DEF Known
    <2>3. /\ w.good <= w.last /\ w.last <= top /\ w.good > 0
          /\ 1 .. w.good \subseteq C /\ C \subseteq A \cup CoversAll(w.queue)
          /\ w.queue # {} => w.waiting
        BY <1>4 DEF SteadyIs, Inited
    <2>4. CASE Gaps(w, e)
        <3>1. c = [v EXCEPT !.waiting = TRUE]
            BY <1>4, <2>4 DEF Checked
        <3>2. /\ c.good = v.good /\ c.last = v.last /\ c.count = v.count /\ c.queue = v.queue
              /\ c.requesting = v.requesting /\ c.waiting
            BY <1>2, <3>1 DEF Waiter
        <3> HIDE DEF c, D, v
        <3>3. QED
            BY <1>1, <1>2, <1>4, <2>1, <2>2, <2>3, <2>4, <3>2 DEF c, D
    <2>5. CASE ~Gaps(w, e)
        <3>1. c = [v EXCEPT !.good = v.last] /\ Complete(v)
            BY <1>4, <2>5 DEF Checked, Gaps
        <3>2. /\ c.good = v.last /\ c.last = v.last /\ c.count = v.count /\ c.queue = v.queue
              /\ c.requesting = v.requesting /\ c.waiting = v.waiting
            BY <1>2, <3>1 DEF Waiter
        <3>3. D = 1 .. v.last
            BY <2>1, <2>2, <3>1
        <3> HIDE DEF c, D, v
        <3>4. QED
            BY <1>1, <1>2, <1>4, <2>1, <2>2, <2>3, <2>5, <3>2, <3>3 DEF c, D
    <2>6. QED
        BY <2>4, <2>5
<1>5. QED
    BY <1>3, <1>4

LEMMA EndWaitFields ==
    ASSUME NEW w \in Waiter, w.queue # {} => w.waiting
    PROVE  /\ EndWait(w).good = w.good /\ EndWait(w).last = w.last /\ EndWait(w).count = w.count
           /\ EndWait(w).queue = {} /\ EndWait(w).requesting = w.requesting
BY DEF EndWait, Waiter

LEMMA EnqueueFields ==
    ASSUME NEW w \in Waiter, NEW e \in Event
    PROVE  /\ Enqueue(w, e).good = w.good /\ Enqueue(w, e).last = w.last
           /\ Enqueue(w, e).count = w.count /\ Enqueue(w, e).queue = w.queue \cup {e}
           /\ Enqueue(w, e).waiting = w.waiting /\ Enqueue(w, e).requesting = w.requesting
BY DEF Enqueue, Waiter

LEMMA MetSteady ==
    ASSUME PtsTypes, NEW o \in Owners, NEW e \in Numbered, NEW top \in Nat,
           SteadyIs(waiter[o], counted[o], applied[o], top), e.pts <= top,
           e.pts > waiter[o].good => Covers(e) \cap counted[o] = {},
           ApplyUpdate(o, e) \/ CountAffected(o, e)
    PROVE  /\ SteadyIs(waiter'[o], counted'[o], applied'[o], top)
           /\ waiter'[o].good >= waiter[o].good
           /\ \/ counted'[o] \subseteq counted[o] \cup Covers(e)
              \/ waiter'[o].good = e.pts /\ counted'[o] = 1 .. e.pts
<1> DEFINE w == waiter[o]
           c == Checked(w, e)
           C == counted[o]
           A == applied[o]
           D == IF Inited(w) THEN C \cup Covers(e) ELSE 1 .. e.pts
           Goal == /\ SteadyIs(waiter'[o], counted'[o], applied'[o], top)
                   /\ waiter'[o].good >= waiter[o].good
                   /\ \/ counted'[o] \subseteq counted[o] \cup Covers(e)
                      \/ waiter'[o].good = e.pts /\ counted'[o] = 1 .. e.pts
<1>1. /\ w \in Waiter /\ e \in Event /\ e.pts \in Nat /\ e.count \in Nat /\ w.good \in Nat
      /\ waiter \in [Owners -> Waiter]
      /\ applied \in [Owners -> SUBSET Nat] /\ counted \in [Owners -> SUBSET Nat]
    BY DEF PtsTypes, Numbered, Event, Waiter
<1>2. ASSUME NEW v, NEW timer, NEW shows, NEW counts, PtsStep(o, v, timer, shows, counts)
      PROVE  waiter'[o] = v /\ applied'[o] = A \cup shows /\ counted'[o] = counts
    BY <1>1, <1>2 DEF PtsStep
<1>3. SteadyIs(w, C, A, top)
    OBVIOUS
<1> SUFFICES Goal
    OBVIOUS
<1> HIDE DEF w, c, C, A, D, Goal
<1>4. ASSUME ~Stale(w, e)
      PROVE  Covers(e) \cap C = {}
    <2>1. CASE e.pts > w.good
        BY <2>1 DEF w, C
    <2>2. CASE e.count = 0
        BY <1>1, <2>2 DEF Covers
    <2>3. QED
        BY <1>1, <1>4, <2>1, <2>2 DEF Stale
<1>5. ASSUME ~w.requesting, ~Stale(w, e)
      PROVE  /\ c \in Waiter
             /\ c.queue # {} => c.waiting
             /\ D \subseteq A \cup Known(w, e) \cup CoversAll(c.queue)
             /\ c.good \in Nat /\ c.good >= w.good /\ c.good <= c.last /\ c.last <= top
             /\ c.good > 0
             /\ D \subseteq 1 .. c.last /\ Cardinality(D) = c.count
             /\ 1 .. c.good \subseteq D
             /\ Gaps(w, e) => c.waiting /\ Inited(w) /\ c.good = w.good
             /\ ~Inited(w) => c.queue = {} /\ c.good = e.pts
    <2>1. Inited(w) => Covers(e) \cap C = {}
        BY <1>4, <1>5
    <2>2. /\ c \in Waiter
          /\ c.queue # {} => c.waiting
          /\ D \subseteq A \cup Known(w, e) \cup CoversAll(c.queue)
          /\ c.good >= w.good /\ c.good <= c.last /\ c.last <= top
          /\ c.good > 0
        BY <1>1, <1>3, <1>5, <2>1, CheckedIs DEF c, D
    <2>3. /\ D \subseteq 1 .. c.last /\ Cardinality(D) = c.count
          /\ 1 .. c.good \subseteq D
          /\ Gaps(w, e) => c.waiting /\ Inited(w) /\ c.good = w.good
          /\ ~Inited(w) => c.queue = {} /\ c.good = e.pts
        BY <1>1, <1>3, <1>5, <2>1, CheckedIs DEF c, D
    <2>4. c.good \in Nat
        BY <2>2 DEF Waiter
    <2>5. QED
        BY <2>2, <2>3, <2>4
<1>6. ASSUME ~w.requesting, ~Stale(w, e), NEW v, NEW B,
             v.good = c.good, v.last = c.last, v.count = c.count,
             v.queue # {} => v.waiting, A \subseteq B,
             ~Gaps(w, e) => A \cup Known(w, e) \cup CoversAll(c.queue) \subseteq B,
             D \subseteq B \cup CoversAll(v.queue),
             waiter'[o] = v, applied'[o] = B, counted'[o] = D
      PROVE  Goal
    <2>1. v.good >= w.good /\ (~Inited(w) => v.good = e.pts)
        BY <1>5, <1>6
    <2>2. 1 .. v.good \subseteq B
        <3>1. CASE Gaps(w, e)
            <4>1. v.good = w.good /\ 1 .. w.good \subseteq A
                BY <1>3, <1>5, <1>6, <3>1 DEF SteadyIs
            <4>2. QED
                BY <1>6, <4>1
        <3>2. CASE ~Gaps(w, e)
            <4>1. 1 .. v.good \subseteq D /\ D \subseteq A \cup Known(w, e) \cup CoversAll(c.queue)
                BY <1>5, <1>6
            <4>2. QED
                BY <1>6, <3>2, <4>1
        <3>3. QED
            BY <3>1, <3>2
    <2>3. SteadyIs(v, D, B, top)
        BY <1>5, <1>6, <2>2 DEF SteadyIs
    <2>4. D \subseteq C \cup Covers(e) \/ (v.good = e.pts /\ D = 1 .. e.pts)
        BY <2>1 DEF D
    <2>5. QED
        BY <1>6, <2>1, <2>3, <2>4 DEF Goal, w, C
<1>7. ASSUME NEW v, NEW B, SteadyIs(v, C, B, top), v.good = w.good,
             waiter'[o] = v, applied'[o] = B, counted'[o] = C
      PROVE  Goal
    BY <1>1, <1>7 DEF Goal, w, C
<1>8. \A S : SteadyIs(w, C, A \cup S, top)
    BY <1>3 DEF SteadyIs
<1>9. CoversAll({}) = {}
    BY DEF CoversAll
<1>10. CASE UpdateUnchecked(o, e)
    <2>1. waiter'[o] = w /\ applied'[o] = A \cup Covers(e) /\ counted'[o] = C
        BY <1>2, <1>10 DEF UpdateUnchecked, w, C
    <2>2. QED
        BY <2>1, <1>7, <1>8 DEF Goal, w, C
<1>11. CASE UpdateStale(o, e)
    BY <1>3, <1>7, <1>11 DEF UpdateStale, ptsVars, w, C, A
<1>12. CASE UpdateHeld(o, e)
    <2>1. ~w.requesting /\ ~Stale(w, e) /\ Gaps(w, e)
        BY <1>12 DEF UpdateHeld, Passes, w
    <2>2. waiter'[o] = Enqueue(c, e) /\ applied'[o] = A /\ counted'[o] = C \cup Known(w, e)
        <3>1. A \cup {} = A
            OBVIOUS
        <3>2. PtsStep(o, Enqueue(c, e), TRUE, {}, C \cup Known(w, e))
            BY <1>12 DEF UpdateHeld, w, c, C
        <3>3. /\ waiter'[o] = Enqueue(c, e) /\ applied'[o] = A \cup {}
              /\ counted'[o] = C \cup Known(w, e)
            BY <1>2, <3>2
        <3>4. QED
            BY <3>1, <3>3
    <2>3. D = C \cup Covers(e) /\ Known(w, e) = Covers(e)
        BY <1>5, <2>1 DEF D, Known
    <2>4. CoversAll(Enqueue(c, e).queue) = CoversAll(c.queue) \cup Covers(e)
        BY <1>1, <1>5, <2>1, EnqueueFields DEF CoversAll
    <2>5. /\ Enqueue(c, e).good = c.good /\ Enqueue(c, e).last = c.last
          /\ Enqueue(c, e).count = c.count
          /\ Enqueue(c, e).queue # {} => Enqueue(c, e).waiting
        BY <1>1, <1>5, <2>1, EnqueueFields
    <2>6. D \subseteq A \cup CoversAll(Enqueue(c, e).queue)
        BY <1>5, <2>1, <2>3, <2>4
    <2>7. QED
        BY <1>6, <2>1, <2>2, <2>3, <2>5, <2>6
<1>13. CASE UpdateApplied(o, e)
    <2>1. ~w.requesting /\ ~Stale(w, e) /\ (~c.waiting \/ c.queue = {})
        BY <1>13 DEF UpdateApplied, w, c
    <2>2. waiter'[o] = c /\ applied'[o] = A \cup Known(w, e) /\ counted'[o] = D
        BY <1>2, <1>13 DEF UpdateApplied, w, c, C, D
    <2>3. c.queue = {}
        BY <1>5, <2>1
    <2>4. D \subseteq A \cup Known(w, e)
        BY <1>5, <1>9, <2>1, <2>3
    <2>5. QED
        BY <1>6, <1>9, <2>1, <2>2, <2>3, <2>4
<1>14. CASE UpdateAppliedWithSkipped(o, e)
    <2>1. ~w.requesting /\ ~Stale(w, e) /\ c.waiting /\ c.queue # {}
        BY <1>14 DEF UpdateAppliedWithSkipped, w, c
    <2>2. /\ waiter'[o] = EndWait(c) /\ counted'[o] = C \cup Covers(e)
          /\ applied'[o] = A \cup (Known(w, e) \cup CoversAll(c.queue))
        BY <1>2, <1>14 DEF UpdateAppliedWithSkipped, w, c, C
    <2>3. D = C \cup Covers(e)
        BY <1>5, <2>1 DEF D
    <2>4. /\ EndWait(c).good = c.good /\ EndWait(c).last = c.last /\ EndWait(c).count = c.count
          /\ EndWait(c).queue = {}
        BY <1>5, <2>1, EndWaitFields
    <2>5. D \subseteq A \cup (Known(w, e) \cup CoversAll(c.queue))
        BY <1>5, <2>1
    <2>6. QED
        BY <1>6, <2>1, <2>2, <2>3, <2>4, <2>5
<1>15. CASE AffectedUncounted(o, e)
    <2>1. /\ waiter'[o] = EndWait(w) /\ applied'[o] = A \cup Covers(e) /\ counted'[o] = C
          /\ w.requesting
        BY <1>2, <1>15 DEF AffectedUncounted, w, C
    <2>2. w.queue # {} => w.waiting
        BY <1>3 DEF SteadyIs
    <2>3. /\ EndWait(w).good = w.good /\ EndWait(w).last = w.last /\ EndWait(w).count = w.count
          /\ EndWait(w).queue = {} /\ EndWait(w).requesting = w.requesting
        BY <1>1, <2>2, EndWaitFields
    <2>4. SteadyIs(EndWait(w), C, A \cup Covers(e), top)
        BY <1>8, <2>1, <2>3 DEF SteadyIs
    <2>5. QED
        BY <1>7, <2>1, <2>3, <2>4
<1>16. CASE AffectedStale(o, e)
    <2>1. waiter'[o] = w /\ applied'[o] = A \cup Covers(e) /\ counted'[o] = C
        BY <1>2, <1>16 DEF AffectedStale, w, C
    <2>2. QED
        BY <1>7, <1>8, <2>1
<1>17. CASE AffectedInGap(o, e)
    <2>1. ~w.requesting /\ ~Stale(w, e) /\ Gaps(w, e)
        BY <1>17 DEF AffectedInGap, Passes, w
    <2>2. /\ waiter'[o] = c /\ applied'[o] = A \cup Covers(e) /\ counted'[o] = C \cup Covers(e)
        BY <1>2, <1>17 DEF AffectedInGap, w, c, C
    <2>3. D = C \cup Covers(e) /\ Known(w, e) = Covers(e)
        BY <1>5, <2>1 DEF D, Known
    <2>4. D \subseteq (A \cup Covers(e)) \cup CoversAll(c.queue)
        BY <1>5, <2>1, <2>3
    <2>5. QED
        BY <1>5, <1>6, <2>1, <2>2, <2>3, <2>4
<1>18. CASE AffectedCounted(o, e)
    <2> DEFINE shows == Known(w, e) \cup (IF c.waiting THEN CoversAll(c.queue) ELSE {})
    <2>1. ~w.requesting /\ ~Stale(w, e)
        BY <1>18 DEF AffectedCounted, w
    <2>2. waiter'[o] = EndWait(c) /\ applied'[o] = A \cup shows /\ counted'[o] = D
        BY <1>2, <1>18 DEF AffectedCounted, w, c, C, D
    <2>3. shows = Known(w, e) \cup CoversAll(c.queue)
        BY <1>5, <1>9, <2>1
    <2>4. /\ EndWait(c).good = c.good /\ EndWait(c).last = c.last /\ EndWait(c).count = c.count
          /\ EndWait(c).queue = {}
        BY <1>5, <2>1, EndWaitFields
    <2>5. D \subseteq A \cup (Known(w, e) \cup CoversAll(c.queue))
        BY <1>5, <2>1
    <2> HIDE DEF shows
    <2>6. QED
        BY <1>6, <2>1, <2>2, <2>3, <2>4, <2>5
<1>19. QED
    BY <1>10, <1>11, <1>12, <1>13, <1>14, <1>15, <1>16, <1>17, <1>18
       DEF ApplyUpdate, CountAffected

\* The updates on their way come from a server that numbers without overlap, and
\* an answer ends where an update ends.
PushesFit ==
    /\ \A p \in pushes : p.pts \in ends[p.owner]
    /\ \A p \in pushes : p.count > 0 =>
         \A n \in ends[p.owner] : n < p.pts => n <= p.pts - p.count
    /\ \A p, q \in pushes :
         p.owner = q.owner /\ p.pts = q.pts /\ p.count > 0 /\ q.count > 0 => p = q

Fresh(p) == p.pts > waiter[p.owner].good => Covers(Ev(p)) \cap counted[p.owner] = {}

AskedFit ==
    \A d \in asked : /\ 1 .. d.from \subseteq applied[d.owner]
                     /\ Answered(d) => d.answer.pts \in ends[d.owner]

Steady == \A o \in Owners : SteadyIs(waiter[o], counted[o], applied[o], issued[o])

NumbersInv == TypeInv /\ Steady /\ PushesFit /\ (\A p \in pushes : Fresh(p)) /\ AskedFit

LEMMA ServerSteps ==
    ASSUME TypeInv, [Next]_vars
    PROVE  \/ pushes' \subseteq pushes /\ UNCHANGED <<issued, ends>>
           \/ \E o \in Owners, kind \in Kinds :
                Send(o, issued[o], 0, kind) /\ UNCHANGED <<issued, ends, waiter, counted>>
           \/ \E o \in Owners, count \in 1 .. 2, kind \in Kinds : Publish(o, count, kind)
<1>1. CASE UNCHANGED vars
    BY <1>1 DEF vars, netVars, serverVars
<1>2. ASSUME NEW o \in Owners, NEW count \in 1 .. 2, NEW kind \in {"push", "result", "affected"},
             Publish(o, count, kind)
      PROVE  \E q \in Owners, n \in 1 .. 2, k \in Kinds : Publish(q, n, k)
    BY <1>2 DEF Kinds
<1>3. ASSUME NEW o \in Owners, NEW kind \in {"push", "affected"}, TellPts(o, kind)
      PROVE  \E q \in Owners, k \in Kinds :
               Send(q, issued[q], 0, k) /\ UNCHANGED <<issued, ends, waiter, counted>>
    BY <1>3 DEF TellPts, Kinds, serverVars, ptsVars
<1>4. CASE TellTooLong
    <2>1. "channel" \in Owners /\ "tooLong" \in Kinds
        BY DEF Owners, Kinds
    <2>2. Send("channel", issued["channel"], 0, "tooLong")
          /\ UNCHANGED <<issued, ends, waiter, counted>>
        BY <1>4 DEF TellTooLong, serverVars, ptsVars
    <2>3. QED
        BY <2>1, <2>2
<1>5. CASE PublishSeq \/ LosePush \/ \E d \in asked : AnswerRequest(d) \/ FailRequest(d)
    BY <1>5 DEF PublishSeq, LosePush, AnswerRequest, FailRequest, netVars, serverVars
<1>6. CASE Receive
    <2>1. ASSUME NEW p \in pushes, DropPush(p) \/ ReceiveLetter(p)
          PROVE  pushes' \subseteq pushes /\ UNCHANGED <<issued, ends>>
        BY <2>1 DEF DropPush, ReceiveLetter, FeedAccountUpdate, FeedAccountNotLoaded,
                    FeedChannelUpdate, DropChannelUpdate, FeedChannelNotLoaded,
                    FeedChannelTooLong, ReceiveAffected, Take, serverVars
    <2>2. QED
        BY <1>6, <2>1 DEF Receive, ReceiveContainer, TakeContainer, NewSession, netVars, serverVars
<1>7. CASE \E d \in asked : GotAnswer(d)
    BY <1>7 DEF GotAnswer, GotDifference, GotDifferenceSlice, GotChannelDifference,
                GotChannelDifferenceSlice, DifferenceFailed, netVars, serverVars
<1>8. CASE Timers
    BY <1>8 DEF Timers, PtsTimerFires, FailTimerFires, SeqTimerFires, MinTimerFires, netVars, serverVars
<1>9. CASE Window
    BY <1>9 DEF Window, ShowChannel, HideChannel, LeaveChannel, netVars, serverVars
<1>10. QED
    BY <1>1, <1>2, <1>3, <1>4, <1>5, <1>6, <1>7, <1>8, <1>9 DEF Next, Server

LEMMA PublishIs ==
    ASSUME TypeInv, NEW o \in Owners, NEW count \in 1 .. 2, NEW kind \in Kinds,
           Publish(o, count, kind)
    PROVE  /\ issued[o] \in Nat
           /\ \A q \in Owners : issued'[q] = IF q = o THEN issued[q] + count ELSE issued[q]
           /\ \A q \in Owners :
                ends'[q] = IF q = o THEN ends[q] \cup {issued[o] + count} ELSE ends[q]
           /\ \A p \in pushes' : \/ p \in pushes
                                 \/ p.pts = issued[o] + count /\ p.count = count /\ p.owner = o
           /\ \A p, q \in pushes' : p \notin pushes /\ q \notin pushes => p = q
           /\ UNCHANGED <<waiter, counted>>
<1>1. issued \in [Owners -> Nat] /\ ends \in [Owners -> SUBSET Nat]
    BY DEF TypeInv, TypeOK
<1>2. /\ issued' = [issued EXCEPT ![o] = issued[o] + count]
      /\ ends' = [ends EXCEPT ![o] = ends[o] \cup {issued[o] + count}]
      /\ UNCHANGED <<waiter, counted>>
    BY DEF Publish, ptsVars
<1> DEFINE r == [owner |-> o, pts |-> issued[o] + count, count |-> count, kind |-> kind]
<1>3. pushes' = pushes \cup {r}
    BY DEF Publish, Send
<1>4. r.pts = issued[o] + count /\ r.count = count /\ r.owner = o
    OBVIOUS
<1> HIDE DEF r
<1>5. /\ \A p \in pushes' : p \in pushes \/ (p.pts = issued[o] + count /\ p.count = count /\ p.owner = o)
      /\ \A p, q \in pushes' : p \notin pushes /\ q \notin pushes => p = q
    BY <1>3, <1>4
<1>6. \A q \in Owners :
        /\ issued'[q] = IF q = o THEN issued[q] + count ELSE issued[q]
        /\ ends'[q] = IF q = o THEN ends[q] \cup {issued[o] + count} ELSE ends[q]
    BY <1>1, <1>2
<1>7. QED
    BY <1>1, <1>2, <1>5, <1>6

LEMMA ServerGrows ==
    ASSUME TypeInv, [Next]_vars, NEW o \in Owners
    PROVE  issued[o] \in Nat /\ issued'[o] \in Nat /\ issued'[o] >= issued[o]
           /\ ends[o] \subseteq ends'[o]
<1>1. issued[o] \in Nat
    BY DEF TypeInv, TypeOK
<1>2. CASE UNCHANGED <<issued, ends>>
    BY <1>1, <1>2
<1>3. ASSUME NEW q \in Owners, NEW count \in 1 .. 2, NEW kind \in Kinds, Publish(q, count, kind)
      PROVE  issued'[o] \in Nat /\ issued'[o] >= issued[o] /\ ends[o] \subseteq ends'[o]
    <2>1. /\ issued'[o] = IF o = q THEN issued[o] + count ELSE issued[o]
          /\ ends'[o] = IF o = q THEN ends[o] \cup {issued[q] + count} ELSE ends[o]
        BY <1>3, PublishIs
    <2>2. issued'[o] \in Nat /\ issued'[o] >= issued[o]
        BY <1>1, <2>1
    <2>3. ends[o] \subseteq ends'[o]
        BY <2>1
    <2>4. QED
        BY <2>2, <2>3
<1>4. QED
    BY <1>1, <1>2, <1>3, ServerSteps

LEMMA PushesFitStep ==
    ASSUME TypeInv, PushesFit, [Next]_vars
    PROVE  PushesFit'
<1>1. \A p \in pushes : /\ p.owner \in Owners /\ p.pts \in Nat /\ p.count \in Nat
                        /\ p.pts <= issued[p.owner]
    BY LetterIs
<1>2. CASE pushes' \subseteq pushes /\ UNCHANGED <<issued, ends>>
    BY <1>2 DEF PushesFit
<1>3. ASSUME NEW o \in Owners, NEW kind \in Kinds, Send(o, issued[o], 0, kind),
             UNCHANGED <<issued, ends>>
      PROVE  PushesFit'
    <2>1. \A p \in pushes' : p \in pushes \/ (p.pts = issued[o] /\ p.count = 0 /\ p.owner = o)
        BY <1>3 DEF Send
    <2>2. issued[o] \in ends[o]
        BY DEF TypeInv, ServerOK
    <2>3. QED
        BY <1>3, <2>1, <2>2 DEF PushesFit
<1>4. ASSUME NEW o \in Owners, NEW count \in 1 .. 2, NEW kind \in Kinds, Publish(o, count, kind)
      PROVE  PushesFit'
    <2> DEFINE n == issued[o] + count
    <2>1. /\ issued[o] \in Nat /\ n \in Nat /\ n > issued[o] /\ n - count = issued[o]
          /\ \A q \in Owners : ends'[q] = IF q = o THEN ends[q] \cup {n} ELSE ends[q]
          /\ \A p \in pushes' : p \in pushes \/ (p.pts = n /\ p.count = count /\ p.owner = o)
          /\ \A p, q \in pushes' : p \notin pushes /\ q \notin pushes => p = q
        BY <1>4, PublishIs
    <2> HIDE DEF n
    <2>2. ends[o] \subseteq 1 .. issued[o]
        BY DEF TypeInv, ServerOK
    <2>3. \A p \in pushes' : p.pts \in ends'[p.owner]
        BY <1>1, <2>1 DEF PushesFit
    <2>4. ASSUME NEW p \in pushes', p.count > 0, NEW m \in ends'[p.owner], m < p.pts
          PROVE  m <= p.pts - p.count
        <3>1. CASE p \in pushes
            <4>1. p.owner \in Owners /\ p.pts \in Nat /\ p.pts <= issued[p.owner]
                BY <1>1, <3>1
            <4>2. m \in ends[p.owner]
                <5>1. CASE p.owner = o
                    <6>1. ends'[p.owner] = ends[o] \cup {n}
                        BY <2>1, <5>1
                    <6>2. m # n
                        BY <2>1, <2>4, <4>1, <5>1
                    <6>3. QED
                        BY <2>4, <5>1, <6>1, <6>2
                <5>2. CASE p.owner # o
                    BY <2>1, <2>4, <4>1, <5>2
                <5>3. QED
                    BY <5>1, <5>2
            <4>3. QED
                BY <2>4, <3>1, <4>2 DEF PushesFit
        <3>2. CASE p.pts = n /\ p.count = count /\ p.owner = o
            <4>1. ends'[o] = ends[o] \cup {n}
                BY <2>1
            <4>2. m \in 1 .. issued[o]
                BY <2>1, <2>2, <2>4, <3>2, <4>1
            <4>3. QED
                BY <2>1, <3>2, <4>2
        <3>3. QED
            BY <2>1, <3>1, <3>2
    <2>5. ASSUME NEW p \in pushes', NEW q \in pushes', p.owner = q.owner, p.pts = q.pts,
                 p.count > 0, q.count > 0
          PROVE  p = q
        <3>1. CASE p \in pushes /\ q \in pushes
            BY <2>5, <3>1 DEF PushesFit
        <3>2. CASE p \notin pushes /\ q \notin pushes
            BY <2>1, <3>2
        <3>3. CASE p \in pushes /\ q \notin pushes
            BY <1>1, <2>1, <2>5, <3>3
        <3>4. CASE p \notin pushes /\ q \in pushes
            BY <1>1, <2>1, <2>5, <3>4
        <3>5. QED
            BY <3>1, <3>2, <3>3, <3>4
    <2>6. QED
        BY <2>3, <2>4, <2>5 DEF PushesFit
<1>5. QED
    BY <1>2, <1>3, <1>4, ServerSteps

LEMMA SteadyGrows ==
    ASSUME NEW w \in Waiter, NEW C, NEW A, NEW top \in Nat, NEW more \in Nat, top <= more,
           SteadyIs(w, C, A, top)
    PROVE  SteadyIs(w, C, A, more)
<1>1. w.last \in Nat
    BY DEF Waiter
<1>2. QED
    BY <1>1 DEF SteadyIs

LEMMA MetIs ==
    ASSUME NumbersInv, NEW o \in Owners, NEW p \in pushes, p.owner = o,
           ApplyUpdate(o, Ev(p)) \/ CountAffected(o, Ev(p))
    PROVE  /\ SteadyIs(waiter'[o], counted'[o], applied'[o], issued[o])
           /\ waiter'[o].good >= waiter[o].good
           /\ \/ counted'[o] \subseteq counted[o] \cup Covers(Ev(p))
              \/ waiter'[o].good = p.pts /\ counted'[o] = 1 .. p.pts
<1>1. /\ Ev(p) \in Numbered /\ Ev(p).pts = p.pts /\ p.pts <= issued[o]
      /\ issued[o] \in Nat /\ PtsTypes
    BY LetterIs, TypesAre DEF NumbersInv, TypeInv, TypeOK
<1>2. SteadyIs(waiter[o], counted[o], applied[o], issued[o])
    BY DEF NumbersInv, Steady
<1>3. Ev(p).pts > waiter[o].good => Covers(Ev(p)) \cap counted[o] = {}
    BY <1>1 DEF NumbersInv, Fresh
<1>4. QED
    BY <1>1, <1>2, <1>3, MetSteady

LEMMA IdleSteady ==
    ASSUME NEW w, NEW v, NEW C, NEW A, NEW top, SteadyIs(w, C, A, top),
           v.good = w.good, v.last = w.last, v.count = w.count,
           \/ /\ v.queue = w.queue /\ v.waiting = w.waiting /\ v.requesting = w.requesting
           \/ v.queue = {} /\ v.requesting
    PROVE  SteadyIs(v, C, A, top)
BY DEF SteadyIs

LEMMA RenewedSteady ==
    ASSUME NumbersInv, NEW o \in Owners, Renewed(o)
    PROVE  SteadyIs(waiter'[o], counted'[o], applied'[o], issued[o])
<1>1. PICK d \in asked :
        /\ d.owner = o /\ Answered(d)
        /\ waiter'[o].good = d.answer.pts /\ waiter'[o].last = d.answer.pts
        /\ waiter'[o].count = d.answer.pts /\ waiter'[o].queue = {}
        /\ applied'[o] = applied[o] \cup Brought(d)
        /\ counted'[o] = 1 .. d.answer.pts
    BY DEF Renewed
<1> DEFINE n == d.answer.pts
<1>2. n \in Nat /\ n > 0 /\ n <= issued[o] /\ d.from \in Nat
    BY <1>1, AnswerIs DEF NumbersInv
<1>3. 1 .. d.from \subseteq applied[o] /\ Brought(d) = (d.from + 1) .. n
    BY <1>1 DEF NumbersInv, AskedFit, Brought
<1>4. Cardinality(1 .. n) = n
    BY <1>2, Below
<1> HIDE DEF n
<1>5. 1 .. n \subseteq applied'[o]
    BY <1>1, <1>2, <1>3
<1>6. /\ waiter'[o].good = n /\ waiter'[o].last = n /\ waiter'[o].count = n
      /\ waiter'[o].queue = {} /\ counted'[o] = 1 .. n
    BY <1>1 DEF n
<1>7. QED
    BY <1>2, <1>4, <1>5, <1>6 DEF SteadyIs

LEMMA SteadyStep ==
    ASSUME NumbersInv, [Next]_vars
    PROVE  Steady'
<1> SUFFICES ASSUME NEW o \in Owners
             PROVE  SteadyIs(waiter'[o], counted'[o], applied'[o], issued'[o])
    BY DEF Steady
<1>1. TypeInv /\ SteadyIs(waiter[o], counted[o], applied[o], issued[o])
    BY DEF NumbersInv, Steady
<1>2. SteadyIs(waiter'[o], counted'[o], applied'[o], issued[o])
    <2>1. CASE Idle(o)
        BY <1>1, <2>1, IdleSteady DEF Idle
    <2>2. CASE Met(o)
        BY <2>2, MetIs DEF Met
    <2>3. CASE Renewed(o)
        BY <2>3, RenewedSteady
    <2>4. QED
        BY <1>1, <2>1, <2>2, <2>3, Turns
<1>3. waiter'[o] \in Waiter
    BY <1>1, TypeStep DEF TypeInv, TypeOK
<1>4. QED
    BY <1>1, <1>2, <1>3, ServerGrows, SteadyGrows

LEMMA AppliedGrows ==
    ASSUME TypeInv, [Next]_vars, NEW o \in Owners
    PROVE  applied[o] \subseteq applied'[o]
<1>1. CASE Idle(o)
    BY <1>1 DEF Idle
<1>2. CASE Met(o)
    <2>1. applied \in [Owners -> SUBSET Nat]
        BY DEF TypeInv, TypeOK
    <2>2. PICK p \in pushes : ApplyUpdate(o, Ev(p)) \/ CountAffected(o, Ev(p))
        BY <1>2 DEF Met
    <2>3. \/ UNCHANGED ptsVars
          \/ \E w, timer, shows, counts : PtsStep(o, w, timer, shows, counts)
        BY <2>2 DEF ApplyUpdate, UpdateUnchecked, UpdateStale, UpdateHeld, UpdateApplied,
                    UpdateAppliedWithSkipped, CountAffected, AffectedUncounted,
                    AffectedStale, AffectedInGap, AffectedCounted
    <2>4. QED
        BY <2>1, <2>3 DEF PtsStep, ptsVars
<1>3. CASE Renewed(o)
    BY <1>3 DEF Renewed
<1>4. QED
    BY <1>1, <1>2, <1>3, Turns

\* Two updates on their way do not overlap.
LEMMA Apart ==
    ASSUME TypeInv, PushesFit, NEW p \in pushes, NEW q \in pushes, p # q, p.owner = q.owner
    PROVE  Covers(Ev(p)) \cap Covers(Ev(q)) = {}
<1>1. /\ p.pts \in Nat /\ p.count \in Nat /\ q.pts \in Nat /\ q.count \in Nat
      /\ Covers(Ev(p)) = (p.pts - p.count + 1) .. p.pts
      /\ Covers(Ev(q)) = (q.pts - q.count + 1) .. q.pts
    BY LetterIs DEF Covers
<1>2. CASE p.count = 0 \/ q.count = 0
    BY <1>1, <1>2
<1>3. CASE p.count > 0 /\ q.count > 0
    <2>1. p.pts # q.pts
        BY <1>3 DEF PushesFit
    <2>2. CASE p.pts < q.pts
        <3>1. p.pts <= q.pts - q.count
            BY <1>3, <2>2 DEF PushesFit
        <3>2. QED
            BY <1>1, <3>1
    <2>3. CASE q.pts < p.pts
        <3>1. q.pts <= p.pts - p.count
            BY <1>3, <2>3 DEF PushesFit
        <3>2. QED
            BY <1>1, <3>1
    <2>4. QED
        BY <1>1, <2>1, <2>2, <2>3
<1>4. QED
    BY <1>1, <1>2, <1>3

LEMMA FreshStep ==
    ASSUME NumbersInv, [Next]_vars, NEW p \in pushes'
    PROVE  Fresh(p)'
<1>1. TypeInv /\ PushesFit /\ Steady
    BY DEF NumbersInv
<1>2. ASSUME NEW o \in Owners, NEW n \in Nat, p.owner = o, p \in pushes,
             n \in ends[o], waiter'[o].good = n, counted'[o] = 1 .. n
      PROVE  Fresh(p)'
    <2>1. p.pts \in Nat /\ p.count \in Nat /\ Covers(Ev(p)) = (p.pts - p.count + 1) .. p.pts
        BY <1>1, <1>2, LetterIs DEF Covers
    <2>2. ASSUME p.pts > n
          PROVE  Covers(Ev(p)) \cap 1 .. n = {}
        <3>1. CASE p.count = 0
            BY <2>1, <3>1
        <3>2. CASE p.count > 0
            <4>1. n <= p.pts - p.count
                BY <1>1, <1>2, <2>2, <3>2 DEF PushesFit
            <4>2. QED
                BY <2>1, <4>1
        <3>3. QED
            BY <2>1, <3>1, <3>2
    <2>3. QED
        BY <1>2, <2>2 DEF Fresh
<1>3. CASE p \in pushes
    <2>1. p.owner \in Owners /\ Fresh(p) /\ p.pts \in Nat
        BY <1>1, <1>3, LetterIs DEF NumbersInv
    <2> DEFINE o == p.owner
    <2>2. waiter[o].good \in Nat /\ waiter'[o].good \in Nat
        BY <1>1, <2>1, TypeStep DEF TypeInv, TypeOK, Waiter
    <2>3. CASE Idle(o)
        BY <2>1, <2>3 DEF Idle, Fresh
    <2>4. CASE Met(o)
        <3>1. PICK q \in pushes : /\ q.owner = o /\ pushes' = pushes \ {q}
                                  /\ ApplyUpdate(o, Ev(q)) \/ CountAffected(o, Ev(q))
            BY <2>4 DEF Met
        <3>2. p # q
            BY <3>1
        <3>3. /\ waiter'[o].good >= waiter[o].good
              /\ \/ counted'[o] \subseteq counted[o] \cup Covers(Ev(q))
                 \/ waiter'[o].good = q.pts /\ counted'[o] = 1 .. q.pts
            BY <2>1, <3>1, MetIs
        <3>4. CASE counted'[o] \subseteq counted[o] \cup Covers(Ev(q))
            <4>1. Covers(Ev(p)) \cap Covers(Ev(q)) = {}
                BY <1>1, <1>3, <3>1, <3>2, Apart
            <4>2. ASSUME p.pts > waiter'[o].good
                  PROVE  Covers(Ev(p)) \cap counted'[o] = {}
                <5>1. p.pts > waiter[o].good
                    BY <2>1, <2>2, <3>3, <4>2
                <5>2. Covers(Ev(p)) \cap counted[o] = {}
                    BY <2>1, <5>1 DEF Fresh
                <5>3. QED
                    BY <3>4, <4>1, <5>2
            <4>3. QED
                BY <4>2 DEF Fresh
        <3>5. CASE waiter'[o].good = q.pts /\ counted'[o] = 1 .. q.pts
            <4>1. q.pts \in ends[o] /\ q.pts \in Nat
                BY <1>1, <3>1, LetterIs DEF PushesFit
            <4>2. QED
                BY <1>2, <1>3, <2>1, <3>5, <4>1
        <3>6. QED
            BY <3>3, <3>4, <3>5
    <2>5. CASE Renewed(o)
        <3>1. PICK d \in asked :
                /\ d.owner = o /\ Answered(d) /\ waiter'[o].good = d.answer.pts
                /\ counted'[o] = 1 .. d.answer.pts
            BY <2>5 DEF Renewed
        <3>2. d.answer.pts \in ends[o] /\ d.answer.pts \in Nat
            BY <1>1, <3>1, AnswerIs DEF NumbersInv, AskedFit
        <3>3. QED
            BY <1>2, <1>3, <2>1, <3>1, <3>2
    <2>6. QED
        BY <1>1, <2>1, <2>3, <2>4, <2>5, Turns
<1>4. CASE p \notin pushes
    <2>1. ASSUME NEW o \in Owners, NEW kind \in Kinds, Send(o, issued[o], 0, kind)
          PROVE  Covers(Ev(p)) = {}
        <3>1. p = [owner |-> o, pts |-> issued[o], count |-> 0, kind |-> kind]
            BY <1>4, <2>1 DEF Send
        <3>2. issued[o] \in Nat
            BY <1>1 DEF TypeInv, TypeOK
        <3>3. QED
            BY <3>1, <3>2 DEF Covers, Ev
    <2>2. ASSUME NEW o \in Owners, NEW count \in 1 .. 2, NEW kind \in Kinds,
                 Publish(o, count, kind)
          PROVE  Covers(Ev(p)) \cap counted'[p.owner] = {}
        <3>1. /\ p.owner = o /\ p.pts = issued[o] + count /\ p.count = count
              /\ issued[o] \in Nat /\ UNCHANGED <<waiter, counted>>
            BY <1>1, <1>4, <2>2, PublishIs
        <3>2. counted[o] \subseteq 1 .. waiter[o].last /\ waiter[o].last <= issued[o]
            BY <1>1 DEF Steady, SteadyIs
        <3>3. waiter[o].last \in Nat
            BY <1>1 DEF TypeInv, TypeOK, Waiter
        <3>4. Covers(Ev(p)) = (issued[o] + 1) .. (issued[o] + count)
            BY <3>1 DEF Covers, Ev
        <3>5. QED
            BY <3>1, <3>2, <3>3, <3>4
    <2>3. QED
        BY <1>1, <1>4, <2>1, <2>2, ServerSteps DEF Fresh
<1>5. QED
    BY <1>3, <1>4

\* Where a request on its way comes from: it was there, with the same answer or
\* without one, or it is asked for now.
LEMMA AskedSteps ==
    ASSUME TypeInv, [Next]_vars, NEW d \in asked'
    PROVE  \/ d \in asked
           \/ \E e \in asked : /\ e.answer = NoAnswer
                               /\ d.owner = e.owner /\ d.from = e.from
                               /\ d.answer = Failed \/ d.answer \in Answers(e)
           \/ \E o \in Owners : d = Asking(o, waiter'[o].good)
<1>1. /\ waiter \in [Owners -> Waiter] /\ "account" \in Owners /\ "channel" \in Owners
      /\ waiter["account"] \in Waiter /\ waiter["channel"] \in Waiter
    BY DEF TypeInv, TypeOK, Owners
<1> DEFINE New == \E o \in Owners : d = Asking(o, waiter'[o].good)
<1>2. ASSUME NEW w \in Waiter, NEW rest, rest \subseteq asked, GetDifference(w, rest)
      PROVE  d \in asked \/ New
    <2>1. CASE asked' = rest
        BY <1>2, <2>1
    <2>2. CASE /\ waiter' = [waiter EXCEPT !["account"] = StartRequesting(w)]
               /\ asked' = rest \cup {Asking("account", w.good)}
        <3>1. waiter'["account"].good = w.good
            BY <1>1, <2>2, WaiterFields
        <3>2. QED
            BY <1>1, <1>2, <2>2, <3>1
    <2>3. QED
        BY <1>2, <2>1, <2>2 DEF GetDifference
<1>3. ASSUME NEW w \in Waiter, NEW rest, rest \subseteq asked, NEW afterFail,
             GetChannelDifference(w, rest, afterFail)
      PROVE  d \in asked \/ New
    <2>1. CASE asked' = rest
        BY <1>3, <2>1
    <2>2. CASE /\ waiter' = [waiter EXCEPT !["channel"] = StartRequesting(w)]
               /\ asked' = rest \cup {Asking("channel", w.good)}
        <3>1. waiter'["channel"].good = w.good
            BY <1>1, <2>2, WaiterFields
        <3>2. QED
            BY <1>1, <1>3, <2>2, <3>1
    <2>3. QED
        BY <1>3, <2>1, <2>2 DEF GetChannelDifference
<1>4. StopRequesting(waiter["account"]) \in Waiter
    BY <1>1, WaiterTypes
<1> HIDE DEF New
<1>5. CASE UNCHANGED asked
    BY <1>5
<1>6. CASE Server
    <2>1. ASSUME NEW e \in asked, NEW a, e.answer = NoAnswer, a = Failed \/ a \in Answers(e),
                 asked' = (asked \ {e}) \cup {[e EXCEPT !.answer = a]}
          PROVE  \/ d \in asked
                 \/ \E f \in asked : /\ f.answer = NoAnswer
                                     /\ d.owner = f.owner /\ d.from = f.from
                                     /\ d.answer = Failed \/ d.answer \in Answers(f)
        <3>1. e \in Request
            BY DEF TypeInv, TypeOK
        <3>2. /\ [e EXCEPT !.answer = a].answer = a /\ [e EXCEPT !.answer = a].owner = e.owner
              /\ [e EXCEPT !.answer = a].from = e.from
            BY <3>1 DEF Request
        <3>3. QED
            BY <2>1, <3>2
    <2>2. CASE \E e \in asked : AnswerRequest(e)
        <3>1. PICK e \in asked : AnswerRequest(e)
            BY <2>2
        <3>2. PICK a \in Answers(e) : asked' = (asked \ {e}) \cup {[e EXCEPT !.answer = a]}
            BY <3>1 DEF AnswerRequest
        <3>3. e.answer = NoAnswer
            BY <3>1 DEF AnswerRequest
        <3>4. QED
            BY <2>1, <3>2, <3>3
    <2>3. CASE \E e \in asked : FailRequest(e)
        <3>1. PICK e \in asked : FailRequest(e)
            BY <2>3
        <3>2. e.answer = NoAnswer /\ asked' = (asked \ {e}) \cup {[e EXCEPT !.answer = Failed]}
            BY <3>1 DEF FailRequest
        <3>3. QED
            BY <2>1, <3>2
    <2>4. QED
        BY <1>5, <1>6, <2>2, <2>3 DEF Server, Publish, TellPts, TellTooLong, PublishSeq, LosePush
<1>7. CASE Receive
    <2>1. ASSUME NEW p \in pushes, DropPush(p) \/ ReceiveLetter(p)
          PROVE  d \in asked \/ New
        BY <1>1, <1>2, <1>3, <1>5, <2>1
           DEF DropPush, ReceiveLetter, FeedAccountUpdate, FeedAccountNotLoaded,
               FeedChannelUpdate, DropChannelUpdate, FeedChannelNotLoaded,
               FeedChannelTooLong, ReceiveAffected
    <2>2. QED
        BY <1>1, <1>2, <1>5, <1>7, <2>1 DEF Receive, ReceiveContainer, NewSession, New
<1>8. ASSUME NEW e \in asked, GotAnswer(e)
      PROVE  d \in asked \/ New
    <2>1. CASE GotDifference(e)
        <3>1. CASE AsksChannel(e)
            <4>1. waiter'["channel"] = StartRequesting(waiter["channel"])
                BY <1>1, <2>1, <3>1 DEF GotDifference
            <4>2. waiter'["channel"].good = waiter["channel"].good
                BY <1>1, <4>1, WaiterFields
            <4>3. QED
                BY <1>1, <2>1, <3>1, <4>2 DEF GotDifference, New
        <3>2. CASE ~AsksChannel(e)
            BY <2>1, <3>2 DEF GotDifference
        <3>3. QED
            BY <3>1, <3>2
    <2>2. Answered(e) => \A o \in Owners : StopRequesting(InitAt(waiter[o], e.answer.pts)) \in Waiter
        BY SlicePtsTypes
    <2>3. CASE GotDifferenceSlice(e)
        BY <1>1, <1>2, <2>2, <2>3 DEF GotDifferenceSlice
    <2>4. CASE GotChannelDifferenceSlice(e)
        BY <1>1, <1>3, <2>2, <2>4 DEF GotChannelDifferenceSlice
    <2>5. QED
        BY <1>8, <2>1, <2>3, <2>4 DEF GotAnswer, GotChannelDifference, DifferenceFailed
<1>9. CASE Timers
    <2>1. CASE GetDifference(waiter["account"], asked)
        BY <1>1, <1>2, <2>1 DEF New
    <2>2. CASE GetDifference(StopRequesting(waiter["account"]), asked)
        BY <1>2, <1>4, <2>2 DEF New
    <2>3. CASE \E afterFail : GetChannelDifference(waiter["channel"], asked, afterFail)
        BY <1>1, <1>3, <2>3 DEF New
    <2>4. QED
        BY <1>9, <2>1, <2>2, <2>3 DEF Timers, PtsTimerFires, FailTimerFires, SeqTimerFires, MinTimerFires, New
<1>10. UNCHANGED vars \/ Window => UNCHANGED asked
    BY DEF vars, Window, ShowChannel, HideChannel, LeaveChannel
<1>11. QED
    BY <1>5, <1>6, <1>7, <1>8, <1>9, <1>10 DEF Next, New

LEMMA AnswersFit ==
    ASSUME TypeInv, NEW d \in asked, NEW a \in Answers(d)
    PROVE  a.pts \in ends[d.owner] /\ (a.pts = issued[d.owner] \/ a.pts > d.from)
<1>1. d.owner \in Owners
    BY AnswerIs
<1>2. issued[d.owner] \in ends[d.owner]
    BY <1>1 DEF TypeInv, ServerOK
<1>3. \/ a.pts = issued[d.owner]
      \/ a.pts \in {n \in ends[d.owner] : d.from < n /\ n < issued[d.owner]}
    BY DEF Answers
<1>4. d.from \in Nat /\ ends[d.owner] \subseteq Nat
    BY <1>1, AnswerIs DEF TypeInv, TypeOK
<1>5. QED
    BY <1>2, <1>3, <1>4

LEMMA AskedFitStep ==
    ASSUME NumbersInv, [Next]_vars
    PROVE  AskedFit'
<1>1. TypeInv /\ AskedFit /\ TypeInv'
    BY TypeStep DEF NumbersInv
<1> SUFFICES ASSUME NEW d \in asked'
             PROVE  /\ 1 .. d.from \subseteq applied'[d.owner]
                    /\ Answered(d) => d.answer.pts \in ends'[d.owner]
    BY DEF AskedFit, Answered
<1>2. ASSUME NEW e \in asked
      PROVE  /\ e.owner \in Owners /\ 1 .. e.from \subseteq applied'[e.owner]
             /\ ends[e.owner] \subseteq ends'[e.owner]
    <2>1. e.owner \in Owners /\ 1 .. e.from \subseteq applied[e.owner]
        BY <1>1, AnswerIs DEF AskedFit
    <2>2. QED
        BY <1>1, <2>1, AppliedGrows, ServerGrows
<1>3. CASE d \in asked
    BY <1>1, <1>2, <1>3 DEF AskedFit
<1>4. ASSUME NEW e \in asked, d.owner = e.owner, d.from = e.from,
             d.answer = Failed \/ d.answer \in Answers(e)
      PROVE  /\ 1 .. d.from \subseteq applied'[d.owner]
             /\ Answered(d) => d.answer.pts \in ends'[d.owner]
    <2>1. Answered(d) => d.answer.pts \in ends[e.owner]
        BY <1>1, <1>4, AnswersFit DEF Answered
    <2>2. QED
        BY <1>2, <1>4, <2>1
<1>5. ASSUME NEW o \in Owners, d = Asking(o, waiter'[o].good)
      PROVE  /\ 1 .. d.from \subseteq applied'[d.owner]
             /\ Answered(d) => d.answer.pts \in ends'[d.owner]
    <2>1. waiter'[o].good \in Nat
        BY <1>1 DEF TypeInv, TypeOK, Waiter
    <2>2. d.owner = o /\ d.from = waiter'[o].good /\ ~Answered(d)
        BY <1>5, <2>1, AskingIs
    <2>3. 1 .. waiter'[o].good \subseteq applied'[o]
        BY SteadyStep DEF Steady, SteadyIs
    <2>4. QED
        BY <2>2, <2>3
<1>6. QED
    BY <1>1, <1>3, <1>4, <1>5, AskedSteps

LEMMA NumbersInit ==
    ASSUME Init
    PROVE  NumbersInv
<1>1. TypeInv
    BY TypeInit
<1>2. pushes = {} /\ \A o \in Owners : issued[o] = 1
    BY DEF Init
<1>3. asked = {Asking("account", 0)}
    BY DEF Init
<1>4. AskedFit
    BY <1>3, AskingIs DEF AskedFit, Owners
<1>5. Steady
    <2> SUFFICES ASSUME NEW o \in Owners
                 PROVE  SteadyIs(waiter[o], counted[o], applied[o], issued[o])
        BY DEF Steady
    <2> DEFINE w == waiter[o]
               n == w.good
    <2>1. w \in {StartRequesting(NewWaiter), NewWaiter, InitAt(NewWaiter, 1)}
        BY DEF Init
    <2>2. /\ n \in {0, 1} /\ w.last = n /\ w.count = n /\ w.queue = {}
        <3>1. CASE w = NewWaiter
            BY <3>1 DEF NewWaiter
        <3>2. CASE w = StartRequesting(NewWaiter)
            BY <3>2 DEF StartRequesting, NewWaiter
        <3>3. CASE w = InitAt(NewWaiter, 1)
            BY <3>3 DEF InitAt, NewWaiter
        <3> HIDE DEF w
        <3>4. QED
            BY <2>1, <3>1, <3>2, <3>3
    <2>3. counted[o] = 1 .. n /\ applied[o] = 1 .. n
        BY DEF Init
    <2> HIDE DEF w, n
    <2>4. n \in Nat /\ n <= 1 /\ Cardinality(1 .. n) = n
        BY <2>2, Below
    <2>5. w.good = n
        BY DEF n
    <2>6. SteadyIs(w, 1 .. n, 1 .. n, 1)
        BY <2>2, <2>4, <2>5 DEF SteadyIs
    <2>7. QED
        BY <1>2, <2>3, <2>6 DEF w
<1>6. QED
    BY <1>1, <1>2, <1>4, <1>5 DEF NumbersInv, PushesFit

LEMMA NumbersHold == Spec => []NumbersInv
<1>1. Init => NumbersInv
    BY NumbersInit
<1>2. NumbersInv /\ [Next]_vars => NumbersInv'
    <2> SUFFICES ASSUME NumbersInv, [Next]_vars
                 PROVE  NumbersInv'
        OBVIOUS
    <2>1. TypeInv' /\ PushesFit'
        BY TypeStep, PushesFitStep DEF NumbersInv
    <2>2. Steady' /\ AskedFit' /\ \A p \in pushes' : Fresh(p)'
        BY SteadyStep, AskedFitStep, FreshStep
    <2>3. QED
        BY <2>1, <2>2 DEF NumbersInv
<1>3. QED
    BY <1>1, <1>2, PTL DEF Spec

\* Whatever is reordered, dropped, lost, held back in a PtsWaiter or replaced by
\* the answer of getDifference() or getChannelDifference(): the client never
\* takes a number of a sequence as reached without showing everything up to it.
THEOREM NoUpdateIsSkipped == Spec => []NothingSkipped
<1>1. NumbersInv => NothingSkipped
    BY DEF NumbersInv, Steady, SteadyIs, NothingSkipped
<1>2. QED
    BY <1>1, NumbersHold, PTL

-----------------------------------------------------------------------------
(* The requests of one sequence: at most one is on its way, and its answer     *)
(* starts from the number the sequence has.                                    *)

Own(o) == {d \in asked : d.owner = o}

\* What a step does to the requests of a sequence.
Undisturbed(o) ==
    /\ waiter'[o].requesting = waiter[o].requesting
    /\ waiter[o].requesting => waiter'[o].good = waiter[o].good
    /\ failTimer'[o] = failTimer[o]
    /\ Own(o)' = Own(o)

AnswerComes(o) ==
    /\ UNCHANGED <<waiter, failTimer>>
    /\ \E d, e : /\ d \in Own(o) /\ Own(o)' = (Own(o) \ {d}) \cup {e}
                 /\ e.from = d.from
                 /\ \/ e.answer \in Answers(d)
                    \/ /\ e.answer = Failed
                       /\ o = "channel" => "channelFails" \in Mishaps

Asks(o) ==
    /\ ~waiter[o].requesting \/ failTimer[o]
    /\ waiter'[o].requesting /\ ~failTimer'[o]
    /\ Own(o)' = Own(o) \cup {Asking(o, waiter'[o].good)}

Ends(o) ==
    /\ \E d \in Own(o) : Own(o)' = Own(o) \ {d}
    /\ ~waiter'[o].requesting /\ failTimer'[o] = failTimer[o]

Continues(o) ==
    /\ \E d \in Own(o) : Own(o)' = (Own(o) \ {d}) \cup {Asking(o, waiter'[o].good)}
    /\ waiter'[o].requesting /\ ~failTimer'[o]

Fails(o) ==
    /\ \E d \in Own(o) : d.answer = Failed /\ Own(o)' = Own(o) \ {d}
    /\ failTimer'[o]

GivesUp(o) ==
    /\ o = "channel" /\ failTimer[o]
    /\ Own(o)' = Own(o) /\ ~failTimer'[o]

RequestTurn(o) ==
    \/ Undisturbed(o) \/ AnswerComes(o) \/ Asks(o) \/ Ends(o) \/ Continues(o)
    \/ Fails(o) \/ GivesUp(o)

LEMMA LeftAlone ==
    ASSUME NEW o \in Owners, waiter'[o] = waiter[o], failTimer'[o] = failTimer[o], Own(o)' = Own(o)
    PROVE  RequestTurn(o)
BY DEF RequestTurn, Undisturbed

LEMMA OwnKept ==
    ASSUME UNCHANGED asked, NEW o
    PROVE  Own(o)' = Own(o)
BY DEF Own

\* Counting one update asks for nothing and stops nothing.
LEMMA MetRequesting ==
    ASSUME PtsTypes, NEW o \in Owners, NEW e \in Numbered,
           ApplyUpdate(o, e) \/ CountAffected(o, e)
    PROVE  /\ waiter'[o].requesting = waiter[o].requesting
           /\ waiter[o].requesting => waiter'[o].good = waiter[o].good
<1> DEFINE w == waiter[o]
           c == Checked(w, e)
<1>1. w \in Waiter /\ e \in Event /\ waiter \in [Owners -> Waiter]
    BY DEF PtsTypes, Numbered
<1>2. c \in Waiter /\ c.requesting = w.requesting
    <2>1. c \in Waiter /\ Counted(w, e) \in Waiter
        BY <1>1, CheckTypes
    <2>2. Counted(w, e).requesting = w.requesting
        BY <1>1 DEF Counted, Waiter
    <2>3. CASE ~Inited(w)
        BY <1>1, <2>1, <2>3 DEF Checked, InitAt, Waiter
    <2>4. CASE Inited(w) /\ Gaps(w, e)
        <3>1. c = [Counted(w, e) EXCEPT !.waiting = TRUE]
            BY <2>4 DEF Checked
        <3>2. QED
            BY <2>1, <2>2, <3>1 DEF Waiter
    <2>5. CASE Inited(w) /\ ~Gaps(w, e)
        <3>1. c = [Counted(w, e) EXCEPT !.good = Counted(w, e).last]
            BY <2>5 DEF Checked
        <3>2. QED
            BY <2>1, <2>2, <3>1 DEF Waiter
    <2>6. QED
        BY <2>3, <2>4, <2>5
<1>3. /\ EndWait(c).requesting = c.requesting /\ Enqueue(c, e).requesting = c.requesting
      /\ EndWait(w).requesting = w.requesting /\ EndWait(w).good = w.good
    BY <1>1, <1>2 DEF EndWait, Enqueue, Waiter
<1>4. ASSUME NEW v, NEW timer, NEW shows, NEW counts, PtsStep(o, v, timer, shows, counts)
      PROVE  waiter'[o] = v
    BY <1>1, <1>4 DEF PtsStep
<1> HIDE DEF w, c
<1>5. CASE w.requesting
    <2>1. waiter'[o] = w \/ waiter'[o] = EndWait(w)
        BY <1>4, <1>5 DEF ApplyUpdate, UpdateUnchecked, UpdateStale, UpdateHeld, UpdateApplied,
                          UpdateAppliedWithSkipped, CountAffected, AffectedUncounted,
                          AffectedStale, AffectedInGap, AffectedCounted, ptsVars, w
    <2>2. QED
        BY <1>3, <2>1 DEF w
<1>6. CASE ~w.requesting
    <2>1. \/ waiter'[o] = w \/ waiter'[o] = c \/ waiter'[o] = EndWait(c)
          \/ waiter'[o] = Enqueue(c, e)
        BY <1>4, <1>6 DEF ApplyUpdate, UpdateUnchecked, UpdateStale, UpdateHeld, UpdateApplied,
                          UpdateAppliedWithSkipped, CountAffected, AffectedUncounted,
                          AffectedStale, AffectedInGap, AffectedCounted, ptsVars, w, c
    <2>2. QED
        BY <1>2, <1>3, <1>6, <2>1 DEF w
<1>7. QED
    BY <1>5, <1>6 DEF w

LEMMA AccountAskTurns ==
    ASSUME TypeInv, GetDifference(waiter["account"], asked), NEW o \in Owners
    PROVE  RequestTurn(o)
<1>1. /\ waiter \in [Owners -> Waiter] /\ "account" \in Owners /\ waiter["account"] \in Waiter
      /\ failTimer \in [Owners -> BOOLEAN] /\ waiter["account"].good \in Nat
    BY DEF TypeInv, TypeOK, Owners, Waiter
<1>2. CASE waiter["account"].requesting
    <2>1. UNCHANGED <<asked, failTimer>> /\ waiter'[o] = waiter[o]
        BY <1>1, <1>2 DEF GetDifference
    <2>2. QED
        BY <2>1, LeftAlone, OwnKept
<1>3. CASE ~waiter["account"].requesting
    <2>1. /\ waiter' = [waiter EXCEPT !["account"] = StartRequesting(waiter["account"])]
          /\ asked' = asked \cup {Asking("account", waiter["account"].good)}
          /\ failTimer' = [failTimer EXCEPT !["account"] = FALSE]
        BY <1>3 DEF GetDifference
    <2>2. Asking("account", waiter["account"].good).owner = "account"
        BY <1>1, AskingIs
    <2>3. CASE o = "account"
        <3>1. waiter'[o].requesting /\ waiter'[o].good = waiter[o].good
            BY <1>1, <2>1, <2>3, WaiterFields
        <3>2. Own(o)' = Own(o) \cup {Asking(o, waiter'[o].good)} /\ ~failTimer'[o]
            BY <1>1, <2>1, <2>2, <2>3, <3>1 DEF Own
        <3>3. QED
            BY <1>3, <2>3, <3>1, <3>2 DEF RequestTurn, Asks
    <2>4. CASE o # "account"
        <3>1. waiter'[o] = waiter[o] /\ failTimer'[o] = failTimer[o] /\ Own(o)' = Own(o)
            BY <1>1, <2>1, <2>2, <2>4 DEF Own
        <3>2. QED
            BY <3>1, LeftAlone
    <2>5. QED
        BY <2>3, <2>4
<1>4. QED
    BY <1>2, <1>3

LEMMA ChannelAskTurns ==
    ASSUME TypeInv, NEW afterFail \in BOOLEAN, afterFail => failTimer["channel"],
           GetChannelDifference(waiter["channel"], asked, afterFail), NEW o \in Owners
    PROVE  RequestTurn(o)
<1>1. /\ waiter \in [Owners -> Waiter] /\ "channel" \in Owners /\ waiter["channel"] \in Waiter
      /\ failTimer \in [Owners -> BOOLEAN] /\ waiter["channel"].good \in Nat
    BY DEF TypeInv, TypeOK, Owners, Waiter
<1>2. CASE ~AsksForChannel(waiter["channel"])
    <2>1. /\ UNCHANGED asked /\ waiter'[o] = waiter[o]
          /\ failTimer' = IF afterFail THEN [failTimer EXCEPT !["channel"] = FALSE] ELSE failTimer
        BY <1>1, <1>2 DEF GetChannelDifference
    <2>2. CASE afterFail /\ o = "channel"
        BY <1>1, <2>1, <2>2, OwnKept DEF RequestTurn, GivesUp
    <2>3. CASE ~(afterFail /\ o = "channel")
        <3>1. failTimer'[o] = failTimer[o]
            BY <1>1, <2>1, <2>3
        <3>2. QED
            BY <2>1, <3>1, LeftAlone, OwnKept
    <2>4. QED
        BY <2>2, <2>3
<1>3. CASE AsksForChannel(waiter["channel"])
    <2>1. /\ waiter' = [waiter EXCEPT !["channel"] = StartRequesting(waiter["channel"])]
          /\ asked' = asked \cup {Asking("channel", waiter["channel"].good)}
          /\ failTimer' = [failTimer EXCEPT !["channel"] = FALSE]
          /\ ~waiter["channel"].requesting
        BY <1>3 DEF GetChannelDifference, AsksForChannel
    <2>2. Asking("channel", waiter["channel"].good).owner = "channel"
        BY <1>1, AskingIs
    <2>3. CASE o = "channel"
        <3>1. waiter'[o].requesting /\ waiter'[o].good = waiter[o].good
            BY <1>1, <2>1, <2>3, WaiterFields
        <3>2. Own(o)' = Own(o) \cup {Asking(o, waiter'[o].good)} /\ ~failTimer'[o]
            BY <1>1, <2>1, <2>2, <2>3, <3>1 DEF Own
        <3>3. QED
            BY <2>1, <2>3, <3>1, <3>2 DEF RequestTurn, Asks
    <2>4. CASE o # "channel"
        <3>1. waiter'[o] = waiter[o] /\ failTimer'[o] = failTimer[o] /\ Own(o)' = Own(o)
            BY <1>1, <2>1, <2>2, <2>4 DEF Own
        <3>2. QED
            BY <3>1, LeftAlone
    <2>5. QED
        BY <2>3, <2>4
<1>4. QED
    BY <1>2, <1>3


LEMMA ServerTurnsRequests ==
    ASSUME TypeInv, Server, NEW o \in Owners
    PROVE  RequestTurn(o)
<1>1. UNCHANGED <<waiter, failTimer, asked>> => RequestTurn(o)
    BY LeftAlone, OwnKept
<1>2. ASSUME NEW d \in asked, NEW a,
             asked' = (asked \ {d}) \cup {[d EXCEPT !.answer = a]},
             UNCHANGED <<waiter, failTimer>>,
             \/ a \in Answers(d)
             \/ a = Failed /\ (d.owner = "channel" => "channelFails" \in Mishaps)
      PROVE  RequestTurn(o)
    <2> DEFINE e == [d EXCEPT !.answer = a]
    <2>1. d \in Request
        BY DEF TypeInv, TypeOK
    <2>2. e.owner = d.owner /\ e.from = d.from /\ e.answer = a
        BY <2>1 DEF Request
    <2>3. asked' = (asked \ {d}) \cup {e}
        BY <1>2
    <2> HIDE DEF e
    <2>4. CASE d.owner = o
        <3>1. d \in Own(o) /\ Own(o)' = (Own(o) \ {d}) \cup {e}
            BY <2>2, <2>3, <2>4 DEF Own
        <3>2. QED
            BY <1>2, <2>2, <2>4, <3>1 DEF RequestTurn, AnswerComes
    <2>5. CASE d.owner # o
        <3>1. Own(o)' = Own(o)
            BY <2>2, <2>3, <2>5 DEF Own
        <3>2. QED
            BY <1>2, <3>1, LeftAlone
    <2>6. QED
        BY <2>4, <2>5
<1>3. CASE \E d \in asked : AnswerRequest(d)
    <2>1. PICK d \in asked : AnswerRequest(d)
        BY <1>3
    <2>2. PICK a \in Answers(d) : asked' = (asked \ {d}) \cup {[d EXCEPT !.answer = a]}
        BY <2>1 DEF AnswerRequest
    <2>3. UNCHANGED <<waiter, failTimer>>
        BY <2>1 DEF AnswerRequest, ptsVars
    <2>4. QED
        BY <1>2, <2>2, <2>3
<1>4. CASE \E d \in asked : FailRequest(d)
    <2>1. PICK d \in asked : FailRequest(d)
        BY <1>4
    <2>2. asked' = (asked \ {d}) \cup {[d EXCEPT !.answer = Failed]}
          /\ UNCHANGED <<waiter, failTimer>>
        BY <2>1 DEF FailRequest, ptsVars
    <2>3. d.owner = "channel" => "channelFails" \in Mishaps
        BY <2>1 DEF FailRequest, Mishap
    <2>4. QED
        BY <1>2, <2>2, <2>3
<1>5. QED
    BY <1>1, <1>3, <1>4 DEF Server, Publish, TellPts, TellTooLong, PublishSeq, LosePush, ptsVars

LEMMA LetterTurnsRequests ==
    ASSUME TypeInv, Receive, NEW o \in Owners
    PROVE  RequestTurn(o)
<1>1. UNCHANGED <<waiter, failTimer, asked>> => RequestTurn(o)
    BY LeftAlone, OwnKept
<1>2. ASSUME NEW p \in pushes, p.owner \in Owners, UNCHANGED <<failTimer, asked>>,
             ApplyUpdate(p.owner, Ev(p)) \/ CountAffected(p.owner, Ev(p))
      PROVE  RequestTurn(o)
    <2>1. PtsTypes /\ Ev(p) \in Numbered
        BY LetterIs, TypesAre
    <2>2. CASE o = p.owner
        <3>1. /\ waiter'[o].requesting = waiter[o].requesting
              /\ waiter[o].requesting => waiter'[o].good = waiter[o].good
            BY <1>2, <2>1, <2>2, MetRequesting
        <3>2. QED
            BY <1>2, <3>1, OwnKept DEF RequestTurn, Undisturbed
    <2>3. CASE o # p.owner
        <3>1. \/ UNCHANGED ptsVars
              \/ \E w, timer, shows, counts : PtsStep(p.owner, w, timer, shows, counts)
            BY <1>2 DEF ApplyUpdate, UpdateUnchecked, UpdateStale, UpdateHeld, UpdateApplied,
                        UpdateAppliedWithSkipped, CountAffected, AffectedUncounted,
                        AffectedStale, AffectedInGap, AffectedCounted
        <3>2. waiter'[o] = waiter[o]
            BY <2>1, <2>3, <3>1 DEF PtsStep, PtsTypes, ptsVars
        <3>3. QED
            BY <1>2, <3>2, LeftAlone, OwnKept
    <2>4. QED
        BY <2>2, <2>3
<1>3. ASSUME NEW p \in pushes, DropPush(p) \/ ReceiveLetter(p)
      PROVE  RequestTurn(o)
    <2>1. CASE DropPush(p) \/ DropChannelUpdate(p) \/ FeedChannelNotLoaded(p)
        BY <1>1, <2>1 DEF DropPush, DropChannelUpdate, FeedChannelNotLoaded, ptsVars
    <2>2. CASE FeedAccountUpdate(p)
        BY <1>2, <2>2 DEF FeedAccountUpdate, Owners
    <2>3. CASE FeedChannelUpdate(p)
        BY <1>2, <2>3 DEF FeedChannelUpdate, Owners
    <2>4. CASE ReceiveAffected(p)
        BY <1>2, <2>4, LetterIs DEF ReceiveAffected
    <2>5. CASE FeedAccountNotLoaded(p)
        BY <2>5, AccountAskTurns DEF FeedAccountNotLoaded
    <2>6. CASE FeedChannelTooLong(p)
        BY <1>1, <2>6, ChannelAskTurns DEF FeedChannelTooLong
    <2>7. QED
        BY <1>3, <2>1, <2>2, <2>3, <2>4, <2>5, <2>6 DEF ReceiveLetter
<1>4. CASE \E n \in containers : ReceiveContainer(n)
    BY <1>1, <1>4 DEF ReceiveContainer, ptsVars
<1>5. CASE NewSession
    BY <1>5, AccountAskTurns DEF NewSession
<1>6. QED
    BY <1>3, <1>4, <1>5 DEF Receive

LEMMA AnswerTurnsRequests ==
    ASSUME TypeInv, NEW d \in asked, GotAnswer(d), NEW o \in Owners
    PROVE  RequestTurn(o)
<1>1. /\ waiter \in [Owners -> Waiter] /\ failTimer \in [Owners -> BOOLEAN]
      /\ "account" \in Owners /\ "channel" \in Owners /\ o \in {"account", "channel"}
      /\ waiter["account"] \in Waiter /\ waiter["channel"] \in Waiter
      /\ d.owner \in Owners
    BY AnswerIs DEF TypeInv, TypeOK, Owners
<1>2. ASSUME asked' = asked \ {d}
      PROVE  /\ o = d.owner => d \in Own(o) /\ Own(o)' = Own(o) \ {d}
             /\ o # d.owner => Own(o)' = Own(o)
    BY <1>2 DEF Own
<1>3. ASSUME NEW q \in Owners, NEW n \in Nat, asked' = (asked \ {d}) \cup {Asking(q, n)}
      PROVE  /\ o = d.owner => d \in Own(o)
             /\ o = d.owner /\ o = q => Own(o)' = (Own(o) \ {d}) \cup {Asking(q, n)}
             /\ o = d.owner /\ o # q => Own(o)' = Own(o) \ {d}
             /\ o # d.owner /\ o = q => Own(o)' = Own(o) \cup {Asking(q, n)}
             /\ o # d.owner /\ o # q => Own(o)' = Own(o)
    <2>1. Asking(q, n).owner = q
        BY AskingIs
    <2>2. QED
        BY <1>3, <2>1 DEF Own
<1> DEFINE w == InitAt(waiter[d.owner], d.answer.pts)
           v == StopRequesting(w)
<1>4. Answered(d) => /\ w \in Waiter /\ v \in Waiter /\ ~v.requesting
                     /\ v.good = d.answer.pts /\ v.good \in Nat /\ v.good > 0
    <2> SUFFICES ASSUME Answered(d)
                 PROVE  /\ w \in Waiter /\ v \in Waiter /\ ~v.requesting
                        /\ v.good = d.answer.pts /\ v.good \in Nat /\ v.good > 0
        OBVIOUS
    <2>1. d.answer.pts \in Nat /\ d.answer.pts > 0 /\ waiter[d.owner] \in Waiter
        BY <1>1, AnswerIs
    <2>2. w \in Waiter /\ v \in Waiter
        BY <2>1, WaiterTypes
    <2>3. w.good = d.answer.pts
        BY <2>1, InitFields
    <2> HIDE DEF w
    <2>4. QED
        BY <2>1, <2>2, <2>3, WaiterFields
<1>5. CASE DifferenceFailed(d)
    <2>1. /\ d.answer = Failed /\ asked' = asked \ {d}
          /\ failTimer' = [failTimer EXCEPT ![d.owner] = TRUE] /\ UNCHANGED waiter
        BY <1>5 DEF DifferenceFailed, ptsVars
    <2>2. CASE o = d.owner
        <3>1. failTimer'[o] /\ d \in Own(o) /\ Own(o)' = Own(o) \ {d}
            BY <1>1, <1>2, <2>1, <2>2
        <3>2. QED
            BY <2>1, <3>1 DEF RequestTurn, Fails
    <2>3. CASE o # d.owner
        <3>1. waiter'[o] = waiter[o] /\ failTimer'[o] = failTimer[o] /\ Own(o)' = Own(o)
            BY <1>1, <1>2, <2>1, <2>3
        <3>2. QED
            BY <3>1, LeftAlone
    <2>4. QED
        BY <2>2, <2>3
<1>6. CASE GotDifference(d)
    <2>1. /\ d.owner = "account" /\ Answered(d)
          /\ waiter' = [waiter EXCEPT
               !["account"] = StopRequesting(InitAt(@, d.answer.pts)),
               !["channel"] = IF AsksChannel(d) THEN StartRequesting(@) ELSE @]
          /\ failTimer' = [failTimer EXCEPT !["channel"] = @ /\ ~AsksChannel(d)]
          /\ asked' = (asked \ {d}) \cup
               (IF AsksChannel(d) THEN {Asking("channel", waiter["channel"].good)} ELSE {})
        BY <1>6 DEF GotDifference
    <2>2. waiter["channel"].good \in Nat
        BY <1>1 DEF Waiter
    <2>3. waiter'["account"] = v
        BY <1>1, <2>1
    <2> HIDE DEF v, w
    <2>4. CASE AsksChannel(d)
        <3>1. /\ ~waiter["channel"].requesting
              /\ asked' = (asked \ {d}) \cup {Asking("channel", waiter["channel"].good)}
              /\ waiter'["channel"] = StartRequesting(waiter["channel"])
              /\ ~failTimer'["channel"]
            BY <1>1, <2>1, <2>4 DEF AsksChannel, AsksForChannel
        <3>2. CASE o = "account"
            <4>1. d \in Own(o) /\ Own(o)' = Own(o) \ {d} /\ ~waiter'[o].requesting
                BY <1>1, <1>3, <1>4, <2>1, <2>2, <2>3, <3>1, <3>2
            <4>2. failTimer'[o] = failTimer[o]
                BY <1>1, <2>1, <3>2
            <4>3. QED
                BY <4>1, <4>2 DEF RequestTurn, Ends
        <3>3. CASE o = "channel"
            <4>1. waiter'[o].requesting /\ waiter'[o].good = waiter[o].good
                BY <1>1, <3>1, <3>3, WaiterFields
            <4>2. Own(o)' = Own(o) \cup {Asking(o, waiter'[o].good)}
                BY <1>1, <1>3, <2>1, <2>2, <3>1, <3>3, <4>1
            <4>3. QED
                BY <3>1, <3>3, <4>1, <4>2 DEF RequestTurn, Asks
        <3>4. QED
            BY <1>1, <3>2, <3>3
    <2>5. CASE ~AsksChannel(d)
        <3>1. asked' = asked \ {d} /\ waiter'["channel"] = waiter["channel"]
            BY <1>1, <2>1, <2>5
        <3>2. failTimer'["channel"] = failTimer["channel"]
            BY <1>1, <2>1, <2>5
        <3>3. CASE o = "account"
            <4>1. d \in Own(o) /\ Own(o)' = Own(o) \ {d} /\ ~waiter'[o].requesting
                BY <1>2, <1>4, <2>1, <2>3, <3>1, <3>3
            <4>2. failTimer'[o] = failTimer[o]
                BY <1>1, <2>1, <3>3
            <4>3. QED
                BY <4>1, <4>2 DEF RequestTurn, Ends
        <3>4. CASE o = "channel"
            <4>1. Own(o)' = Own(o)
                BY <1>2, <2>1, <3>1, <3>4
            <4>2. QED
                BY <3>1, <3>2, <3>4, <4>1, LeftAlone
        <3>5. QED
            BY <1>1, <3>3, <3>4
    <2>6. QED
        BY <2>4, <2>5
<1>7. CASE GotChannelDifference(d)
    <2>1. /\ d.owner = "channel" /\ Answered(d) /\ asked' = asked \ {d} /\ UNCHANGED failTimer
          /\ waiter' = [waiter EXCEPT !["channel"] = [v EXCEPT !.polling = @ \/ shown]]
        BY <1>7 DEF GotChannelDifference
    <2> HIDE DEF v, w
    <2>2. CASE o = "channel"
        <3>1. waiter'[o] = [v EXCEPT !.polling = @ \/ shown]
            BY <1>1, <2>1, <2>2
        <3>2. ~waiter'[o].requesting
            <4>1. \A b : [v EXCEPT !.polling = b].requesting = v.requesting
                BY <1>4, <2>1, PollingFields
            <4>2. QED
                BY <1>4, <2>1, <3>1, <4>1
        <3>3. QED
            BY <1>2, <2>1, <2>2, <3>2 DEF RequestTurn, Ends
    <2>3. CASE o # "channel"
        <3>1. waiter'[o] = waiter[o] /\ failTimer'[o] = failTimer[o] /\ Own(o)' = Own(o)
            BY <1>1, <1>2, <2>1, <2>3
        <3>2. QED
            BY <3>1, LeftAlone
    <2>4. QED
        BY <2>2, <2>3
<1>8. ASSUME Answered(d), waiter' = [waiter EXCEPT ![d.owner] = StartRequesting(v)],
             asked' = (asked \ {d}) \cup {Asking(d.owner, v.good)},
             failTimer' = [failTimer EXCEPT ![d.owner] = FALSE]
      PROVE  RequestTurn(o)
    <2> HIDE DEF v, w
    <2>1. CASE o = d.owner
        <3>1. waiter'[o] = StartRequesting(v)
            BY <1>1, <1>8, <2>1
        <3>2. waiter'[o].requesting /\ waiter'[o].good = v.good
            BY <1>4, <1>8, <3>1, WaiterFields
        <3>3. /\ d \in Own(o) /\ Own(o)' = (Own(o) \ {d}) \cup {Asking(o, waiter'[o].good)}
              /\ ~failTimer'[o]
            BY <1>1, <1>3, <1>4, <1>8, <2>1, <3>2
        <3>4. QED
            BY <3>2, <3>3 DEF RequestTurn, Continues
    <2>2. CASE o # d.owner
        <3>1. waiter'[o] = waiter[o] /\ failTimer'[o] = failTimer[o]
            BY <1>1, <1>8, <2>2
        <3>2. Own(o)' = Own(o)
            BY <1>1, <1>3, <1>4, <1>8, <2>2
        <3>3. QED
            BY <3>1, <3>2, LeftAlone
    <2>3. QED
        BY <2>1, <2>2
<1>9. CASE GotDifferenceSlice(d)
    <2>1. d.owner = "account" /\ Answered(d) /\ GetDifference(v, asked \ {d})
        BY <1>9 DEF GotDifferenceSlice
    <2> HIDE DEF v, w
    <2>2. QED
        BY <1>4, <1>8, <2>1 DEF GetDifference
<1>10. CASE GotChannelDifferenceSlice(d)
    <2>1. d.owner = "channel" /\ Answered(d) /\ GetChannelDifference(v, asked \ {d}, FALSE)
        BY <1>10 DEF GotChannelDifferenceSlice
    <2> HIDE DEF v, w
    <2>2. AsksForChannel(v)
        BY <1>4, <2>1 DEF AsksForChannel, Inited
    <2>3. QED
        BY <1>8, <2>1, <2>2 DEF GetChannelDifference
<1>11. QED
    BY <1>5, <1>6, <1>7, <1>9, <1>10 DEF GotAnswer


LEMMA RequestTurns ==
    ASSUME TypeInv, [Next]_vars, NEW o \in Owners
    PROVE  RequestTurn(o)
<1>1. UNCHANGED vars => RequestTurn(o)
    BY LeftAlone, OwnKept DEF vars, ptsVars
<1>2. /\ waiter \in [Owners -> Waiter] /\ failTimer \in [Owners -> BOOLEAN]
      /\ "account" \in Owners /\ "channel" \in Owners
      /\ waiter["account"] \in Waiter /\ waiter["channel"] \in Waiter
      /\ waiter["account"].good \in Nat
    BY DEF TypeInv, TypeOK, Owners, Waiter
<1>3. CASE FailTimerFires("account")
    <2> DEFINE v == StopRequesting(waiter["account"])
    <2>1. v \in Waiter /\ ~v.requesting /\ v.good = waiter["account"].good
        BY <1>2, WaiterTypes, WaiterFields
    <2>2. failTimer["account"] /\ GetDifference(v, asked)
        BY <1>3 DEF FailTimerFires
    <2> HIDE DEF v
    <2>3. /\ waiter' = [waiter EXCEPT !["account"] = StartRequesting(v)]
          /\ asked' = asked \cup {Asking("account", v.good)}
          /\ failTimer' = [failTimer EXCEPT !["account"] = FALSE]
        BY <2>1, <2>2 DEF GetDifference
    <2>4. Asking("account", v.good).owner = "account"
        BY <1>2, <2>1, AskingIs
    <2>5. CASE o = "account"
        <3>1. waiter'[o].requesting /\ waiter'[o].good = v.good
            BY <1>2, <2>1, <2>3, <2>5, WaiterFields
        <3>2. Own(o)' = Own(o) \cup {Asking(o, waiter'[o].good)} /\ ~failTimer'[o]
            BY <1>2, <2>3, <2>4, <2>5, <3>1 DEF Own
        <3>3. QED
            BY <2>2, <2>5, <3>1, <3>2 DEF RequestTurn, Asks
    <2>6. CASE o # "account"
        <3>1. waiter'[o] = waiter[o] /\ failTimer'[o] = failTimer[o] /\ Own(o)' = Own(o)
            BY <1>2, <2>3, <2>4, <2>6 DEF Own
        <3>2. QED
            BY <3>1, LeftAlone
    <2>7. QED
        BY <2>5, <2>6
<1>4. CASE FailTimerFires("channel")
    BY <1>4, ChannelAskTurns DEF FailTimerFires
<1>5. CASE Timers
    BY <1>3, <1>4, <1>5, AccountAskTurns, ChannelAskTurns
       DEF Timers, PtsTimerFires, SeqTimerFires, MinTimerFires, Owners
<1>6. CASE Window
    <2>1. UNCHANGED <<failTimer, asked>> /\
          \/ UNCHANGED waiter
          \/ \E b : waiter' = [waiter EXCEPT !["channel"] = [waiter["channel"] EXCEPT !.polling = b]]
        <3>1. CASE HideChannel
            BY <3>1 DEF HideChannel, ptsVars
        <3>2. CASE ShowChannel
            BY <3>2 DEF ShowChannel
        <3>3. CASE LeaveChannel
            BY <3>3 DEF LeaveChannel
        <3>4. QED
            BY <1>6, <3>1, <3>2, <3>3 DEF Window
    <2>2. CASE waiter'[o] = waiter[o]
        BY <2>1, <2>2, LeftAlone, OwnKept
    <2>3. ASSUME NEW b, waiter'[o] = [waiter[o] EXCEPT !.polling = b], o = "channel"
          PROVE  RequestTurn(o)
        <3>1. waiter'[o].good = waiter[o].good /\ waiter'[o].requesting = waiter[o].requesting
            BY <1>2, <2>3, PollingFields
        <3>2. QED
            BY <2>1, <3>1, OwnKept DEF RequestTurn, Undisturbed
    <2>4. CASE o = "channel"
        BY <1>2, <2>1, <2>2, <2>3, <2>4
    <2>5. CASE o # "channel"
        BY <1>2, <2>1, <2>2, <2>5
    <2>6. QED
        BY <2>4, <2>5
<1>7. QED
    BY <1>1, <1>5, <1>6, ServerTurnsRequests, LetterTurnsRequests, AnswerTurnsRequests DEF Next

\* At most one request of a sequence is on its way, and only while the sequence
\* counts as requested; its answer brings what comes after the sequence's number.
OneRequest(o) ==
    /\ \A d \in Own(o) : /\ waiter[o].requesting /\ ~failTimer[o]
                         /\ d.from = waiter[o].good
                         /\ Answered(d) => d.answer.pts >= d.from
    /\ \A d, e \in Own(o) : d = e

LEMMA OneRequestStep ==
    ASSUME NumbersInv, NEW o \in Owners, OneRequest(o), [Next]_vars
    PROVE  OneRequest(o)'
<1>1. TypeInv /\ TypeInv' /\ RequestTurn(o)
    BY TypeStep, RequestTurns DEF NumbersInv
<1>2. waiter[o].good \in Nat /\ waiter'[o].good \in Nat
    BY <1>1 DEF TypeInv, TypeOK, Waiter
<1> DEFINE r == Asking(o, waiter'[o].good)
<1>3. r.from = waiter'[o].good /\ ~Answered(r)
    BY <1>2, AskingIs
<1> HIDE DEF r
<1>4. ASSUME Own(o)' = {r}, waiter'[o].requesting, ~failTimer'[o]
      PROVE  OneRequest(o)'
    BY <1>3, <1>4 DEF OneRequest, Answered
<1>5. ASSUME Own(o)' = {}
      PROVE  OneRequest(o)'
    BY <1>5 DEF OneRequest
<1>6. \A d \in Own(o) : Own(o) \ {d} = {}
    BY DEF OneRequest
<1>7. CASE Undisturbed(o)
    BY <1>7 DEF Undisturbed, OneRequest, Answered
<1>8. CASE AnswerComes(o)
    <2>1. PICK d, e : /\ d \in Own(o) /\ Own(o)' = (Own(o) \ {d}) \cup {e}
                      /\ e.from = d.from
                      /\ e.answer \in Answers(d) \/ e.answer = Failed
        BY <1>8 DEF AnswerComes
    <2>2. Own(o)' = {e} /\ d \in asked /\ d.owner = o
        BY <1>6, <2>1 DEF Own
    <2>3. d.from = waiter[o].good /\ waiter[o].requesting /\ ~failTimer[o]
        BY <2>1 DEF OneRequest
    <2>4. waiter[o].good <= waiter[o].last /\ waiter[o].last <= issued[o]
          /\ waiter[o].last \in Nat /\ issued[o] \in Nat
        BY <1>1 DEF NumbersInv, Steady, SteadyIs, TypeInv, TypeOK, Waiter
    <2>5. e.answer \in Answers(d) => e.answer.pts >= e.from
        <3> SUFFICES ASSUME e.answer \in Answers(d)
                     PROVE  e.answer.pts >= e.from
            OBVIOUS
        <3>1. e.answer.pts \in ends[o] /\ (e.answer.pts = issued[o] \/ e.answer.pts > d.from)
            BY <1>1, <2>2, AnswersFit
        <3>2. e.answer.pts \in Nat
            BY <1>1, <3>1 DEF TypeInv, TypeOK
        <3>3. QED
            BY <1>2, <2>1, <2>3, <2>4, <3>1, <3>2
    <2>6. Answered(e) => e.answer.pts >= e.from
        BY <2>1, <2>5 DEF Answered
    <2>7. UNCHANGED <<waiter, failTimer>>
        BY <1>8 DEF AnswerComes
    <2>8. QED
        BY <2>1, <2>2, <2>3, <2>6, <2>7 DEF OneRequest, Answered
<1>9. CASE Asks(o)
    <2>1. Own(o) = {}
        BY <1>9 DEF Asks, OneRequest
    <2>2. Own(o)' = {r}
        BY <1>9, <2>1 DEF Asks, r
    <2>3. QED
        BY <1>4, <1>9, <2>2 DEF Asks
<1>10. CASE Continues(o)
    <2>1. Own(o)' = {r}
        BY <1>6, <1>10 DEF Continues, r
    <2>2. QED
        BY <1>4, <1>10, <2>1 DEF Continues
<1>11. CASE Ends(o) \/ Fails(o)
    <2>1. Own(o)' = {}
        BY <1>6, <1>11 DEF Ends, Fails
    <2>2. QED
        BY <1>5, <2>1
<1>12. CASE GivesUp(o)
    <2>1. Own(o)' = {}
        BY <1>12 DEF GivesUp, OneRequest
    <2>2. QED
        BY <1>5, <2>1
<1>13. QED
    BY <1>1, <1>7, <1>8, <1>9, <1>10, <1>11, <1>12 DEF RequestTurn

RequestsInv == NumbersInv /\ \A o \in Owners : OneRequest(o)

LEMMA NumbersStep ==
    ASSUME NumbersInv, [Next]_vars
    PROVE  NumbersInv'
<1>1. TypeInv' /\ PushesFit'
    BY TypeStep, PushesFitStep DEF NumbersInv
<1>2. Steady' /\ AskedFit' /\ \A p \in pushes' : Fresh(p)'
    BY SteadyStep, AskedFitStep, FreshStep
<1>3. QED
    BY <1>1, <1>2 DEF NumbersInv

LEMMA RequestsInit ==
    ASSUME Init
    PROVE  RequestsInv
<1>1. NumbersInv
    BY NumbersInit
<1>2. /\ asked = {Asking("account", 0)} /\ "account" \in Owners
      /\ waiter["account"] = StartRequesting(NewWaiter)
      /\ \A o \in Owners : ~failTimer[o]
    BY DEF Init, Owners
<1>3. StartRequesting(NewWaiter).good = 0 /\ StartRequesting(NewWaiter).requesting
    BY NewWaiterType, WaiterFields DEF NewWaiter
<1>4. \A o \in Owners : \A d \in Own(o) : o = "account" /\ d.from = 0 /\ ~Answered(d)
    BY <1>2, AskingIs DEF Own
<1>5. \A o \in Owners : OneRequest(o)
    BY <1>2, <1>3, <1>4 DEF OneRequest, Own
<1>6. QED
    BY <1>1, <1>5 DEF RequestsInv

LEMMA RequestsHold == Spec => []RequestsInv
<1>1. Init => RequestsInv
    BY RequestsInit
<1>2. RequestsInv /\ [Next]_vars => RequestsInv'
    BY NumbersStep, OneRequestStep DEF RequestsInv
<1>3. QED
    BY <1>1, <1>2, PTL DEF Spec

\* An answer of getDifference() or getChannelDifference() sets the number of the
\* sequence to one the server had earlier, PtsWaiter::init() overwrites what was
\* counted, and yet the number never falls: nothing moves it while the request
\* is on its way, and no second one is.
THEOREM NumbersNeverFall == Spec => NeverBack
<1>1. RequestsInv /\ [Next]_vars => [\A o \in Owners : waiter'[o].good >= waiter[o].good]_vars
    <2> SUFFICES ASSUME RequestsInv, [Next]_vars, NEW o \in Owners
                 PROVE  waiter'[o].good >= waiter[o].good
        OBVIOUS
    <2>1. NumbersInv /\ TypeInv
        BY DEF RequestsInv, NumbersInv
    <2>2. waiter[o].good \in Nat
        BY <2>1 DEF TypeInv, TypeOK, Waiter
    <2>3. CASE Idle(o)
        BY <2>2, <2>3 DEF Idle
    <2>4. CASE Met(o)
        BY <2>1, <2>4, MetIs DEF Met
    <2>5. CASE Renewed(o)
        <3>1. PICK d \in asked : d.owner = o /\ Answered(d) /\ waiter'[o].good = d.answer.pts
            BY <2>5 DEF Renewed
        <3>2. d.from = waiter[o].good /\ d.answer.pts >= d.from
            BY <3>1 DEF RequestsInv, OneRequest, Own
        <3>3. QED
            BY <3>1, <3>2
    <2>6. QED
        BY <2>1, <2>3, <2>4, <2>5, Turns
<1>2. QED
    BY <1>1, RequestsHold, PTL DEF Spec, NeverBack


-----------------------------------------------------------------------------
(* A request that is waited for can end.                                       *)

\* Nothing fails that is asked for the channel.
ChannelAnswers ==
    ~failTimer["channel"] /\ \A d \in Own("channel") : d.answer # Failed

CanEnd(o) == waiter[o].requesting => failTimer[o] \/ Own(o) # {}

LEMMA AnswersAreNoFailures ==
    ASSUME NEW d, NEW a \in Answers(d)
    PROVE  a # Failed
BY DEF Answers, Failed

LEMMA AskingIsNoFailure ==
    ASSUME NEW o, NEW n
    PROVE  Asking(o, n).answer # Failed
BY DEF Asking, NoAnswer, Failed

LEMMA ChannelAnswersStep ==
    ASSUME TypeInv, ChannelAnswers, "channelFails" \notin Mishaps, [Next]_vars
    PROVE  ChannelAnswers'
<1>1. "channel" \in Owners
    BY DEF Owners
<1>2. RequestTurn("channel")
    BY <1>1, RequestTurns
<1>3. CASE Undisturbed("channel")
    BY <1>3 DEF Undisturbed, ChannelAnswers
<1>4. CASE AnswerComes("channel")
    <2>1. PICK d, e :
            Own("channel")' = (Own("channel") \ {d}) \cup {e} /\ e.answer \in Answers(d)
        BY <1>4 DEF AnswerComes
    <2>2. QED
        BY <1>4, <2>1, AnswersAreNoFailures DEF AnswerComes, ChannelAnswers
<1>5. CASE Asks("channel")
    BY <1>5, AskingIsNoFailure DEF Asks, ChannelAnswers
<1>6. CASE Ends("channel")
    BY <1>6 DEF Ends, ChannelAnswers
<1>7. CASE Continues("channel")
    BY <1>7, AskingIsNoFailure DEF Continues, ChannelAnswers
<1>8. ~Fails("channel") /\ ~GivesUp("channel")
    BY DEF Fails, GivesUp, ChannelAnswers
<1>9. QED
    BY <1>2, <1>3, <1>4, <1>5, <1>6, <1>7, <1>8 DEF RequestTurn

LEMMA CanEndStep ==
    ASSUME TypeInv, ChannelAnswers, NEW o \in Owners, CanEnd(o), [Next]_vars
    PROVE  CanEnd(o)'
<1>1. RequestTurn(o)
    BY RequestTurns
<1>2. CASE Undisturbed(o)
    BY <1>2 DEF Undisturbed, CanEnd
<1>3. CASE AnswerComes(o)
    BY <1>3 DEF AnswerComes, CanEnd
<1>4. CASE Asks(o) \/ Continues(o)
    BY <1>4 DEF Asks, Continues, CanEnd
<1>5. CASE Ends(o) \/ Fails(o)
    BY <1>5 DEF Ends, Fails, CanEnd
<1>6. ~GivesUp(o)
    BY DEF GivesUp, ChannelAnswers
<1>7. QED
    BY <1>1, <1>2, <1>3, <1>4, <1>5, <1>6 DEF RequestTurn

\* If the request of a channel does not fail, a sequence that is marked as
\* requested, and drops what it receives for it, has an answer on its way or the
\* timer of failDifferenceStartTimerFor() running.  What getDifferenceAfterFail()
\* leaves behind for a channel (its waiter is never told) is thus the only way
\* to lose the request.
THEOREM RequestsCanEnd ==
    ASSUME "channelFails" \notin Mishaps
    PROVE  Spec => []RequestEnds
<1> DEFINE Inv == TypeInv /\ ChannelAnswers /\ \A o \in Owners : CanEnd(o)
<1>1. Init => Inv
    <2> SUFFICES ASSUME Init
                 PROVE  Inv
        OBVIOUS
    <2>1. TypeInv
        BY TypeInit
    <2>2. /\ asked = {Asking("account", 0)}
          /\ waiter["channel"] \in {NewWaiter, InitAt(NewWaiter, 1)}
          /\ ~failTimer["channel"]
        BY DEF Init, Owners
    <2>3. Asking("account", 0).owner = "account"
        BY DEF Asking
    <2>4. ~waiter["channel"].requesting
        <3>1. \A w \in Waiter : InitAt(w, 1).requesting = w.requesting
            BY DEF InitAt, Waiter
        <3>2. ~NewWaiter.requesting
            BY DEF NewWaiter
        <3>3. QED
            BY <2>2, <3>1, <3>2, NewWaiterType
    <2>5. Own("account") # {} /\ Own("channel") = {}
        BY <2>2, <2>3 DEF Own
    <2>6. QED
        BY <2>1, <2>2, <2>4, <2>5 DEF ChannelAnswers, CanEnd, Owners
<1>2. Inv /\ [Next]_vars => Inv'
    BY TypeStep, ChannelAnswersStep, CanEndStep
<1>3. Inv => RequestEnds
    BY DEF CanEnd, RequestEnds, Requesting, Own
<1>4. QED
    BY <1>1, <1>2, <1>3, PTL DEF Spec

-----------------------------------------------------------------------------
(* The numbered containers.                                                    *)

\* What a step does to the containers held back: nothing, it drops them all, or
\* it leaves the timer armed for those that stay.
HeldTurn ==
    \/ /\ bySeq' = bySeq /\ seqTimer' = seqTimer
       /\ waiter'["account"].requesting => waiter["account"].requesting
    \/ bySeq' = {}
    \/ ~waiter'["account"].requesting /\ seqTimer'

LEMMA AccountAskHeld ==
    ASSUME TypeInv, NEW w \in {waiter["account"], StopRequesting(waiter["account"])}, NEW rest,
           GetDifference(w, rest)
    PROVE  HeldTurn
<1>1. /\ waiter \in [Owners -> Waiter] /\ "account" \in Owners /\ waiter["account"] \in Waiter
    BY DEF TypeInv, TypeOK, Owners
<1>2. w.requesting => w = waiter["account"]
    BY <1>1, WaiterFields
<1>3. QED
    BY <1>1, <1>2 DEF GetDifference, HeldTurn

LEMMA HeldTurns ==
    ASSUME TypeInv, [Next]_vars
    PROVE  HeldTurn
<1>1. /\ waiter \in [Owners -> Waiter] /\ "account" \in Owners /\ "channel" \in Owners
      /\ waiter["account"] \in Waiter
    BY DEF TypeInv, TypeOK, Owners
<1>2. UNCHANGED <<waiter, bySeq, seqTimer>> => HeldTurn
    BY DEF HeldTurn
<1>3. ASSUME UNCHANGED <<bySeq, seqTimer>>, NEW w, waiter' = [waiter EXCEPT !["channel"] = w]
      PROVE  HeldTurn
    BY <1>1, <1>3 DEF HeldTurn
<1>4. ASSUME NEW rest, NEW w, NEW afterFail, GetChannelDifference(w, rest, afterFail),
             UNCHANGED <<bySeq, seqTimer>>
      PROVE  HeldTurn
    BY <1>3, <1>4 DEF GetChannelDifference
<1>5. CASE UNCHANGED vars
    BY <1>2, <1>5 DEF vars, ptsVars, seqVars
<1>6. CASE Server
    BY <1>2, <1>6 DEF Server, Publish, TellPts, TellTooLong, PublishSeq, LosePush,
                      AnswerRequest, FailRequest, ptsVars, seqVars
<1>7. ASSUME NEW p \in pushes, ReceiveLetter(p) \/ DropPush(p)
      PROVE  HeldTurn
    <2>1. CASE DropPush(p) \/ DropChannelUpdate(p) \/ FeedChannelNotLoaded(p)
        BY <1>2, <2>1 DEF DropPush, DropChannelUpdate, FeedChannelNotLoaded, ptsVars, seqVars
    <2>2. CASE FeedAccountUpdate(p) \/ FeedChannelUpdate(p) \/ ReceiveAffected(p)
        <3>1. UNCHANGED <<bySeq, seqTimer>>
            BY <2>2 DEF FeedAccountUpdate, FeedChannelUpdate, ReceiveAffected, seqVars
        <3>2. PICK q \in Owners, e \in Numbered : ApplyUpdate(q, e) \/ CountAffected(q, e)
            BY <1>1, <2>2, LetterIs DEF FeedAccountUpdate, FeedChannelUpdate, ReceiveAffected
        <3>3. PtsTypes
            BY TypesAre
        <3>4. waiter'["account"].requesting = waiter["account"].requesting
            <4>1. CASE q = "account"
                BY <3>2, <3>3, <4>1, MetRequesting
            <4>2. CASE q # "account"
                <5>1. \/ UNCHANGED ptsVars
                      \/ \E w, timer, shows, counts : PtsStep(q, w, timer, shows, counts)
                    BY <3>2 DEF ApplyUpdate, UpdateUnchecked, UpdateStale, UpdateHeld,
                                UpdateApplied, UpdateAppliedWithSkipped, CountAffected,
                                AffectedUncounted, AffectedStale, AffectedInGap, AffectedCounted
                <5>2. QED
                    BY <1>1, <4>2, <5>1 DEF PtsStep, ptsVars
            <4>3. QED
                BY <4>1, <4>2
        <3>5. QED
            BY <3>1, <3>4 DEF HeldTurn
    <2>3. CASE FeedAccountNotLoaded(p)
        BY <2>3, AccountAskHeld DEF FeedAccountNotLoaded
    <2>4. CASE FeedChannelTooLong(p)
        <3>1. UNCHANGED <<bySeq, seqTimer>>
            BY <2>4 DEF FeedChannelTooLong, seqVars
        <3>2. QED
            BY <1>2, <1>4, <2>4, <3>1 DEF FeedChannelTooLong
    <2>5. QED
        BY <1>7, <2>1, <2>2, <2>3, <2>4 DEF ReceiveLetter
<1>8. ASSUME NEW n, NEW content, SetSeq(n, content),
             waiter'["account"].requesting => waiter["account"].requesting
      PROVE  waiter'["account"].requesting \/ HeldTurn
    <2>1. CASE UNCHANGED <<updSeq, bySeq, seqTimer>>
        BY <1>8, <2>1 DEF HeldTurn
    <2>2. CASE seqTimer' = (bySeq' # {})
        BY <2>2 DEF HeldTurn
    <2>3. QED
        BY <1>8, <2>1, <2>2 DEF SetSeq
<1>9. ASSUME NEW n \in containers, ReceiveContainer(n)
      PROVE  HeldTurn
    <2>1. UNCHANGED waiter
        BY <1>9 DEF ReceiveContainer, ptsVars
    <2>2. CASE UNCHANGED seqVars
        BY <1>2, <2>1, <2>2 DEF seqVars
    <2>3. CASE ~Requesting("account") /\ ContainerHeld(n)
        BY <2>1, <2>3 DEF ContainerHeld, HeldTurn, Requesting
    <2>4. CASE ~Requesting("account") /\ ContainerFed(n)
        BY <1>8, <2>1, <2>4 DEF ContainerFed, Requesting
    <2>5. QED
        BY <1>9, <2>2, <2>3, <2>4 DEF ReceiveContainer, ContainerStale
<1>10. CASE NewSession
    BY <1>10, AccountAskHeld DEF NewSession
<1>11. ASSUME NEW d \in asked, GotAnswer(d)
       PROVE  HeldTurn
    <2>1. Answered(d) => \A o \in Owners : StopRequesting(InitAt(waiter[o], d.answer.pts)) \in Waiter
        BY SlicePtsTypes
    <2>2. Answered(d) => ~StopRequesting(InitAt(waiter["account"], d.answer.pts)).requesting
        <3> SUFFICES ASSUME Answered(d)
                     PROVE  ~StopRequesting(InitAt(waiter["account"], d.answer.pts)).requesting
            OBVIOUS
        <3>1. InitAt(waiter["account"], d.answer.pts) \in Waiter
            BY <1>1, AnswerIs, WaiterTypes
        <3>2. QED
            BY <3>1, WaiterFields
    <2>3. CASE GotDifference(d)
        <3>1. ~waiter'["account"].requesting
            BY <1>1, <2>2, <2>3 DEF GotDifference
        <3>2. SetSeq(d.answer.seq, 1 .. d.answer.seq)
            BY <2>3 DEF GotDifference
        <3>3. QED
            BY <1>8, <3>1, <3>2
    <2>4. CASE GotDifferenceSlice(d)
        <3>1. Answered(d) /\ GetDifference(StopRequesting(InitAt(waiter["account"], d.answer.pts)), asked \ {d})
            BY <2>4 DEF GotDifferenceSlice
        <3>2. bySeq' = {}
            BY <2>2, <3>1 DEF GetDifference
        <3>3. QED
            BY <3>2 DEF HeldTurn
    <2>5. CASE GotChannelDifference(d)
        BY <1>3, <2>5 DEF GotChannelDifference, seqVars
    <2>6. CASE GotChannelDifferenceSlice(d)
        BY <1>4, <2>6 DEF GotChannelDifferenceSlice, seqVars
    <2>7. CASE DifferenceFailed(d)
        BY <1>2, <2>7 DEF DifferenceFailed, ptsVars, seqVars
    <2>8. QED
        BY <1>11, <2>3, <2>4, <2>5, <2>6, <2>7 DEF GotAnswer
<1>12. CASE Timers
    <2>1. CASE SeqTimerFires
        <3>1. GetDifference(waiter["account"], asked) /\ seqTimer /\ ~seqTimer'
            BY <2>1 DEF SeqTimerFires
        <3>2. QED
            BY <3>1 DEF GetDifference, HeldTurn
    <2>2. CASE MinTimerFires
        BY <2>2, AccountAskHeld DEF MinTimerFires
    <2>3. ASSUME NEW o \in Owners, PtsTimerFires(o)
          PROVE  HeldTurn
        BY <1>4, <2>3, AccountAskHeld DEF PtsTimerFires
    <2>4. ASSUME NEW o \in Owners, FailTimerFires(o)
          PROVE  HeldTurn
        BY <1>4, <2>4, AccountAskHeld DEF FailTimerFires
    <2>5. QED
        BY <1>12, <2>1, <2>2, <2>3, <2>4 DEF Timers
<1>13. CASE Window
    <2>1. UNCHANGED <<bySeq, seqTimer>> /\ (UNCHANGED waiter \/ \E w : waiter' = [waiter EXCEPT !["channel"] = w])
        <3>1. CASE HideChannel
            BY <3>1 DEF HideChannel, ptsVars, seqVars
        <3>2. CASE ShowChannel
            BY <3>2 DEF ShowChannel, seqVars
        <3>3. CASE LeaveChannel
            BY <3>3 DEF LeaveChannel, seqVars
        <3>4. QED
            BY <1>13, <3>1, <3>2, <3>3 DEF Window
    <2>2. QED
        BY <1>2, <1>3, <2>1
<1>14. QED
    BY <1>5, <1>6, <1>7, <1>9, <1>10, <1>11, <1>12, <1>13 DEF Next, Receive


HeldInv == TypeInv /\ (bySeq # {} => ~waiter["account"].requesting /\ seqTimer)

\* A container that updateReceived() keeps in _bySeqUpdates waits for the one
\* before it or for _bySeqTimer: no difference that would replace it is on its
\* way, and no handler leaves it there with the timer off.
THEOREM ContainersAreWatched == Spec => []HeldContainersAreWatched
<1>1. Init => HeldInv
    BY TypeInit DEF Init, HeldInv
<1>2. HeldInv /\ [Next]_vars => HeldInv'
    <2> SUFFICES ASSUME HeldInv, [Next]_vars
                 PROVE  HeldInv'
        OBVIOUS
    <2>1. TypeInv' /\ HeldTurn
        BY TypeStep, HeldTurns DEF HeldInv
    <2>2. QED
        BY <2>1 DEF HeldInv, HeldTurn
<1>3. HeldInv => HeldContainersAreWatched
    BY DEF HeldInv, HeldContainersAreWatched
<1>4. QED
    BY <1>1, <1>2, <1>3, PTL DEF Spec

SeqInv == TypeInv /\ NoContainerSkipped

\* What setting the number of containers shows.
LEMMA SetSeqShows ==
    ASSUME updSeq \in Nat, bySeq \subseteq Nat, NoContainerSkipped,
           NEW n \in Nat, NEW S, SetSeq(n, S), 1 .. n \subseteq fedSeqs \cup S
    PROVE  NoContainerSkipped'
<1>1. CASE n \in {0, updSeq} /\ fedSeqs' = fedSeqs \cup S /\ UNCHANGED updSeq
    BY <1>1 DEF NoContainerSkipped
<1>2. ASSUME NEW k \in {n} \cup bySeq, k >= n, updSeq' = k,
             fedSeqs' = fedSeqs \cup S \cup ((n + 1) .. k)
      PROVE  NoContainerSkipped'
    <2>1. k \in Nat
        OBVIOUS
    <2>2. 1 .. k \subseteq (1 .. n) \cup ((n + 1) .. k)
        BY <2>1
    <2>3. QED
        BY <1>2, <2>2 DEF NoContainerSkipped
<1>3. QED
    BY <1>1, <1>2 DEF SetSeq

LEMMA SeqStep ==
    ASSUME SeqInv, [Next]_vars
    PROVE  NoContainerSkipped'
<1>1. TypeInv /\ NoContainerSkipped /\ updSeq \in Nat /\ bySeq \subseteq Nat
    BY DEF SeqInv, TypeInv, TypeOK
<1>2. CASE UNCHANGED <<updSeq, fedSeqs>>
    BY <1>1, <1>2 DEF NoContainerSkipped
<1>3. CASE UNCHANGED vars
    BY <1>2, <1>3 DEF vars, seqVars
<1>4. CASE Server
    BY <1>2, <1>4 DEF Server, Publish, TellPts, TellTooLong, PublishSeq, LosePush,
                      AnswerRequest, FailRequest, seqVars
<1>5. CASE \E p \in pushes : DropPush(p) \/ ReceiveLetter(p)
    BY <1>2, <1>5 DEF DropPush, ReceiveLetter, FeedAccountUpdate, FeedAccountNotLoaded,
        FeedChannelUpdate, DropChannelUpdate, FeedChannelNotLoaded, FeedChannelTooLong,
        ReceiveAffected, seqVars
<1>6. ASSUME NEW n \in containers, ReceiveContainer(n)
      PROVE  NoContainerSkipped'
    <2>1. n \in Nat
        BY <1>1 DEF TypeInv, TypeOK
    <2>2. CASE UNCHANGED seqVars \/ ContainerHeld(n)
        BY <1>2, <2>2 DEF seqVars, ContainerHeld
    <2>3. CASE ContainerFed(n)
        <3>1. n = updSeq + 1 /\ SetSeq(n, {n})
            BY <2>3 DEF ContainerFed
        <3>2. 1 .. n \subseteq (1 .. updSeq) \cup {n}
            BY <1>1, <3>1
        <3>3. 1 .. n \subseteq fedSeqs \cup {n}
            BY <1>1, <3>2 DEF NoContainerSkipped
        <3>4. QED
            BY <1>1, <2>1, <3>1, <3>3, SetSeqShows
    <2>4. QED
        BY <1>6, <2>2, <2>3 DEF ReceiveContainer, ContainerStale
<1>7. CASE NewSession
    <2>1. updSeq' = 0 /\ 1 .. 0 = {}
        BY <1>7 DEF NewSession
    <2>2. QED
        BY <2>1 DEF NoContainerSkipped
<1>8. ASSUME NEW d \in asked, GotAnswer(d)
      PROVE  NoContainerSkipped'
    <2>1. CASE GotDifference(d)
        <3>1. SetSeq(d.answer.seq, 1 .. d.answer.seq) /\ d.answer.seq \in Nat
            BY <1>1, <2>1, AnswerIs DEF GotDifference
        <3>2. QED
            BY <1>1, <3>1, SetSeqShows
    <2>2. CASE GotDifferenceSlice(d)
        <3>1. /\ updSeq' = IF d.answer.seq = 0 THEN updSeq ELSE d.answer.seq
              /\ fedSeqs' = fedSeqs \cup 1 .. d.answer.seq
            BY <2>2 DEF GotDifferenceSlice
        <3>2. QED
            BY <1>1, <3>1 DEF NoContainerSkipped
    <2>3. QED
        BY <1>2, <1>8, <2>1, <2>2
           DEF GotAnswer, GotChannelDifference, GotChannelDifferenceSlice, DifferenceFailed, seqVars
<1>9. CASE Timers
    BY <1>2, <1>9 DEF Timers, PtsTimerFires, FailTimerFires, SeqTimerFires, MinTimerFires
<1>10. CASE Window
    BY <1>2, <1>10 DEF Window, ShowChannel, HideChannel, LeaveChannel, seqVars
<1>11. QED
    BY <1>3, <1>4, <1>5, <1>6, <1>7, <1>8, <1>9, <1>10 DEF Next, Receive

\* MainWidget::updSetState() and its loop over _bySeqUpdates (mainwidget.cpp:2859)
\* never step over a container whose content was not fed.
THEOREM NoContainerIsSkipped == Spec => []NoContainerSkipped
<1>1. Init => SeqInv
    <2>1. 1 .. 0 = {}
        OBVIOUS
    <2>2. QED
        BY <2>1, TypeInit DEF Init, SeqInv, NoContainerSkipped
<1>2. SeqInv /\ [Next]_vars => SeqInv'
    BY TypeStep, SeqStep DEF SeqInv
<1>3. SeqInv => NoContainerSkipped
    BY DEF SeqInv
<1>4. QED
    BY <1>1, <1>2, <1>3, PTL DEF Spec


-----------------------------------------------------------------------------
(* A hole and a poll are watched by the one timer a sequence has.              *)

\* Every update on its way takes a number.
CountsSomething == \A p \in pushes : p.kind # "tooLong" => p.count > 0

MetUpdate(o) ==
    \E p \in pushes : /\ p.owner = o /\ p.kind # "tooLong" /\ UNCHANGED shown
                      /\ ApplyUpdate(o, Ev(p)) \/ CountAffected(o, Ev(p))

\* What a step does to the timer of a sequence: it keeps it, unless nothing is
\* known of the sequence; or it asks for a difference, or has got one; or it
\* counts an update, or shows or leaves the chat.
TimerTurn(o) ==
    \/ /\ waiter'[o] = waiter[o]
       /\ o = "channel" /\ shown' => shown
       /\ ptsTimer[o] /\ Inited(waiter[o]) => ptsTimer'[o]
    \/ waiter'[o].requesting
    \/ Complete(waiter'[o]) /\ (o = "channel" /\ shown' => ptsTimer'[o])
    \/ MetUpdate(o)
    \/ o = "channel" /\ (ShowChannel \/ LeaveChannel)

LEMMA TimerKept ==
    ASSUME NEW o \in Owners, waiter'[o] = waiter[o], ptsTimer'[o] = ptsTimer[o], UNCHANGED shown
    PROVE  TimerTurn(o)
BY DEF TimerTurn

LEMMA AccountAskTimes ==
    ASSUME TypeInv, NEW w \in Waiter, NEW rest, GetDifference(w, rest), UNCHANGED shown,
           NEW o \in Owners
    PROVE  TimerTurn(o)
<1>1. /\ waiter \in [Owners -> Waiter] /\ ptsTimer \in [Owners -> BOOLEAN]
      /\ "account" \in Owners
    BY DEF TypeInv, TypeOK, Owners
<1>2. CASE o = "account"
    <2>1. (waiter'[o] = w /\ w.requesting) \/ waiter'[o] = StartRequesting(w)
        BY <1>1, <1>2 DEF GetDifference
    <2>2. QED
        BY <2>1, WaiterFields DEF TimerTurn
<1>3. CASE o # "account"
    BY <1>1, <1>3, TimerKept DEF GetDifference
<1>4. QED
    BY <1>2, <1>3

LEMMA ChannelAskTimes ==
    ASSUME TypeInv, NEW w \in Waiter, NEW rest, NEW afterFail,
           GetChannelDifference(w, rest, afterFail), UNCHANGED shown,
           w = waiter["channel"] \/ Inited(w), NEW o \in Owners
    PROVE  TimerTurn(o)
<1>1. /\ waiter \in [Owners -> Waiter] /\ ptsTimer \in [Owners -> BOOLEAN]
      /\ "channel" \in Owners
    BY DEF TypeInv, TypeOK, Owners
<1>2. CASE o = "channel"
    <2>1. CASE AsksForChannel(w)
        <3>1. waiter'[o] = StartRequesting(w)
            BY <1>1, <1>2, <2>1 DEF GetChannelDifference
        <3>2. QED
            BY <3>1, WaiterFields DEF TimerTurn
    <2>2. CASE ~AsksForChannel(w)
        <3>1. waiter'[o] = w
            BY <1>1, <1>2, <2>2 DEF GetChannelDifference
        <3>2. w.requesting \/ ~Inited(w)
            BY <2>2 DEF AsksForChannel
        <3>3. QED
            BY <1>2, <3>1, <3>2 DEF TimerTurn
    <2>3. QED
        BY <2>1, <2>2
<1>3. CASE o # "channel"
    BY <1>1, <1>3, TimerKept DEF GetChannelDifference
<1>4. QED
    BY <1>2, <1>3


LEMMA LetterTimes ==
    ASSUME TypeInv, Receive, NEW o \in Owners
    PROVE  TimerTurn(o)
<1>1. UNCHANGED <<waiter, ptsTimer, shown>> => TimerTurn(o)
    BY TimerKept
<1>2. /\ "account" \in Owners /\ "channel" \in Owners
      /\ waiter \in [Owners -> Waiter] /\ ptsTimer \in [Owners -> BOOLEAN]
      /\ waiter["account"] \in Waiter /\ waiter["channel"] \in Waiter
    BY DEF TypeInv, TypeOK, Owners
<1>3. ASSUME NEW p \in pushes, p.kind # "tooLong", UNCHANGED shown,
             ApplyUpdate(p.owner, Ev(p)) \/ CountAffected(p.owner, Ev(p))
      PROVE  TimerTurn(o)
    <2>1. CASE o = p.owner
        BY <1>3, <2>1 DEF TimerTurn, MetUpdate
    <2>2. CASE o # p.owner
        <3>1. \/ UNCHANGED ptsVars
              \/ \E w, timer, shows, counts : PtsStep(p.owner, w, timer, shows, counts)
            BY <1>3 DEF ApplyUpdate, UpdateUnchecked, UpdateStale, UpdateHeld, UpdateApplied,
                        UpdateAppliedWithSkipped, CountAffected, AffectedUncounted,
                        AffectedStale, AffectedInGap, AffectedCounted
        <3>2. waiter'[o] = waiter[o] /\ ptsTimer'[o] = ptsTimer[o]
            BY <1>2, <2>2, <3>1 DEF PtsStep, ptsVars
        <3>3. QED
            BY <1>3, <3>2, TimerKept
    <2>3. QED
        BY <2>1, <2>2
<1>4. ASSUME NEW p \in pushes, DropPush(p) \/ ReceiveLetter(p)
      PROVE  TimerTurn(o)
    <2>1. CASE DropPush(p) \/ DropChannelUpdate(p) \/ FeedChannelNotLoaded(p)
        BY <1>1, <2>1 DEF DropPush, DropChannelUpdate, FeedChannelNotLoaded, ptsVars
    <2>2. CASE FeedAccountUpdate(p)
        BY <1>3, <2>2 DEF FeedAccountUpdate, Delivered
    <2>3. CASE FeedChannelUpdate(p)
        BY <1>3, <2>3 DEF FeedChannelUpdate, Delivered
    <2>4. CASE ReceiveAffected(p)
        BY <1>3, <2>4 DEF ReceiveAffected
    <2>5. CASE FeedAccountNotLoaded(p)
        BY <1>2, <2>5, AccountAskTimes DEF FeedAccountNotLoaded
    <2>6. CASE FeedChannelTooLong(p)
        BY <1>1, <1>2, <2>6, ChannelAskTimes DEF FeedChannelTooLong
    <2>7. QED
        BY <1>4, <2>1, <2>2, <2>3, <2>4, <2>5, <2>6 DEF ReceiveLetter
<1>5. CASE \E n \in containers : ReceiveContainer(n)
    BY <1>1, <1>5 DEF ReceiveContainer, ptsVars
<1>6. CASE NewSession
    BY <1>2, <1>6, AccountAskTimes DEF NewSession
<1>7. QED
    BY <1>4, <1>5, <1>6 DEF Receive

LEMMA AnswerTimes ==
    ASSUME TypeInv, NEW d \in asked, GotAnswer(d), NEW o \in Owners
    PROVE  TimerTurn(o)
<1>1. /\ "account" \in Owners /\ "channel" \in Owners /\ o \in {"account", "channel"}
      /\ waiter \in [Owners -> Waiter] /\ ptsTimer \in [Owners -> BOOLEAN]
      /\ waiter["account"] \in Waiter /\ waiter["channel"] \in Waiter
    BY DEF TypeInv, TypeOK, Owners
<1> DEFINE w == StopRequesting(InitAt(waiter[d.owner], d.answer.pts))
<1> HIDE DEF w
<1>2. ASSUME Answered(d)
      PROVE  w \in Waiter /\ Complete(w) /\ Inited(w)
    <2>1. /\ d.owner \in Owners /\ d.answer.pts \in Nat /\ d.answer.pts > 0
          /\ waiter[d.owner] \in Waiter
        BY <1>1, <1>2, AnswerIs
    <2>2. InitAt(waiter[d.owner], d.answer.pts) \in Waiter
        BY <2>1, WaiterTypes
    <2>3. w \in Waiter
        BY <1>2, <2>1, SlicePtsTypes DEF w
    <2>4. w.good = d.answer.pts /\ w.last = w.count
        BY <2>1, <2>2, WaiterFields, InitFields DEF w
    <2>5. QED
        BY <2>1, <2>3, <2>4 DEF Complete, Inited
<1>3. CASE GotDifference(d)
    <2>1. CASE o = "account"
        <3>1. waiter'[o] = w /\ Answered(d)
            BY <1>1, <1>3, <2>1 DEF GotDifference, w
        <3>2. QED
            BY <1>2, <2>1, <3>1 DEF TimerTurn
    <2>2. CASE o = "channel"
        <3>1. CASE AsksChannel(d)
            <4>1. waiter'[o] = StartRequesting(waiter[o])
                BY <1>1, <1>3, <2>2, <3>1 DEF GotDifference
            <4>2. QED
                BY <1>1, <2>2, <4>1, WaiterFields DEF TimerTurn
        <3>2. CASE ~AsksChannel(d)
            <4>1. /\ waiter'[o] = waiter[o] /\ UNCHANGED shown
                  /\ ptsTimer'[o] = (ptsTimer[o] /\ ~ChannelChanged(d))
                BY <1>1, <1>3, <2>2, <3>2 DEF GotDifference
            <4>2. ChannelChanged(d) => waiter[o].requesting \/ ~Inited(waiter[o])
                BY <2>2, <3>2 DEF AsksChannel, AsksForChannel
            <4>3. QED
                BY <4>1, <4>2 DEF TimerTurn
        <3>3. QED
            BY <3>1, <3>2
    <2>3. QED
        BY <1>1, <2>1, <2>2
<1>4. CASE GotDifferenceSlice(d)
    <2>1. GetDifference(w, asked \ {d}) /\ UNCHANGED shown /\ w \in Waiter
        BY <1>2, <1>4 DEF GotDifferenceSlice, w
    <2>2. QED
        BY <2>1, AccountAskTimes
<1>5. CASE GotChannelDifference(d)
    <2>1. /\ Answered(d) /\ UNCHANGED shown
          /\ waiter' = [waiter EXCEPT !["channel"] = [w EXCEPT !.polling = @ \/ shown]]
          /\ ptsTimer' = [ptsTimer EXCEPT !["channel"] = @ \/ shown]
        BY <1>5 DEF GotChannelDifference, w
    <2>2. CASE o = "channel"
        <3>1. waiter'[o] = [w EXCEPT !.polling = @ \/ shown]
            BY <1>1, <2>1, <2>2
        <3>2. Complete(waiter'[o])
            <4>1. waiter'[o].last = w.last /\ waiter'[o].count = w.count
                BY <1>2, <2>1, <3>1 DEF Waiter
            <4>2. QED
                BY <1>2, <2>1, <4>1 DEF Complete
        <3>3. shown' => ptsTimer'[o]
            BY <1>1, <2>1, <2>2
        <3>4. QED
            BY <3>2, <3>3 DEF TimerTurn
    <2>3. CASE o # "channel"
        BY <1>1, <2>1, <2>3, TimerKept
    <2>4. QED
        BY <2>2, <2>3
<1>6. CASE GotChannelDifferenceSlice(d)
    <2>1. GetChannelDifference(w, asked \ {d}, FALSE) /\ UNCHANGED shown /\ Answered(d)
        BY <1>6 DEF GotChannelDifferenceSlice, w
    <2>2. QED
        BY <1>2, <2>1, ChannelAskTimes
<1>7. CASE DifferenceFailed(d)
    BY <1>7, TimerKept DEF DifferenceFailed, ptsVars
<1>8. QED
    BY <1>3, <1>4, <1>5, <1>6, <1>7 DEF GotAnswer

LEMMA TimerTurns ==
    ASSUME TypeInv, [Next]_vars, NEW o \in Owners
    PROVE  TimerTurn(o)
<1>1. UNCHANGED <<waiter, ptsTimer, shown>> => TimerTurn(o)
    BY TimerKept
<1>2. /\ "account" \in Owners /\ "channel" \in Owners /\ o \in {"account", "channel"}
      /\ waiter \in [Owners -> Waiter] /\ ptsTimer \in [Owners -> BOOLEAN]
      /\ \A q \in Owners : waiter[q] \in Waiter /\ StopRequesting(waiter[q]) \in Waiter
    BY WaiterTypes DEF TypeInv, TypeOK, Owners
<1>3. CASE UNCHANGED vars
    BY <1>1, <1>3 DEF vars, ptsVars
<1>4. CASE Server
    BY <1>1, <1>4 DEF Server, Publish, TellPts, TellTooLong, PublishSeq, LosePush,
                      AnswerRequest, FailRequest, ptsVars
<1>5. CASE Timers
    <2>1. CASE SeqTimerFires \/ MinTimerFires
        BY <1>2, <2>1, AccountAskTimes DEF SeqTimerFires, MinTimerFires
    <2>2. ASSUME NEW q \in Owners, PtsTimerFires(q)
          PROVE  TimerTurn(o)
        BY <1>2, <2>2, AccountAskTimes, ChannelAskTimes DEF PtsTimerFires
    <2>3. ASSUME NEW q \in Owners, FailTimerFires(q)
          PROVE  TimerTurn(o)
        BY <1>2, <2>3, AccountAskTimes, ChannelAskTimes DEF FailTimerFires
    <2>4. QED
        BY <1>5, <2>1, <2>2, <2>3 DEF Timers
<1>6. CASE Window
    <2>1. CASE HideChannel
        BY <2>1 DEF HideChannel, TimerTurn, ptsVars
    <2>2. CASE ShowChannel \/ LeaveChannel
        <3>1. CASE o = "channel"
            BY <2>2, <3>1 DEF TimerTurn
        <3>2. CASE o = "account"
            BY <1>2, <2>2, <3>2 DEF TimerTurn, ShowChannel, LeaveChannel
        <3>3. QED
            BY <1>2, <3>1, <3>2
    <2>3. QED
        BY <1>6, <2>1, <2>2 DEF Window
<1>7. QED
    BY <1>3, <1>4, <1>5, <1>6, LetterTimes, AnswerTimes DEF Next


\* Counting an update leaves the poll as it is, ...
LEMMA MetPolls ==
    ASSUME PtsTypes, NEW o \in Owners, NEW e \in Numbered,
           ApplyUpdate(o, e) \/ CountAffected(o, e)
    PROVE  /\ waiter'[o].polling = waiter[o].polling
           /\ waiter[o].polling /\ ptsTimer[o] => ptsTimer'[o]
<1> DEFINE w == waiter[o]
           c == Checked(w, e)
<1>1. w \in Waiter /\ e \in Event /\ waiter \in [Owners -> Waiter] /\ ptsTimer \in [Owners -> BOOLEAN]
    BY DEF PtsTypes, Numbered
<1>2. c \in Waiter /\ c.polling = w.polling
    <2>1. c \in Waiter /\ Counted(w, e) \in Waiter
        BY <1>1, CheckTypes
    <2>2. Counted(w, e).polling = w.polling
        BY <1>1 DEF Counted, Waiter
    <2>3. CASE ~Inited(w)
        BY <1>1, <2>1, <2>3 DEF Checked, InitAt, Waiter
    <2>4. CASE Inited(w) /\ Gaps(w, e)
        <3>1. c = [Counted(w, e) EXCEPT !.waiting = TRUE]
            BY <2>4 DEF Checked
        <3>2. QED
            BY <2>1, <2>2, <3>1 DEF Waiter
    <2>5. CASE Inited(w) /\ ~Gaps(w, e)
        <3>1. c = [Counted(w, e) EXCEPT !.good = Counted(w, e).last]
            BY <2>5 DEF Checked
        <3>2. QED
            BY <2>1, <2>2, <3>1 DEF Waiter
    <2>6. QED
        BY <2>3, <2>4, <2>5
<1>3. /\ EndWait(c).polling = c.polling /\ Enqueue(c, e).polling = c.polling
      /\ EndWait(w).polling = w.polling
    BY <1>1, <1>2 DEF EndWait, Enqueue, Waiter
<1>4. ASSUME NEW v, NEW timer, NEW shows, NEW counts, PtsStep(o, v, timer, shows, counts)
      PROVE  waiter'[o] = v /\ ptsTimer'[o] = timer
    BY <1>1, <1>4 DEF PtsStep
<1> HIDE DEF w, c
<1>5. \/ waiter'[o] = w \/ waiter'[o] = c \/ waiter'[o] = EndWait(c)
      \/ waiter'[o] = Enqueue(c, e) \/ waiter'[o] = EndWait(w)
    BY <1>4 DEF ApplyUpdate, UpdateUnchecked, UpdateStale, UpdateHeld, UpdateApplied,
                UpdateAppliedWithSkipped, CountAffected, AffectedUncounted,
                AffectedStale, AffectedInGap, AffectedCounted, ptsVars, w, c
<1>6. \/ ptsTimer'[o] = ptsTimer[o] \/ ptsTimer'[o]
      \/ ptsTimer'[o] = (ptsTimer[o] \/ Gaps(w, e))
      \/ ptsTimer'[o] = ((ptsTimer[o] \/ Gaps(w, e)) /\ ~CancelsTimer(c))
      \/ ptsTimer'[o] = (ptsTimer[o] /\ ~CancelsTimer(w))
    BY <1>4 DEF ApplyUpdate, UpdateUnchecked, UpdateStale, UpdateHeld, UpdateApplied,
                UpdateAppliedWithSkipped, CountAffected, AffectedUncounted,
                AffectedStale, AffectedInGap, AffectedCounted, ptsVars, w, c
<1>7. w.polling => ~CancelsTimer(c) /\ ~CancelsTimer(w)
    BY <1>2 DEF CancelsTimer
<1>8. QED
    BY <1>2, <1>3, <1>5, <1>6, <1>7 DEF w

\* ... and one that takes a number closes the hole or has it watched.
LEMMA MetWatches ==
    ASSUME PtsTypes, NEW o \in Owners, NEW e \in Numbered, e.count > 0,
           ApplyUpdate(o, e) \/ CountAffected(o, e)
    PROVE  \/ waiter'[o].requesting
           \/ Complete(waiter'[o])
           \/ waiter'[o].waiting /\ ptsTimer'[o]
           \/ waiter'[o] = waiter[o] /\ ptsTimer'[o] = ptsTimer[o]
<1> DEFINE w == waiter[o]
           c == Checked(w, e)
<1>1. /\ w \in Waiter /\ e \in Event /\ e.count \in Nat /\ e.pts \in Nat
      /\ waiter \in [Owners -> Waiter] /\ ptsTimer \in [Owners -> BOOLEAN]
    BY DEF PtsTypes, Numbered, Event
<1>2. c \in Waiter /\ Counted(w, e) \in Waiter
    BY <1>1, CheckTypes
<1>3. Passes(w, e) => ~Gaps(w, e)
    BY <1>1 DEF Passes
<1>4. ~Gaps(w, e) => Complete(c)
    <2>1. CASE ~Inited(w)
        <3>1. c = InitAt(w, e.pts)
            BY <2>1 DEF Checked
        <3>2. QED
            BY <1>1, <3>1, InitFields DEF Complete
    <2>2. CASE Inited(w) /\ ~Gaps(w, e)
        <3>1. c = [Counted(w, e) EXCEPT !.good = Counted(w, e).last] /\ Complete(Counted(w, e))
            BY <2>2 DEF Checked, Gaps
        <3>2. c.last = Counted(w, e).last /\ c.count = Counted(w, e).count
            BY <1>2, <3>1 DEF Waiter
        <3>3. QED
            BY <3>1, <3>2 DEF Complete
    <2>3. QED
        BY <2>1, <2>2
<1>5. Gaps(w, e) => c.waiting
    <2>1. Gaps(w, e) => c = [Counted(w, e) EXCEPT !.waiting = TRUE]
        BY DEF Gaps, Checked
    <2>2. QED
        BY <1>2, <2>1 DEF Waiter
<1>6. /\ EndWait(c).last = c.last /\ EndWait(c).count = c.count
      /\ Enqueue(c, e).waiting = c.waiting
      /\ EndWait(w).requesting = w.requesting
    BY <1>1, <1>2 DEF EndWait, Enqueue, Waiter
<1>7. ASSUME NEW v, NEW timer, NEW shows, NEW counts, PtsStep(o, v, timer, shows, counts)
      PROVE  waiter'[o] = v /\ ptsTimer'[o] = timer
    BY <1>1, <1>7 DEF PtsStep
<1> HIDE DEF w, c
<1>8. \/ waiter'[o] = w /\ (w.requesting \/ ptsTimer'[o] = ptsTimer[o])
      \/ waiter'[o] = EndWait(w) /\ w.requesting
      \/ waiter'[o] = Enqueue(c, e) /\ ~Passes(w, e) /\ ptsTimer'[o]
      \/ waiter'[o] = c /\ ~Passes(w, e) /\ ptsTimer'[o]
      \/ (waiter'[o] = c \/ waiter'[o] = EndWait(c)) /\ Passes(w, e)
    BY <1>7 DEF ApplyUpdate, UpdateUnchecked, UpdateStale, UpdateHeld, UpdateApplied,
                UpdateAppliedWithSkipped, CountAffected, AffectedUncounted,
                AffectedStale, AffectedInGap, AffectedCounted, ptsVars, w, c
<1>9. ~Passes(w, e) => Gaps(w, e)
    BY DEF Passes
<1>10. Complete(EndWait(c)) = Complete(c)
    BY <1>6 DEF Complete
<1>11. QED
    BY <1>3, <1>4, <1>5, <1>6, <1>8, <1>9, <1>10 DEF w

LEMMA CountsStep ==
    ASSUME "empty" \notin Mishaps, CountsSomething, [Next]_vars
    PROVE  CountsSomething'
<1>1. pushes' \subseteq pushes => CountsSomething'
    BY DEF CountsSomething
<1>2. ASSUME NEW o \in Owners, NEW count \in 1 .. 2, NEW kind \in Kinds, Publish(o, count, kind)
      PROVE  CountsSomething'
    BY <1>2 DEF Publish, Send, CountsSomething
<1>3. ~(\E o \in Owners, kind \in {"push", "affected"} : TellPts(o, kind))
    BY DEF TellPts, Mishap
<1>4. CASE TellTooLong
    BY <1>4 DEF TellTooLong, Send, CountsSomething
<1>5. CASE PublishSeq \/ LosePush \/ \E d \in asked : AnswerRequest(d) \/ FailRequest(d)
    BY <1>1, <1>5 DEF PublishSeq, LosePush, AnswerRequest, FailRequest, netVars
<1>6. CASE Receive
    BY <1>1, <1>6 DEF Receive, DropPush, ReceiveLetter, FeedAccountUpdate, FeedAccountNotLoaded,
                FeedChannelUpdate, DropChannelUpdate, FeedChannelNotLoaded,
                FeedChannelTooLong, ReceiveAffected, Take, ReceiveContainer, TakeContainer,
                NewSession, netVars
<1>7. CASE \E d \in asked : GotAnswer(d)
    BY <1>1, <1>7 DEF GotAnswer, GotDifference, GotDifferenceSlice, GotChannelDifference,
                GotChannelDifferenceSlice, DifferenceFailed, netVars
<1>8. CASE Timers \/ Window \/ UNCHANGED vars
    BY <1>1, <1>8 DEF Timers, PtsTimerFires, FailTimerFires, SeqTimerFires, MinTimerFires,
                      Window, ShowChannel, HideChannel, LeaveChannel, netVars, vars
<1>9. "push" \in Kinds /\ "result" \in Kinds /\ "affected" \in Kinds
    BY DEF Kinds
<1>10. QED
    BY <1>2, <1>3, <1>4, <1>5, <1>6, <1>7, <1>8, <1>9 DEF Next, Server


\* StartRequesting() leaves _waitingForSkipped set with the timer off, so that
\* the two go together only while nothing is requested.
Watched(o) ==
    ~Complete(waiter[o]) /\ ~waiter[o].requesting => ptsTimer[o] /\ waiter[o].waiting

LEMMA UnknownIsComplete ==
    ASSUME NumbersInv, NEW o \in Owners, ~Inited(waiter[o])
    PROVE  Complete(waiter[o])
<1>1. waiter[o] \in Waiter /\ SteadyIs(waiter[o], counted[o], applied[o], issued[o])
    BY DEF NumbersInv, Steady, TypeInv, TypeOK
<1>2. waiter[o].last = 0
    BY <1>1 DEF SteadyIs, Waiter, Inited
<1>3. counted[o] = {}
    BY <1>1, <1>2 DEF SteadyIs
<1>4. waiter[o].count = 0
    BY <1>1, <1>3, FS_EmptySet DEF SteadyIs
<1>5. QED
    BY <1>2, <1>4 DEF Complete

LEMMA WatchedStep ==
    ASSUME NumbersInv, CountsSomething, [Next]_vars, NEW o \in Owners, Watched(o)
    PROVE  Watched(o)'
<1>1. TypeInv /\ PtsTypes /\ waiter \in [Owners -> Waiter] /\ ptsTimer \in [Owners -> BOOLEAN]
    BY TypesAre DEF NumbersInv, TypeInv, TypeOK
<1>2. CASE MetUpdate(o)
    <2>1. PICK p \in pushes : /\ p.owner = o /\ p.kind # "tooLong"
                              /\ ApplyUpdate(o, Ev(p)) \/ CountAffected(o, Ev(p))
        BY <1>2 DEF MetUpdate
    <2>2. Ev(p) \in Numbered /\ Ev(p).count > 0
        BY <1>1, <2>1, LetterIs DEF CountsSomething
    <2>3. QED
        BY <1>1, <2>1, <2>2, MetWatches DEF Watched
<1>3. CASE /\ waiter'[o] = waiter[o]
           /\ ptsTimer[o] /\ Inited(waiter[o]) => ptsTimer'[o]
    BY <1>3, UnknownIsComplete DEF Watched
<1>4. CASE o = "channel" /\ (ShowChannel \/ LeaveChannel)
    <2>1. \E b : waiter'[o] = [waiter[o] EXCEPT !.polling = b]
        BY <1>1, <1>4 DEF ShowChannel, LeaveChannel
    <2>2. /\ waiter'[o].last = waiter[o].last /\ waiter'[o].count = waiter[o].count
          /\ waiter'[o].waiting = waiter[o].waiting
          /\ waiter'[o].requesting = waiter[o].requesting
        BY <1>1, <2>1, PollingFields
    <2>3. ptsTimer[o] /\ waiter[o].waiting => ptsTimer'[o]
        BY <1>1, <1>4 DEF ShowChannel, LeaveChannel
    <2>4. QED
        BY <2>2, <2>3 DEF Watched, Complete
<1>5. CASE waiter'[o].requesting \/ Complete(waiter'[o])
    BY <1>5 DEF Watched, Complete
<1>6. QED
    BY <1>1, <1>2, <1>3, <1>4, <1>5, TimerTurns DEF TimerTurn

\* PtsWaiter::check() asks for the timer of the difference when it finds a hole;
\* applySkippedUpdates(), a short poll, and leaving the chat cancel the same
\* timer, and never while the hole is there.  An update that takes no number
\* would cancel it: updateAndApply() lets it pass and ends the wait.
THEOREM GapsAreWatched ==
    ASSUME "empty" \notin Mishaps
    PROVE  Spec => []GapIsWatched
<1> DEFINE Inv == NumbersInv /\ CountsSomething /\ \A o \in Owners : Watched(o)
<1>1. Init => Inv
    <2> SUFFICES ASSUME Init
                 PROVE  Inv
        OBVIOUS
    <2>1. NumbersInv
        BY NumbersInit
    <2>2. CountsSomething
        BY DEF Init, CountsSomething
    <2>3. Complete(NewWaiter) /\ Complete(InitAt(NewWaiter, 1)) /\ Complete(StartRequesting(NewWaiter))
        BY NewWaiterType, InitFields, WaiterFields DEF Complete, NewWaiter
    <2>4. \A o \in Owners : Complete(waiter[o])
        BY <2>3 DEF Init
    <2>5. QED
        BY <2>1, <2>2, <2>4 DEF Watched
<1>2. Inv /\ [Next]_vars => Inv'
    BY NumbersStep, CountsStep, WatchedStep
<1>3. Inv => GapIsWatched
    BY DEF Watched, GapIsWatched, Requesting
<1>4. QED
    BY <1>1, <1>2, <1>3, PTL DEF Spec

ChannelIsKnown == waiter["channel"].good > 0

LEMMA KnownStep ==
    ASSUME NumbersInv, ChannelIsKnown, [Next]_vars
    PROVE  ChannelIsKnown'
<1> DEFINE o == "channel"
<1>1. o \in Owners /\ TypeInv /\ waiter[o].good \in Nat
    BY DEF Owners, NumbersInv, TypeInv, TypeOK, Waiter
<1> HIDE DEF o
<1>2. waiter'[o].good > 0
    <2>1. waiter[o].good > 0
        BY DEF ChannelIsKnown, o
    <2>2. CASE Idle(o)
        BY <2>1, <2>2 DEF Idle
    <2>3. CASE Met(o)
        <3>1. waiter'[o].good >= waiter[o].good
            BY <1>1, <2>3, MetIs DEF Met
        <3>2. waiter'[o].good \in Nat
            BY <1>1, TypeStep DEF TypeInv, TypeOK, Waiter
        <3>3. QED
            BY <1>1, <2>1, <3>1, <3>2
    <2>4. CASE Renewed(o)
        BY <1>1, <2>4, AnswerIs DEF Renewed
    <2>5. QED
        BY <1>1, <2>2, <2>3, <2>4, Turns
<1>3. QED
    BY <1>2 DEF ChannelIsKnown, o

LEMMA PolledStep ==
    ASSUME NumbersInv, ChannelIsKnown, ShownChannelIsPolled, [Next]_vars
    PROVE  ShownChannelIsPolled'
<1> DEFINE o == "channel"
<1>1. /\ TypeInv /\ PtsTypes /\ waiter \in [Owners -> Waiter]
      /\ ptsTimer \in [Owners -> BOOLEAN] /\ o \in Owners
    BY TypesAre DEF NumbersInv, TypeInv, TypeOK, Owners
<1>2. Inited(waiter[o])
    BY DEF ChannelIsKnown, Inited
<1>3. shown /\ waiter[o].polling /\ ~waiter[o].requesting => ptsTimer[o]
    BY DEF ShownChannelIsPolled, Requesting
<1> HIDE DEF o
<1>4. shown' /\ waiter'[o].polling /\ ~waiter'[o].requesting => ptsTimer'[o]
    <2>1. CASE MetUpdate(o)
        <3>1. PICK p \in pushes : ApplyUpdate(o, Ev(p)) \/ CountAffected(o, Ev(p))
            BY <2>1 DEF MetUpdate
        <3>2. Ev(p) \in Numbered /\ UNCHANGED shown
            BY <1>1, <2>1, LetterIs DEF MetUpdate
        <3>3. QED
            BY <1>1, <1>3, <3>1, <3>2, MetPolls, MetRequesting
    <2>2. CASE /\ waiter'[o] = waiter[o] /\ (shown' => shown)
               /\ ptsTimer[o] /\ Inited(waiter[o]) => ptsTimer'[o]
        BY <1>2, <1>3, <2>2
    <2>3. CASE ShowChannel
        BY <1>1, <2>3 DEF ShowChannel, o
    <2>4. CASE LeaveChannel
        <3>1. waiter'[o] = [waiter[o] EXCEPT !.polling = FALSE]
            BY <1>1, <2>4 DEF LeaveChannel, o
        <3>2. ~waiter'[o].polling
            BY <1>1, <3>1 DEF Waiter
        <3>3. QED
            BY <3>2
    <2>5. CASE waiter'[o].requesting \/ (shown' => ptsTimer'[o])
        BY <2>5
    <2>6. o = "channel"
        BY DEF o
    <2>7. QED
        BY <1>1, <2>1, <2>2, <2>3, <2>4, <2>5, <2>6, TimerTurns DEF TimerTurn
<1>5. QED
    BY <1>4 DEF ShownChannelIsPolled, Requesting, o

\* The same timer polls the channel on the screen: ptsWaitingForShortPoll keeps
\* the end of a wait for skipped updates from taking it away.
THEOREM ShownChannelsArePolled ==
    ASSUME "unknownChannel" \notin Mishaps
    PROVE  Spec => []ShownChannelIsPolled
<1> DEFINE Inv == NumbersInv /\ ChannelIsKnown /\ ShownChannelIsPolled
<1>1. Init => Inv
    <2> SUFFICES ASSUME Init
                 PROVE  Inv
        OBVIOUS
    <2>1. NumbersInv
        BY NumbersInit
    <2>2. waiter["channel"] = InitAt(NewWaiter, 1) /\ ~shown
        BY DEF Init
    <2>3. InitAt(NewWaiter, 1).good = 1
        BY NewWaiterType, InitFields
    <2>4. QED
        BY <2>1, <2>2, <2>3 DEF ChannelIsKnown, ShownChannelIsPolled
<1>2. Inv /\ [Next]_vars => Inv'
    BY NumbersStep, KnownStep, PolledStep
<1>3. QED
    BY <1>1, <1>2, PTL DEF Spec


-----------------------------------------------------------------------------
(* An update shows in its turn.  What waits in the queue is not beyond the last *)
(* number that was counted, so that the number which good takes when the hole  *)
(* closes is above everything that is shown then.                              *)

QueueBelow == \A o \in Owners : \A e \in waiter[o].queue : e.pts <= waiter[o].last

LEMMA CheckedOrder ==
    ASSUME NEW w \in Waiter, NEW e \in Numbered, e.count > 0,
           \A q \in w.queue : q.pts <= w.last, w.queue \subseteq Numbered
    PROVE  LET c == Checked(w, e) IN
           /\ c \in Waiter /\ c.queue \subseteq Numbered
           /\ \A q \in c.queue : q.pts <= c.last
           /\ e.pts <= c.last
           /\ Passes(w, e) => c.good = c.last
<1> DEFINE c == Checked(w, e)
           v == Counted(w, e)
<1>1. /\ e \in Event /\ e.pts \in Nat /\ e.count \in Nat /\ w.last \in Nat
      /\ \A q \in w.queue : q.pts \in Nat
    BY DEF Numbered, Event, Waiter
<1>2. c \in Waiter /\ v \in Waiter /\ c.queue \subseteq Numbered
    BY <1>1, CheckTypes, QueueTypes
<1>3. CASE ~Inited(w)
    <2>1. c.good = e.pts /\ c.last = e.pts /\ c.queue = {}
        BY <1>3, InitFields DEF Checked
    <2> HIDE DEF c, v
    <2>2. QED
        BY <1>1, <1>2, <2>1 DEF c
<1>4. CASE Inited(w)
    <2>1. /\ v.last = (IF e.pts > w.last THEN e.pts ELSE w.last) /\ v.queue = w.queue
        BY DEF Counted, Waiter
    <2>2. /\ v.last \in Nat /\ e.pts <= v.last /\ w.last <= v.last
        BY <1>1, <2>1
    <2>3. c.last = v.last /\ c.queue = v.queue /\ (~Gaps(w, e) => c.good = v.last)
        <3>1. CASE Gaps(w, e)
            <4>1. c = [v EXCEPT !.waiting = TRUE]
                BY <1>4, <3>1 DEF Checked
            <4> HIDE DEF c, v
            <4>2. QED
                BY <1>2, <3>1, <4>1 DEF Waiter
        <3>2. CASE ~Gaps(w, e)
            <4>1. c = [v EXCEPT !.good = v.last]
                BY <1>4, <3>2 DEF Checked
            <4> HIDE DEF c, v
            <4>2. QED
                BY <1>2, <4>1 DEF Waiter
        <3>3. QED
            BY <3>1, <3>2
    <2>4. Passes(w, e) => ~Gaps(w, e)
        BY <1>1 DEF Passes
    <2> HIDE DEF c, v
    <2>5. QED
        BY <1>1, <1>2, <2>1, <2>2, <2>3, <2>4 DEF c
<1>5. QED
    BY <1>3, <1>4

LEMMA EndWaitKeeps ==
    ASSUME NEW w \in Waiter
    PROVE  /\ EndWait(w).good = w.good /\ EndWait(w).last = w.last
           /\ EndWait(w).queue \subseteq w.queue
BY DEF EndWait, Waiter

\* What is shown with an update that passes.
LEMMA ShownBelow ==
    ASSUME NEW w \in Waiter, NEW e \in Numbered, NEW Q \in SUBSET Numbered, NEW top \in Nat,
           e.pts <= top, \A q \in Q : q.pts <= top
    PROVE  \A n \in Known(w, e) \cup CoversAll(Q) : n \in Nat /\ n <= top
<1>1. e.pts \in Nat /\ \A q \in Q : q.pts \in Nat
    BY DEF Numbered, Event
<1>2. \A n \in Known(w, e) : n \in 1 .. e.pts
    BY CoversType DEF Known
<1>3. \A n \in CoversAll(Q) : \E q \in Q : n \in 1 .. q.pts
    BY CoversType DEF CoversAll
<1>4. QED
    BY <1>1, <1>2, <1>3

\* own is what the caller of a request shows by itself.
LEMMA MetOrder ==
    ASSUME PtsTypes, NEW o \in Owners, NEW e \in Numbered, e.count > 0,
           \A q \in waiter[o].queue : q.pts <= waiter[o].last,
           NEW own, \/ own = {} /\ ApplyUpdate(o, e)
                    \/ own = Covers(e) /\ CountAffected(o, e)
    PROVE  /\ \A q \in waiter'[o].queue : q.pts <= waiter'[o].last
           /\ \A n \in applied'[o] \ applied[o] :
                waiter[o].requesting \/ n <= waiter'[o].good \/ n \in own
<1> DEFINE w == waiter[o]
           c == Checked(w, e)
           A == applied[o]
           Goal == /\ \A q \in waiter'[o].queue : q.pts <= waiter'[o].last
                   /\ \A n \in applied'[o] \ A :
                        w.requesting \/ n <= waiter'[o].good \/ n \in own
<1>1. /\ w \in Waiter /\ e \in Event /\ waiter \in [Owners -> Waiter] /\ w.queue \subseteq Numbered
      /\ applied \in [Owners -> SUBSET Nat] /\ counted \in [Owners -> SUBSET Nat]
      /\ \A q \in w.queue : q.pts <= w.last
    BY DEF PtsTypes, Numbered
<1>2. ASSUME NEW v, NEW timer, NEW shows, NEW counts, PtsStep(o, v, timer, shows, counts)
      PROVE  waiter'[o] = v /\ applied'[o] = A \cup shows
    BY <1>1, <1>2 DEF PtsStep
<1>3. /\ c \in Waiter /\ c.queue \subseteq Numbered
      /\ \A q \in c.queue : q.pts <= c.last
      /\ e.pts <= c.last
      /\ Passes(w, e) => c.good = c.last
      /\ c.last \in Nat
    <2>1. /\ c \in Waiter /\ c.queue \subseteq Numbered
          /\ \A q \in c.queue : q.pts <= c.last
          /\ e.pts <= c.last
          /\ Passes(w, e) => c.good = c.last
        BY <1>1, CheckedOrder
    <2> HIDE DEF c
    <2>2. QED
        BY <2>1 DEF Waiter
<1> SUFFICES Goal
    OBVIOUS
<1> HIDE DEF c, Goal
<1>4. Passes(w, e) => \A n \in Known(w, e) \cup CoversAll(c.queue) : n <= c.good
    BY <1>1, <1>3, ShownBelow
<1> HIDE DEF w, A
<1>5. ASSUME waiter'[o] = w, UNCHANGED applied \/ w.requesting
      PROVE  Goal
    BY <1>1, <1>5 DEF Goal, A
<1>6. ASSUME NEW shows, waiter'[o] = EndWait(c) \/ waiter'[o] = c, applied'[o] = A \cup shows,
             shows \subseteq Known(w, e) \cup CoversAll(c.queue), Passes(w, e)
      PROVE  Goal
    <2>1. /\ waiter'[o].good = c.good /\ waiter'[o].last = c.last
          /\ waiter'[o].queue \subseteq c.queue
        BY <1>3, <1>6, EndWaitKeeps
    <2>2. QED
        BY <1>3, <1>4, <1>6, <2>1 DEF Goal
<1>7. CASE UpdateUnchecked(o, e)
    BY <1>2, <1>5, <1>7 DEF UpdateUnchecked, w
<1>8. CASE UpdateStale(o, e)
    BY <1>5, <1>8 DEF UpdateStale, ptsVars, w
<1>9. CASE UpdateHeld(o, e)
    <2>1. waiter'[o] = Enqueue(c, e) /\ applied'[o] = A \cup {}
        BY <1>2, <1>9 DEF UpdateHeld, w, c, A
    <2>2. /\ Enqueue(c, e).last = c.last /\ Enqueue(c, e).queue = c.queue \cup {e}
        BY <1>1, <1>3, EnqueueFields
    <2>3. QED
        BY <1>3, <2>1, <2>2 DEF Goal
<1>10. CASE UpdateApplied(o, e)
    <2>1. waiter'[o] = c /\ applied'[o] = A \cup Known(w, e) /\ Passes(w, e)
        BY <1>2, <1>10 DEF UpdateApplied, w, c, A
    <2>2. QED
        BY <1>6, <2>1
<1>11. CASE UpdateAppliedWithSkipped(o, e)
    <2>1. /\ waiter'[o] = EndWait(c) /\ Passes(w, e)
          /\ applied'[o] = A \cup (Known(w, e) \cup CoversAll(c.queue))
        BY <1>2, <1>11 DEF UpdateAppliedWithSkipped, w, c, A
    <2>2. QED
        BY <1>6, <2>1
<1>12. CASE AffectedUncounted(o, e)
    <2>1. w.requesting /\ waiter'[o] = EndWait(w)
        BY <1>2, <1>12 DEF AffectedUncounted, w
    <2>2. EndWait(w).last = w.last /\ EndWait(w).queue \subseteq w.queue
        BY <1>1, EndWaitKeeps
    <2>3. QED
        BY <1>1, <2>1, <2>2 DEF Goal
<1>13. CASE AffectedStale(o, e) /\ own = Covers(e)
    <2>1. waiter'[o] = w /\ applied'[o] = A \cup Covers(e)
        BY <1>2, <1>13 DEF AffectedStale, w, A
    <2>2. QED
        BY <1>1, <1>13, <2>1 DEF Goal
<1>14. CASE AffectedInGap(o, e) /\ own = Covers(e)
    <2>1. waiter'[o] = c /\ applied'[o] = A \cup Covers(e)
        BY <1>2, <1>14 DEF AffectedInGap, w, c, A
    <2>2. QED
        BY <1>3, <1>14, <2>1 DEF Goal
<1>15. CASE AffectedCounted(o, e)
    <2> DEFINE shows == Known(w, e) \cup (IF c.waiting THEN CoversAll(c.queue) ELSE {})
    <2>1. waiter'[o] = EndWait(c) /\ applied'[o] = A \cup shows /\ Passes(w, e)
        BY <1>2, <1>15 DEF AffectedCounted, w, c, A
    <2>2. shows \subseteq Known(w, e) \cup CoversAll(c.queue)
        OBVIOUS
    <2> HIDE DEF shows
    <2>3. QED
        BY <1>6, <2>1, <2>2
<1>16. QED
    BY <1>7, <1>8, <1>9, <1>10, <1>11, <1>12, <1>13, <1>14, <1>15 DEF ApplyUpdate, CountAffected

OrderInv == TypeInv /\ CountsSomething /\ QueueBelow

\* One step of one sequence, given which letter it counts.
LEMMA MetInOrder ==
    ASSUME OrderInv, NEW o \in Owners, Met(o)
    PROVE  /\ \A q \in waiter'[o].queue : q.pts <= waiter'[o].last
           /\ \A n \in applied'[o] \ applied[o] :
                \/ Requesting(o)
                \/ n <= waiter'[o].good
                \/ \E p \in pushes \ pushes' : p.kind = "affected" /\ n \in Covers(Ev(p))
<1>1. PICK p \in pushes : /\ pushes' = pushes \ {p} /\ p.kind # "tooLong"
                          /\ \/ ApplyUpdate(o, Ev(p))
                             \/ p.kind = "affected" /\ CountAffected(o, Ev(p))
    BY DEF Met
<1>2. Ev(p) \in Numbered /\ Ev(p).count > 0 /\ p \in pushes \ pushes' /\ PtsTypes
    BY <1>1, LetterIs, TypesAre DEF OrderInv, CountsSomething
<1>3. \A q \in waiter[o].queue : q.pts <= waiter[o].last
    BY DEF OrderInv, QueueBelow
<1>4. CASE p.kind = "affected"
    <2>1. PICK own : \/ own = {} /\ ApplyUpdate(o, Ev(p))
                     \/ own = Covers(Ev(p)) /\ CountAffected(o, Ev(p))
        BY <1>1
    <2>2. QED
        BY <1>2, <1>3, <1>4, <2>1, MetOrder DEF Requesting
<1>5. CASE ApplyUpdate(o, Ev(p))
    <2>1. PICK own : own = {} /\ ApplyUpdate(o, Ev(p))
        BY <1>5
    <2>2. /\ \A q \in waiter'[o].queue : q.pts <= waiter'[o].last
          /\ \A n \in applied'[o] \ applied[o] :
               waiter[o].requesting \/ n <= waiter'[o].good \/ n \in own
        BY <1>2, <1>3, <2>1, MetOrder
    <2>3. QED
        BY <2>1, <2>2 DEF Requesting
<1>6. QED
    BY <1>1, <1>4, <1>5

LEMMA RenewedInOrder ==
    ASSUME OrderInv, NEW o \in Owners, Renewed(o)
    PROVE  /\ waiter'[o].queue = {}
           /\ \A n \in applied'[o] \ applied[o] : n <= waiter'[o].good
<1>1. PICK d \in asked : /\ Answered(d)
                         /\ waiter'[o].good = d.answer.pts /\ waiter'[o].queue = {}
                         /\ applied'[o] = applied[o] \cup Brought(d)
    BY DEF Renewed
<1>2. d.answer.pts \in Nat /\ d.from \in Nat
    BY <1>1, AnswerIs DEF OrderInv
<1>3. QED
    BY <1>1, <1>2 DEF Brought

LEMMA QueueBelowStep ==
    ASSUME OrderInv, [Next]_vars
    PROVE  QueueBelow'
<1> SUFFICES ASSUME NEW o \in Owners
             PROVE  \A e \in waiter'[o].queue : e.pts <= waiter'[o].last
    BY DEF QueueBelow
<1>1. CASE Idle(o)
    BY <1>1 DEF Idle, OrderInv, QueueBelow
<1>2. CASE Met(o)
    BY <1>2, MetInOrder
<1>3. CASE Renewed(o)
    BY <1>3, RenewedInOrder
<1>4. QED
    BY <1>1, <1>2, <1>3, Turns DEF OrderInv

\* PtsWaiter keeps an update that came too early, and applySkippedUpdates() shows
\* what it kept when the sequence is complete: nothing is shown before something
\* that precedes it, unless a difference was asked for, whose answer sets the
\* order right, or the caller of a request shows its own effect.  An update that
\* takes no number would let the queue out too early.
THEOREM UpdatesShowInOrder ==
    ASSUME "empty" \notin Mishaps
    PROVE  Spec => InOrder
<1> DEFINE Step == \A o \in Owners : \A n \in applied'[o] \ applied[o] :
                     \/ Requesting(o)
                     \/ n <= waiter'[o].good
                     \/ \E p \in pushes \ pushes' : p.kind = "affected" /\ n \in Covers(Ev(p))
<1>1. Init => OrderInv
    <2> SUFFICES ASSUME Init
                 PROVE  OrderInv
        OBVIOUS
    <2>1. TypeInv
        BY TypeInit
    <2>2. CountsSomething
        BY DEF Init, CountsSomething
    <2>3. NewWaiter.queue = {} /\ InitAt(NewWaiter, 1).queue = {} /\ StartRequesting(NewWaiter).queue = {}
        BY NewWaiterType, InitFields, WaiterFields DEF NewWaiter
    <2>4. \A o \in Owners : waiter[o].queue = {}
        BY <2>3 DEF Init
    <2>5. QED
        BY <2>1, <2>2, <2>4 DEF OrderInv, QueueBelow
<1>2. OrderInv /\ [Next]_vars => OrderInv'
    BY TypeStep, CountsStep, QueueBelowStep DEF OrderInv
<1>3. OrderInv /\ [Next]_vars => [Step]_vars
    <2> SUFFICES ASSUME OrderInv, [Next]_vars, NEW o \in Owners, NEW n \in applied'[o] \ applied[o]
                 PROVE  \/ Requesting(o)
                        \/ n <= waiter'[o].good
                        \/ \E p \in pushes \ pushes' : p.kind = "affected" /\ n \in Covers(Ev(p))
        OBVIOUS
    <2>1. CASE Idle(o)
        BY <2>1 DEF Idle
    <2>2. CASE Met(o)
        BY <2>2, MetInOrder
    <2>3. CASE Renewed(o)
        BY <2>3, RenewedInOrder
    <2>4. QED
        BY <2>1, <2>2, <2>3, Turns DEF OrderInv
<1>4. QED
    BY <1>1, <1>2, <1>3, PTL DEF Spec, InOrder
=============================================================================
