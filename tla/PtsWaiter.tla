----------------------------- MODULE PtsWaiter -----------------------------
(* class PtsWaiter (data/data_pts_waiter.cpp): the bookkeeping of one          *)
(* numbered sequence of updates, as operators on a record.  An update carries  *)
(* the number the sequence has after it (pts) and how many numbers it takes    *)
(* (count).  The timer the waiter asks its owner for, and what applying an     *)
(* update does, belong to the module that owns the waiter (Updates).           *)
(*                                                                             *)
(* Definitions marked "Variant", here and in the modules that follow, are not  *)
(* part of the specification: each is a plausible slip of the definition after *)
(* it, kept to see which property notices.                                     *)
EXTENDS Naturals

Event == [pts : Nat, count : Nat]

\* queue stands for the three maps of skipped updates, which are ordered by pts.
Waiter == [good : Nat, last : Nat, count : Nat, queue : SUBSET Event,
           requesting : BOOLEAN, waiting : BOOLEAN, polling : BOOLEAN]

NewWaiter == [good |-> 0, last |-> 0, count |-> 0, queue |-> {},
              requesting |-> FALSE, waiting |-> FALSE, polling |-> FALSE]

Inited(w) == w.good > 0

InitAt(w, pts) ==
    [w EXCEPT !.good = pts, !.last = pts, !.count = pts, !.queue = {}]

\* The queue is dropped when a difference is requested: the answer brings its
\* updates again.
StartRequesting(w) == [w EXCEPT !.requesting = TRUE, !.queue = {}]
StopRequesting(w)  == [w EXCEPT !.requesting = FALSE]

\* What was received since the sequence was last complete leaves no hole.
Complete(w) == w.last = w.count

\* (Variant.)
StaleBefore(w, e) == e.pts < w.good /\ e.count > 0

\* Updates that were applied already.
Stale(w, e) == e.pts <= w.good /\ e.count > 0

Counted(w, e) ==
    [w EXCEPT !.last  = IF e.pts > @ THEN e.pts ELSE @,
              !.count = @ + e.count]

\* check() asks for the timer exactly if Gaps(w, e) ...
Gaps(w, e) == Inited(w) /\ ~Complete(Counted(w, e))

\* (Variant.)
AlwaysPasses(w, e) == TRUE

\* ... and lets the caller apply the update at once if Passes(w, e).
Passes(w, e) == Gaps(w, e) => e.count = 0

Checked(w, e) ==
    IF ~Inited(w) THEN InitAt(w, e.pts)
    ELSE IF Gaps(w, e) THEN [Counted(w, e) EXCEPT !.waiting = TRUE]
    ELSE [Counted(w, e) EXCEPT !.good = Counted(w, e).last]

Enqueue(w, e) == [w EXCEPT !.queue = @ \cup {e}]

\* applySkippedUpdates() stops the wait, whatever it was armed for, ...
EndWait(w) == IF w.waiting THEN [w EXCEPT !.waiting = FALSE, !.queue = {}] ELSE w

\* ... and cancels the timer of the owner unless a short poll needs it.
CancelsTimer(w) == w.waiting /\ ~w.polling

\* The numbers an update stands for.
Covers(e) == (e.pts - e.count + 1) .. e.pts
CoversAll(S) == UNION {Covers(e) : e \in S}
=============================================================================
