---------------------------- MODULE MCVideoTrack ----------------------------
(* VideoTrack on small instances. *)
EXTENDS VideoTrack

InOrder(n)   == [i \in 0 .. n - 1 |-> i]
\* Two neighbours are decoded in the wrong order.
Exchanged(n) == [i \in 0 .. n - 1 |-> IF i = 2 THEN 3 ELSE IF i = 3 THEN 2 ELSE i]

Played(order, toggles) ==
    [order |-> order, loop |-> FALSE, late |-> FALSE, toggles |-> toggles]

\* One longer than the ring of four frames, with two of them reordered; one that
\* the user may pause; one whose decoder may be late; one that goes on and
\* on round the ring.
MCVideos ==
    {Played(Exchanged(5), 0), Played(InOrder(3), 2),
     [Played(InOrder(4), 0) EXCEPT !.late = TRUE],
     [Played(InOrder(2), 0) EXCEPT !.loop = TRUE]}
=============================================================================
