----------------------------- MODULE RpcDelivery -----------------------------
(***************************************************************************)
(* What the MTProto layer promises the caller of MTP::send: the handlers   *)
(* of a request are called at most once in the end, with an answer the     *)
(* server gave to that very request, or the request is given up.  Answers  *)
(* may be lost or repeated on the way, never exchanged or made up.         *)
(***************************************************************************)
CONSTANTS Requests, WithHandler, Answers, RetryErrors

VARIABLES
    outcome,    \* what became of each request
    arrived,    \* the answers that reached the connection, with their request
    stored,     \* the answers waiting for the main thread
    handling    \* the answer a handler is being called with

vars == <<outcome, arrived, stored, handling>>

Init ==
    /\ outcome = [r \in Requests |-> "unused"]
    /\ arrived = {} /\ stored = {} /\ handling = {}

\* MTP::send.
Register(r) ==
    /\ outcome[r] = "unused"
    /\ outcome' = [outcome EXCEPT ![r] = "pending"]
    /\ UNCHANGED <<arrived, stored, handling>>

\* The server's answer to a request that was made.
Answer(r, kind) ==
    /\ arrived = {}
    /\ outcome[r] # "unused"
    /\ arrived' = {<<r, kind>>}
    /\ UNCHANGED <<outcome, stored, handling>>

\* An answer is kept, in place of an older one to the same request.
Store ==
    /\ arrived # {}
    /\ stored' = arrived \cup {s \in stored : \A a \in arrived : s[1] # a[1]}
    /\ arrived' = {}
    /\ UNCHANGED <<outcome, handling>>

Lose ==
    /\ arrived # {} /\ arrived' = {}
    /\ UNCHANGED <<outcome, stored, handling>>

\* A handler is called, only while its request is pending.
Handle(r, kind) ==
    /\ <<r, kind>> \in stored /\ handling = {}
    /\ r \in WithHandler /\ outcome[r] = "pending"
    /\ stored' = stored \ {<<r, kind>>} /\ handling' = {<<r, kind>>}
    /\ UNCHANGED <<outcome, arrived>>

\* The handler took the answer, or the request is to be tried again.
Handled(r, kind) ==
    /\ handling = {<<r, kind>>} /\ handling' = {}
    /\ outcome' = IF kind \in RetryErrors THEN outcome
                  ELSE [outcome EXCEPT ![r] = IF kind = "done" THEN "done" ELSE "failed"]
    /\ UNCHANGED <<arrived, stored>>

\* Nobody waits for this answer (any more).
Discard(r, kind) ==
    /\ <<r, kind>> \in stored
    /\ r \in WithHandler => outcome[r] # "pending"
    /\ stored' = stored \ {<<r, kind>>}
    /\ outcome' = IF outcome[r] = "pending" THEN [outcome EXCEPT ![r] = "done"] ELSE outcome
    /\ UNCHANGED <<arrived, handling>>

\* The caller cancels the request, or the layer gives it up; never while the
\* handler is being called.
GiveUp(r, how) ==
    /\ outcome[r] = "pending" /\ handling = {}
    /\ outcome' = [outcome EXCEPT ![r] = how]
    /\ UNCHANGED <<arrived, stored, handling>>

Next ==
    \/ \E r \in Requests : Register(r)
    \/ \E r \in Requests, kind \in Answers :
          Answer(r, kind) \/ Handle(r, kind) \/ Handled(r, kind) \/ Discard(r, kind)
    \/ \E r \in Requests, how \in {"cancelled", "failed", "dropped"} : GiveUp(r, how)
    \/ Store \/ Lose

Spec == Init /\ [][Next]_vars
=============================================================================
