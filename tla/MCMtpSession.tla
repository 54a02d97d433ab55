---------------------------- MODULE MCMtpSession ----------------------------
(* MtpSession on a small instance. *)
EXTENDS MtpSession, TLC

CONSTANTS r1, r2, m1, m2, m3

MCRequest   == {r1}
MCRequests  == {r1, r2}
MCMsgIds3   == {m1, m2, m3}

\* Two states that differ only in what nothing reads any more are one state:
\* the ids listed by a container that left haveSent, and the history of an id
\* that may be given again.
LiveState ==
    <<instVars, objVars, queueVars, haveSent, toResend, wereAcked, responses, mainVars,
      callVars, wakeVars, connVars, connPc, server, mishaps,
      [m \in MsgIds |-> IF haveSent[m] \in {Container, StateRequest} THEN inner[m] ELSE {}],
      [m \in MsgIds |-> IF FreshId(m) THEN NoRequest ELSE carried[m]]>>
IdSymmetry == Permutations(MsgIds)
=============================================================================
