-------------------------- MODULE MtpSession_proofs --------------------------
(***************************************************************************)
(* Theorems about one MTProto session, for any number of requests, message *)
(* ids and mishaps and any size of wereAcked.  Each rests on an inductive  *)
(* invariant (TypeOK, IdsInv, OwedInv, UsedInv, NoRetryInv, HeldInv); the  *)
(* proof that the steps preserve it has one step per action of MtpSession, *)
(* after one for all the actions that leave its variables alone.           *)
(***************************************************************************)
EXTENDS MtpSession, TLAPS

-----------------------------------------------------------------------------
(* Types. *)

\* requestsAcked keeps the maps well-typed, whatever it finds under the id.
LEMMA RequestsAckedTypes ==
  ASSUME TypeOK, NEW m \in MsgIds, NEW byResponse, RequestsAcked(m, byResponse)
  PROVE  /\ toSend' \subseteq Requests
         /\ haveSent' \in [MsgIds -> Requests \cup {NoRequest, Container, StateRequest}]
         /\ toResend' \in [MsgIds -> Requests \cup {NoRequest}]
         /\ wereAcked' \in [MsgIds -> Requests \cup {NoRequest}]
         /\ clearCalls' \subseteq Requests \X {"silent", "error"}
<1> USE SessionAssumption DEF SessionAssumption, TypeOK, DataTypeOK, MainTypeOK
<1>1. ASSUME NEW r \in Requests, EnterAcked(m, r)
      PROVE  /\ wereAcked' \in [MsgIds -> Requests \cup {NoRequest}]
             /\ clearCalls' \subseteq Requests \X {"silent", "error"}
  BY <1>1 DEF EnterAcked, EvictedRequest
<1>2. CASE IsList(m)
  BY <1>2 DEF RequestsAcked, IsList
<1>3. CASE haveSent[m] \in Requests /\ ~IsList(m)
  BY <1>1, <1>3 DEF RequestsAcked
<1>4. CASE haveSent[m] = NoRequest
  BY <1>1, <1>4 DEF RequestsAcked, IsList
<1> QED BY <1>2, <1>3, <1>4 DEF IsList

\* Every step keeps the types.
LEMMA TypeStep == TypeOK /\ [Next]_vars => TypeOK'
<1> SUFFICES ASSUME TypeOK, [Next]_vars PROVE TypeOK'
  OBVIOUS
<1> USE SessionAssumption DEF SessionAssumption
<1>1. ASSUME NEW r \in Requests, SendRequest(r) PROVE TypeOK'
  <2>1. InstanceTypeOK'
    BY <1>1 DEF TypeOK, InstanceTypeOK, DataTypeOK, MainTypeOK, PcTypeOK, SendRequest,
        MainIdle, SendPrepared, Outcomes
  <2>2. DataTypeOK'
    BY <1>1 DEF TypeOK, InstanceTypeOK, DataTypeOK, MainTypeOK, PcTypeOK, SendRequest,
        MainIdle, SendPrepared, sentVars, Kinds, Answers, RetryErrors
  <2>3. MainTypeOK'
    BY <1>1 DEF TypeOK, InstanceTypeOK, DataTypeOK, MainTypeOK, PcTypeOK, SendRequest,
        MainIdle, SendPrepared, mainVars, callVars, Kinds, Answers, RetryErrors
  <2>4. ConnTypeOK' /\ PcTypeOK'
    BY <1>1 DEF TypeOK, ConnTypeOK, PcTypeOK, SendRequest, mainVars, connVars, connPc,
        netVars
  <2> QED BY <2>1, <2>2, <2>3, <2>4 DEF TypeOK
<1>2. ASSUME NEW r \in Requests, Cancel(r) PROVE TypeOK'
  <2>1. InstanceTypeOK'
    BY <1>2 DEF TypeOK, InstanceTypeOK, DataTypeOK, MainTypeOK, PcTypeOK, Cancel,
        MainIdle, Outcomes
  <2>2. DataTypeOK'
    <3>1. haveSent' \in [MsgIds -> Requests \cup {NoRequest, Container, StateRequest}]
      BY <1>2 DEF TypeOK, DataTypeOK, Cancel
    <3> QED BY <3>1, <1>2 DEF TypeOK, DataTypeOK, Cancel, MainIdle, objVars, Kinds,
          Answers, RetryErrors
  <2>3. MainTypeOK' /\ ConnTypeOK' /\ PcTypeOK'
    BY <1>2 DEF TypeOK, MainTypeOK, ConnTypeOK, PcTypeOK, Cancel, mainVars, callVars,
        wakeVars, connVars, connPc, netVars
  <2> QED BY <2>1, <2>2, <2>3 DEF TypeOK
<1>3. ASSUME CheckRequestsByTimer PROVE TypeOK'
  <2>1. DataTypeOK'
    BY <1>3 DEF TypeOK, DataTypeOK, MainTypeOK, ConnTypeOK, PcTypeOK,
        CheckRequestsByTimer, MainIdle, Mishap, objVars, Kinds, Answers, RetryErrors
  <2>2. MainTypeOK'
    BY <1>3 DEF TypeOK, DataTypeOK, MainTypeOK, ConnTypeOK, PcTypeOK,
        CheckRequestsByTimer, MainIdle, Mishap, mainVars, Kinds, Answers, RetryErrors
  <2>3. ConnTypeOK'
    BY <1>3 DEF TypeOK, DataTypeOK, MainTypeOK, ConnTypeOK, PcTypeOK,
        CheckRequestsByTimer, MainIdle, Mishap, connVars, connPc, Kinds, Answers,
        RetryErrors
  <2>4. InstanceTypeOK' /\ PcTypeOK'
    BY <1>3 DEF TypeOK, InstanceTypeOK, PcTypeOK, CheckRequestsByTimer, instVars,
        mainVars, connPc
  <2> QED BY <2>1, <2>2, <2>3, <2>4 DEF TypeOK
<1>4. ASSUME Ping PROVE TypeOK'
  <2>1. MainTypeOK'
    BY <1>4 DEF TypeOK, MainTypeOK, ConnTypeOK, PcTypeOK, Ping, MainIdle, Mishap,
        mainVars, callVars, Kinds, Answers, RetryErrors
  <2>2. ConnTypeOK'
    BY <1>4 DEF TypeOK, MainTypeOK, ConnTypeOK, PcTypeOK, Ping, MainIdle, Mishap,
        connPc, Kinds, Answers, RetryErrors
  <2>3. InstanceTypeOK' /\ DataTypeOK' /\ PcTypeOK'
    BY <1>4 DEF TypeOK, InstanceTypeOK, DataTypeOK, PcTypeOK, Ping, instVars, objVars,
        queueVars, sentVars, mainVars, connPc
  <2> QED BY <2>1, <2>2, <2>3 DEF TypeOK
<1>5. ASSUME Stop PROVE TypeOK'
  <2>1. ConnTypeOK'
    <3>1. server' \subseteq MsgIds
      <4>1. server' \in SUBSET server
        BY <1>5 DEF Stop
      <4> QED BY <4>1 DEF TypeOK, ConnTypeOK
    <3>2. mishaps' \in 0..MaxMishaps
      BY <1>5 DEF Stop, Mishap, TypeOK, ConnTypeOK
    <3> QED BY <3>1, <3>2, <1>5 DEF TypeOK, ConnTypeOK, Stop, MainIdle, ConnIdle,
          connPc, Kinds, Answers, RetryErrors
  <2>2. InstanceTypeOK' /\ DataTypeOK' /\ MainTypeOK' /\ PcTypeOK'
    BY <1>5 DEF TypeOK, InstanceTypeOK, DataTypeOK, MainTypeOK, PcTypeOK, Stop,
        instVars, objVars, queueVars, sentVars, mainVars, callVars, connPc
  <2> QED BY <2>1, <2>2 DEF TypeOK
<1>6. ASSUME Restart PROVE TypeOK'
  <2>1. DataTypeOK'
    BY <1>6 DEF TypeOK, DataTypeOK, ConnTypeOK, PcTypeOK, Restart, ConnIdle, Mishap,
        ResetSession, RecreateKey, objVars, sentVars, Kinds, Answers, RetryErrors
  <2>2. ConnTypeOK'
    <3>1. server' \subseteq MsgIds
      <4>1. server' \in SUBSET server
        BY <1>6 DEF Restart
      <4> QED BY <4>1 DEF TypeOK, ConnTypeOK
    <3>2. mishaps' \in 0..MaxMishaps
      BY <1>6 DEF Restart, ResetSession, RecreateKey, Mishap, TypeOK, ConnTypeOK
    <3> QED BY <3>1, <3>2, <1>6 DEF TypeOK, ConnTypeOK, PcTypeOK, Restart, ConnIdle,
          ResetSession, RecreateKey, wakeVars, connPc, Kinds, Answers, RetryErrors
  <2>3. InstanceTypeOK' /\ MainTypeOK' /\ PcTypeOK'
    BY <1>6 DEF TypeOK, InstanceTypeOK, MainTypeOK, PcTypeOK, Restart, instVars,
        mainVars, callVars, wakeVars, connPc
  <2> QED BY <2>1, <2>2, <2>3 DEF TypeOK
<1>7. ASSUME RpcResultUnreadable PROVE TypeOK'
  <2>1. ConnTypeOK'
    <3>1. server' \subseteq MsgIds
      <4>1. server' \in SUBSET server
        BY <1>7 DEF RpcResultUnreadable
      <4> QED BY <4>1 DEF TypeOK, ConnTypeOK
    <3>2. mishaps' \in 0..MaxMishaps
      BY <1>7 DEF RpcResultUnreadable, Mishap, TypeOK, ConnTypeOK
    <3> QED BY <3>1, <3>2, <1>7 DEF TypeOK, ConnTypeOK, PcTypeOK, RpcResultUnreadable,
          ConnReturns, wakeVars, Kinds, Answers, RetryErrors
  <2>2. PcTypeOK'
    BY <1>7 DEF TypeOK, ConnTypeOK, PcTypeOK, RpcResultUnreadable, ConnReturns,
        mainVars, Kinds, Answers, RetryErrors
  <2>3. InstanceTypeOK' /\ DataTypeOK' /\ MainTypeOK'
    BY <1>7 DEF TypeOK, InstanceTypeOK, DataTypeOK, MainTypeOK, RpcResultUnreadable,
        instVars, objVars, queueVars, sentVars, mainVars, callVars, wakeVars
  <2> QED BY <2>1, <2>2, <2>3 DEF TypeOK
<1>8. ASSUME NEW r \in Requests, ExecCallback(r) PROVE TypeOK'
  <2>1. InstanceTypeOK'
    <3>1. outcome' \in [Requests -> Outcomes]
      BY <1>8 DEF TypeOK, InstanceTypeOK, ExecCallback, Outcomes
    <3> QED BY <3>1, <1>8 DEF TypeOK, InstanceTypeOK, DataTypeOK, MainTypeOK, PcTypeOK,
          ExecCallback, MainIdle, Outcomes
  <2>2. DataTypeOK'
    BY <1>8 DEF TypeOK, InstanceTypeOK, DataTypeOK, MainTypeOK, PcTypeOK, ExecCallback,
        MainIdle, objVars, queueVars, sentVars, Kinds, Answers, RetryErrors
  <2>3. MainTypeOK'
    BY <1>8 DEF TypeOK, InstanceTypeOK, DataTypeOK, MainTypeOK, PcTypeOK, ExecCallback,
        MainIdle, mainVars, callVars, wakeVars, Kinds, Answers, RetryErrors
  <2>4. PcTypeOK'
    BY <1>8 DEF TypeOK, InstanceTypeOK, DataTypeOK, MainTypeOK, PcTypeOK, ExecCallback,
        MainIdle, mainVars, connPc, Kinds, Answers, RetryErrors
  <2>5. ConnTypeOK'
    BY <1>8 DEF TypeOK, ConnTypeOK, ExecCallback, wakeVars, connVars, connPc, netVars
  <2> QED BY <2>1, <2>2, <2>3, <2>4, <2>5 DEF TypeOK
<1>9. ASSUME NEW r \in Requests, CheckDelayed(r) PROVE TypeOK'
  <2>1. InstanceTypeOK'
    BY <1>9 DEF TypeOK, InstanceTypeOK, DataTypeOK, MainTypeOK, PcTypeOK, CheckDelayed,
        MainIdle, SendPrepared, Outcomes
  <2>2. DataTypeOK'
    BY <1>9 DEF TypeOK, InstanceTypeOK, DataTypeOK, MainTypeOK, PcTypeOK, CheckDelayed,
        MainIdle, SendPrepared, sentVars, Kinds, Answers, RetryErrors
  <2>3. MainTypeOK'
    BY <1>9 DEF TypeOK, InstanceTypeOK, DataTypeOK, MainTypeOK, PcTypeOK, CheckDelayed,
        MainIdle, SendPrepared, mainVars, callVars, Kinds, Answers, RetryErrors
  <2>4. ConnTypeOK' /\ PcTypeOK'
    BY <1>9 DEF TypeOK, ConnTypeOK, PcTypeOK, CheckDelayed, mainVars, connVars, connPc,
        netVars
  <2> QED BY <2>1, <2>2, <2>3, <2>4 DEF TypeOK
<1>10. ASSUME NEW r \in Requests, NEW code \in {"silent", "error"}, ClearCallbacks(r, code)
       PROVE  TypeOK'
  <2>1. InstanceTypeOK'
    BY <1>10 DEF TypeOK, InstanceTypeOK, MainTypeOK, PcTypeOK, ClearCallbacks, MainIdle,
        OutcomeIfFound, Outcomes
  <2>2. MainTypeOK'
    BY <1>10 DEF TypeOK, InstanceTypeOK, MainTypeOK, PcTypeOK, ClearCallbacks, MainIdle,
        OutcomeIfFound, mainVars, wakeVars, Kinds, Answers, RetryErrors
  <2>3. DataTypeOK' /\ ConnTypeOK' /\ PcTypeOK'
    BY <1>10 DEF TypeOK, DataTypeOK, ConnTypeOK, PcTypeOK, ClearCallbacks, objVars,
        queueVars, sentVars, mainVars, wakeVars, connVars, connPc, netVars
  <2> QED BY <2>1, <2>2, <2>3 DEF TypeOK
<1>11. ASSUME NEW m \in MsgIds, NEW force \in BOOLEAN, Resend(m, force) PROVE TypeOK'
  <2>1. DataTypeOK'
    BY <1>11 DEF TypeOK, DataTypeOK, MainTypeOK, PcTypeOK, Resend, MainIdle,
        TakeFromHaveSent, objVars, queueVars, Kinds, Answers, RetryErrors
  <2>2. MainTypeOK'
    BY <1>11 DEF TypeOK, DataTypeOK, MainTypeOK, PcTypeOK, Resend, MainIdle,
        TakeFromHaveSent, mainVars, wakeVars, Kinds, Answers, RetryErrors
  <2>3. PcTypeOK'
    BY <1>11 DEF TypeOK, DataTypeOK, MainTypeOK, PcTypeOK, Resend, MainIdle,
        TakeFromHaveSent, mainVars, connPc, Kinds, Answers, RetryErrors
  <2>4. InstanceTypeOK' /\ ConnTypeOK'
    BY <1>11 DEF TypeOK, InstanceTypeOK, ConnTypeOK, Resend, instVars, wakeVars,
        connVars, connPc, netVars
  <2> QED BY <2>1, <2>2, <2>3, <2>4 DEF TypeOK
<1>12. ASSUME ResendPrepared PROVE TypeOK'
  <2>1. DataTypeOK'
    BY <1>12 DEF TypeOK, DataTypeOK, MainTypeOK, PcTypeOK, ResendPrepared, SendPrepared,
        sentVars, Kinds, Answers, RetryErrors
  <2>2. MainTypeOK'
    BY <1>12 DEF TypeOK, DataTypeOK, MainTypeOK, PcTypeOK, ResendPrepared, SendPrepared,
        callVars, Kinds, Answers, RetryErrors
  <2>3. PcTypeOK'
    BY <1>12 DEF TypeOK, DataTypeOK, MainTypeOK, PcTypeOK, ResendPrepared, SendPrepared,
        connPc, Kinds, Answers, RetryErrors
  <2>4. InstanceTypeOK' /\ ConnTypeOK'
    BY <1>12 DEF TypeOK, InstanceTypeOK, ConnTypeOK, ResendPrepared, instVars, connVars,
        connPc, netVars
  <2> QED BY <2>1, <2>2, <2>3, <2>4 DEF TypeOK
<1>13. ASSUME ResendRecorded PROVE TypeOK'
  <2>1. DataTypeOK'
    BY <1>13 DEF TypeOK, DataTypeOK, MainTypeOK, PcTypeOK, ResendRecorded, MainReturns,
        objVars, queueVars, sentVars, Kinds, Answers, RetryErrors
  <2>2. MainTypeOK'
    BY <1>13 DEF TypeOK, DataTypeOK, MainTypeOK, PcTypeOK, ResendRecorded, MainReturns,
        callVars, wakeVars, Kinds, Answers, RetryErrors
  <2>3. PcTypeOK'
    BY <1>13 DEF TypeOK, DataTypeOK, MainTypeOK, PcTypeOK, ResendRecorded, MainReturns,
        connPc, Kinds, Answers, RetryErrors
  <2>4. InstanceTypeOK' /\ ConnTypeOK'
    BY <1>13 DEF TypeOK, InstanceTypeOK, ConnTypeOK, ResendRecorded, instVars, wakeVars,
        connVars, connPc, netVars
  <2> QED BY <2>1, <2>2, <2>3, <2>4 DEF TypeOK
<1>14. ASSUME ResendAll PROVE TypeOK'
  <2>1. MainTypeOK'
    BY <1>14 DEF TypeOK, DataTypeOK, MainTypeOK, PcTypeOK, ResendAll, MainIdle,
        mainVars, wakeVars, Kinds, Answers, RetryErrors
  <2>2. InstanceTypeOK' /\ DataTypeOK' /\ ConnTypeOK' /\ PcTypeOK'
    BY <1>14 DEF TypeOK, InstanceTypeOK, DataTypeOK, ConnTypeOK, PcTypeOK, ResendAll,
        instVars, objVars, queueVars, sentVars, mainVars, wakeVars, connVars, connPc,
        netVars
  <2> QED BY <2>1, <2>2 DEF TypeOK
<1>15. ASSUME HandlerCompletes PROVE TypeOK'
  <2>1. InstanceTypeOK'
    BY <1>15 DEF TypeOK, InstanceTypeOK, MainTypeOK, PcTypeOK, HandlerCompletes,
        MainReturns, Outcomes
  <2>2. MainTypeOK'
    BY <1>15 DEF TypeOK, InstanceTypeOK, MainTypeOK, PcTypeOK, HandlerCompletes,
        MainReturns, callVars, wakeVars, Kinds, Answers, RetryErrors
  <2>3. PcTypeOK'
    BY <1>15 DEF TypeOK, InstanceTypeOK, MainTypeOK, PcTypeOK, HandlerCompletes,
        MainReturns, connPc, Kinds, Answers, RetryErrors
  <2>4. DataTypeOK' /\ ConnTypeOK'
    BY <1>15 DEF TypeOK, DataTypeOK, ConnTypeOK, HandlerCompletes, objVars, queueVars,
        sentVars, wakeVars, connVars, connPc, netVars
  <2> QED BY <2>1, <2>2, <2>3, <2>4 DEF TypeOK
<1>16. ASSUME HandlerDelays PROVE TypeOK'
  <2>1. InstanceTypeOK'
    BY <1>16 DEF TypeOK, InstanceTypeOK, MainTypeOK, PcTypeOK, HandlerDelays,
        PutHandlerBack, MainReturns, Outcomes
  <2>2. MainTypeOK'
    BY <1>16 DEF TypeOK, InstanceTypeOK, MainTypeOK, PcTypeOK, HandlerDelays,
        PutHandlerBack, MainReturns, callVars, wakeVars, Kinds, Answers, RetryErrors
  <2>3. PcTypeOK'
    BY <1>16 DEF TypeOK, InstanceTypeOK, MainTypeOK, PcTypeOK, HandlerDelays,
        PutHandlerBack, MainReturns, connPc, Kinds, Answers, RetryErrors
  <2>4. DataTypeOK' /\ ConnTypeOK'
    BY <1>16 DEF TypeOK, DataTypeOK, ConnTypeOK, HandlerDelays, objVars, queueVars,
        sentVars, wakeVars, connVars, connPc, netVars
  <2> QED BY <2>1, <2>2, <2>3, <2>4 DEF TypeOK
<1>17. ASSUME HandlerRetries PROVE TypeOK'
  <2>1. DataTypeOK'
    BY <1>17 DEF TypeOK, DataTypeOK, MainTypeOK, PcTypeOK, HandlerRetries, SendPrepared,
        sentVars, Kinds, Answers, RetryErrors
  <2>2. MainTypeOK'
    BY <1>17 DEF TypeOK, DataTypeOK, MainTypeOK, PcTypeOK, HandlerRetries, SendPrepared,
        callVars, Kinds, Answers, RetryErrors
  <2>3. PcTypeOK'
    BY <1>17 DEF TypeOK, DataTypeOK, MainTypeOK, PcTypeOK, HandlerRetries, SendPrepared,
        connPc, Kinds, Answers, RetryErrors
  <2>4. InstanceTypeOK' /\ ConnTypeOK'
    BY <1>17 DEF TypeOK, InstanceTypeOK, ConnTypeOK, HandlerRetries, instVars, connVars,
        connPc, netVars
  <2> QED BY <2>1, <2>2, <2>3, <2>4 DEF TypeOK
<1>18. ASSUME HandlerReinserted PROVE TypeOK'
  <2>1. InstanceTypeOK'
    BY <1>18 DEF TypeOK, InstanceTypeOK, MainTypeOK, PcTypeOK, HandlerReinserted,
        PutHandlerBack, MainReturns, Outcomes
  <2>2. MainTypeOK'
    BY <1>18 DEF TypeOK, InstanceTypeOK, MainTypeOK, PcTypeOK, HandlerReinserted,
        PutHandlerBack, MainReturns, callVars, wakeVars, Kinds, Answers, RetryErrors
  <2>3. PcTypeOK'
    BY <1>18 DEF TypeOK, InstanceTypeOK, MainTypeOK, PcTypeOK, HandlerReinserted,
        PutHandlerBack, MainReturns, connPc, Kinds, Answers, RetryErrors
  <2>4. DataTypeOK' /\ ConnTypeOK'
    BY <1>18 DEF TypeOK, DataTypeOK, ConnTypeOK, HandlerReinserted, objVars, queueVars,
        sentVars, wakeVars, connVars, connPc, netVars
  <2> QED BY <2>1, <2>2, <2>3, <2>4 DEF TypeOK
<1>19. ASSUME NeedToResumeAndSend PROVE TypeOK'
  <2>1. MainTypeOK'
    BY <1>19 DEF TypeOK, MainTypeOK, ConnTypeOK, PcTypeOK, NeedToResumeAndSend,
        MainIdle, mainVars, callVars, Kinds, Answers, RetryErrors
  <2>2. ConnTypeOK'
    BY <1>19 DEF TypeOK, MainTypeOK, ConnTypeOK, PcTypeOK, NeedToResumeAndSend,
        MainIdle, connPc, netVars, Kinds, Answers, RetryErrors
  <2>3. InstanceTypeOK' /\ DataTypeOK' /\ PcTypeOK'
    BY <1>19 DEF TypeOK, InstanceTypeOK, DataTypeOK, PcTypeOK, NeedToResumeAndSend,
        instVars, objVars, queueVars, sentVars, mainVars, connPc
  <2> QED BY <2>1, <2>2, <2>3 DEF TypeOK
<1>20. ASSUME TryToSendNothing PROVE TypeOK'
  <2>1. ConnTypeOK'
    BY <1>20 DEF TypeOK, DataTypeOK, ConnTypeOK, PcTypeOK, TryToSendNothing, ConnIdle,
        connVars, connPc, netVars, Kinds, Answers, RetryErrors
  <2>2. InstanceTypeOK' /\ DataTypeOK' /\ MainTypeOK' /\ PcTypeOK'
    BY <1>20 DEF TypeOK, InstanceTypeOK, DataTypeOK, MainTypeOK, PcTypeOK,
        TryToSendNothing, instVars, objVars, queueVars, sentVars, mainVars, callVars,
        connPc
  <2> QED BY <2>1, <2>2 DEF TypeOK
<1>21. ASSUME TryToSendSingle PROVE TypeOK'
  <2>1. DataTypeOK'
    BY <1>21 DEF TypeOK, DataTypeOK, ConnTypeOK, PcTypeOK, TryToSendSingle, ConnIdle,
        objVars, sentVars, Kinds, Answers, RetryErrors
  <2>2. ConnTypeOK'
    BY <1>21 DEF TypeOK, DataTypeOK, ConnTypeOK, PcTypeOK, TryToSendSingle, ConnIdle,
        connVars, netVars, Kinds, Answers, RetryErrors
  <2>3. PcTypeOK'
    BY <1>21 DEF TypeOK, DataTypeOK, ConnTypeOK, PcTypeOK, TryToSendSingle, ConnIdle,
        mainVars, Kinds, Answers, RetryErrors
  <2>4. InstanceTypeOK' /\ MainTypeOK'
    BY <1>21 DEF TypeOK, InstanceTypeOK, MainTypeOK, TryToSendSingle, instVars,
        mainVars, callVars
  <2> QED BY <2>1, <2>2, <2>3, <2>4 DEF TypeOK
<1>22. ASSUME SingleSent PROVE TypeOK'
  <2>1. DataTypeOK'
    BY <1>22 DEF TypeOK, DataTypeOK, MainTypeOK, ConnTypeOK, PcTypeOK, SingleSent,
        ConnReturns, queueVars, Kinds, Answers, RetryErrors
  <2>2. ConnTypeOK'
    BY <1>22 DEF TypeOK, DataTypeOK, MainTypeOK, ConnTypeOK, PcTypeOK, SingleSent,
        ConnReturns, wakeVars, connVars, Kinds, Answers, RetryErrors
  <2>3. PcTypeOK'
    BY <1>22 DEF TypeOK, DataTypeOK, MainTypeOK, ConnTypeOK, PcTypeOK, SingleSent,
        ConnReturns, mainVars, Kinds, Answers, RetryErrors
  <2>4. InstanceTypeOK' /\ MainTypeOK'
    BY <1>22 DEF TypeOK, InstanceTypeOK, MainTypeOK, SingleSent, instVars, mainVars,
        callVars, wakeVars
  <2> QED BY <2>1, <2>2, <2>3, <2>4 DEF TypeOK
<1>23. ASSUME TryToSendContainer PROVE TypeOK'
  <2>1. DataTypeOK'
    BY <1>23 DEF TypeOK, DataTypeOK, TryToSendContainer, ConnIdle, ContainerIds,
        Contained, RequestAt, Kinds, Answers, RetryErrors
  <2>2. ConnTypeOK'
    <3>1. PICK ids \in [toSend -> MsgIds], s \in MsgIds \cup {NoMsg}, c \in MsgIds \cup {NoMsg} :
               /\ carried' = [m \in MsgIds |-> IF m \in Contained(ids) THEN RequestAt(ids, m)
                                ELSE IF m \in {s, c} THEN NoRequest ELSE carried[m]]
               /\ server' = server \cup Contained(ids) \cup ({s, c} \ {NoMsg})
      BY <1>23 DEF TryToSendContainer
    <3>2. server' \subseteq MsgIds
      BY <3>1 DEF TypeOK, ConnTypeOK, Contained
    <3>3. \A m \in Contained(ids) : RequestAt(ids, m) \in Requests
      BY DEF Contained, RequestAt, TypeOK, DataTypeOK
    <3>4. carried' \in [MsgIds -> Requests \cup {NoRequest}]
      BY <3>1, <3>3 DEF TypeOK, ConnTypeOK
    <3> QED BY <3>2, <3>4, <1>23 DEF TypeOK, ConnTypeOK, TryToSendContainer, ConnIdle, connVars,
          connPc
  <2>3. InstanceTypeOK' /\ MainTypeOK' /\ PcTypeOK'
    BY <1>23 DEF TypeOK, InstanceTypeOK, MainTypeOK, PcTypeOK, TryToSendContainer,
        instVars, mainVars, callVars, connPc
  <2> QED BY <2>1, <2>2, <2>3 DEF TypeOK
<1>24. ASSUME OnPingSendForce PROVE TypeOK'
  <2>1. ConnTypeOK'
    BY <1>24 DEF TypeOK, ConnTypeOK, PcTypeOK, OnPingSendForce, ConnIdle, connVars,
        connPc, netVars, Kinds, Answers, RetryErrors
  <2>2. InstanceTypeOK' /\ DataTypeOK' /\ MainTypeOK' /\ PcTypeOK'
    BY <1>24 DEF TypeOK, InstanceTypeOK, DataTypeOK, MainTypeOK, PcTypeOK,
        OnPingSendForce, instVars, objVars, queueVars, sentVars, mainVars, callVars,
        connPc
  <2> QED BY <2>1, <2>2 DEF TypeOK
<1>25. ASSUME RpcResultStored PROVE TypeOK'
  <2>1. DataTypeOK'
    BY <1>25 DEF TypeOK, DataTypeOK, ConnTypeOK, PcTypeOK, RpcResultStored, ConnReturns,
        objVars, queueVars, sentVars, Kinds, Answers, RetryErrors
  <2>2. ConnTypeOK'
    BY <1>25 DEF TypeOK, DataTypeOK, ConnTypeOK, PcTypeOK, RpcResultStored, ConnReturns,
        wakeVars, connVars, netVars, Kinds, Answers, RetryErrors
  <2>3. PcTypeOK'
    BY <1>25 DEF TypeOK, DataTypeOK, ConnTypeOK, PcTypeOK, RpcResultStored, ConnReturns,
        mainVars, Kinds, Answers, RetryErrors
  <2>4. InstanceTypeOK' /\ MainTypeOK'
    BY <1>25 DEF TypeOK, InstanceTypeOK, MainTypeOK, RpcResultStored, instVars,
        mainVars, callVars, wakeVars
  <2> QED BY <2>1, <2>2, <2>3, <2>4 DEF TypeOK
<1>26. ASSUME NEW m \in MsgIds, AckMore(m) PROVE TypeOK'
  <2>1. DataTypeOK'
    BY <1>26, RequestsAckedTypes DEF TypeOK, InstanceTypeOK, DataTypeOK, MainTypeOK,
        ConnTypeOK, PcTypeOK, AckMore, objVars, Kinds, Answers, RetryErrors
  <2>2. MainTypeOK'
    BY <1>26, RequestsAckedTypes DEF TypeOK, InstanceTypeOK, DataTypeOK, MainTypeOK,
        ConnTypeOK, PcTypeOK, AckMore, mainVars, wakeVars, Kinds, Answers, RetryErrors
  <2>3. ConnTypeOK'
    BY <1>26 DEF TypeOK, InstanceTypeOK, DataTypeOK, MainTypeOK, ConnTypeOK, PcTypeOK,
        AckMore, wakeVars, connVars, netVars, Kinds, Answers, RetryErrors
  <2>4. PcTypeOK'
    BY <1>26 DEF TypeOK, InstanceTypeOK, DataTypeOK, MainTypeOK, ConnTypeOK, PcTypeOK,
        AckMore, mainVars, Kinds, Answers, RetryErrors
  <2>5. InstanceTypeOK'
    BY <1>26 DEF TypeOK, InstanceTypeOK, AckMore, instVars
  <2> QED BY <2>1, <2>2, <2>3, <2>4, <2>5 DEF TypeOK
<1>27. ASSUME AuthKeyCreated PROVE TypeOK'
  <2>1. MainTypeOK'
    BY <1>27 DEF TypeOK, MainTypeOK, ConnTypeOK, PcTypeOK, AuthKeyCreated, ConnIdle,
        BecomesConnected, EmitNeedToSendAsync, mainVars, Kinds, Answers, RetryErrors
  <2>2. ConnTypeOK'
    BY <1>27 DEF TypeOK, MainTypeOK, ConnTypeOK, PcTypeOK, AuthKeyCreated, ConnIdle,
        BecomesConnected, EmitNeedToSendAsync, connPc, netVars, Kinds, Answers,
        RetryErrors
  <2>3. InstanceTypeOK' /\ DataTypeOK' /\ PcTypeOK'
    BY <1>27 DEF TypeOK, InstanceTypeOK, DataTypeOK, PcTypeOK, AuthKeyCreated, instVars,
        objVars, queueVars, sentVars, mainVars, connPc
  <2> QED BY <2>1, <2>2, <2>3 DEF TypeOK
<1>28. ASSUME SaltReceived PROVE TypeOK'
  <2>1. MainTypeOK'
    BY <1>28 DEF TypeOK, MainTypeOK, ConnTypeOK, PcTypeOK, SaltReceived, ConnIdle,
        BecomesConnected, EmitNeedToSendAsync, mainVars, Kinds, Answers, RetryErrors
  <2>2. ConnTypeOK'
    BY <1>28 DEF TypeOK, MainTypeOK, ConnTypeOK, PcTypeOK, SaltReceived, ConnIdle,
        BecomesConnected, EmitNeedToSendAsync, connPc, netVars, Kinds, Answers,
        RetryErrors
  <2>3. InstanceTypeOK' /\ DataTypeOK' /\ PcTypeOK'
    BY <1>28 DEF TypeOK, InstanceTypeOK, DataTypeOK, PcTypeOK, SaltReceived, instVars,
        objVars, queueVars, sentVars, mainVars, connPc
  <2> QED BY <2>1, <2>2, <2>3 DEF TypeOK
<1>29. ASSUME DhGenOk PROVE TypeOK'
  <2>1. DataTypeOK'
    BY <1>29 DEF TypeOK, DataTypeOK, MainTypeOK, ConnTypeOK, PcTypeOK, DhGenOk,
        ConnIdle, ClearSessionData, objVars, queueVars, Kinds, Answers, RetryErrors
  <2>2. MainTypeOK'
    BY <1>29 DEF TypeOK, DataTypeOK, MainTypeOK, ConnTypeOK, PcTypeOK, DhGenOk,
        ConnIdle, ClearSessionData, mainVars, wakeVars, Kinds, Answers, RetryErrors
  <2>3. ConnTypeOK'
    BY <1>29 DEF TypeOK, DataTypeOK, MainTypeOK, ConnTypeOK, PcTypeOK, DhGenOk,
        ConnIdle, ClearSessionData, wakeVars, connPc, Kinds, Answers, RetryErrors
  <2>4. InstanceTypeOK' /\ PcTypeOK'
    BY <1>29 DEF TypeOK, InstanceTypeOK, PcTypeOK, DhGenOk, instVars, mainVars, connPc
  <2> QED BY <2>1, <2>2, <2>3, <2>4 DEF TypeOK
<1>30. ASSUME NEW m \in MsgIds, NEW kind \in Answers, RpcResult(m, kind) PROVE TypeOK'
  <2>1. DataTypeOK'
    BY <1>30, RequestsAckedTypes DEF TypeOK, InstanceTypeOK, DataTypeOK, MainTypeOK,
        ConnTypeOK, PcTypeOK, RpcResult, Receiving, RetryErrors, Mishap, ConnIdle,
        objVars, Kinds, Answers
  <2>2. MainTypeOK'
    BY <1>30, RequestsAckedTypes DEF TypeOK, InstanceTypeOK, DataTypeOK, MainTypeOK,
        ConnTypeOK, PcTypeOK, RpcResult, Receiving, RetryErrors, Mishap, ConnIdle,
        mainVars, wakeVars, Kinds, Answers
  <2>3. ConnTypeOK'
    BY <1>30 DEF TypeOK, InstanceTypeOK, DataTypeOK, MainTypeOK, ConnTypeOK, PcTypeOK,
        RpcResult, Receiving, RetryErrors, Mishap, ConnIdle, wakeVars, connVars, Kinds,
        Answers
  <2>4. PcTypeOK'
    BY <1>30 DEF TypeOK, InstanceTypeOK, DataTypeOK, MainTypeOK, ConnTypeOK, PcTypeOK,
        RpcResult, Receiving, RetryErrors, Mishap, ConnIdle, mainVars, Kinds, Answers
  <2>5. InstanceTypeOK'
    BY <1>30 DEF TypeOK, InstanceTypeOK, RpcResult, instVars
  <2> QED BY <2>1, <2>2, <2>3, <2>4, <2>5 DEF TypeOK
<1>31. ASSUME NEW m \in MsgIds, MsgsAck(m) PROVE TypeOK'
  <2>1. DataTypeOK'
    BY <1>31, RequestsAckedTypes DEF TypeOK, InstanceTypeOK, DataTypeOK, MainTypeOK,
        ConnTypeOK, PcTypeOK, MsgsAck, Receiving, ConnIdle, objVars, Kinds, Answers,
        RetryErrors
  <2>2. MainTypeOK'
    BY <1>31, RequestsAckedTypes DEF TypeOK, InstanceTypeOK, DataTypeOK, MainTypeOK,
        ConnTypeOK, PcTypeOK, MsgsAck, Receiving, ConnIdle, mainVars, wakeVars, Kinds,
        Answers, RetryErrors
  <2>3. ConnTypeOK'
    BY <1>31 DEF TypeOK, InstanceTypeOK, DataTypeOK, MainTypeOK, ConnTypeOK, PcTypeOK,
        MsgsAck, Receiving, ConnIdle, wakeVars, connVars, Kinds, Answers, RetryErrors
  <2>4. PcTypeOK'
    BY <1>31 DEF TypeOK, InstanceTypeOK, DataTypeOK, MainTypeOK, ConnTypeOK, PcTypeOK,
        MsgsAck, Receiving, ConnIdle, mainVars, Kinds, Answers, RetryErrors
  <2>5. InstanceTypeOK'
    BY <1>31 DEF TypeOK, InstanceTypeOK, MsgsAck, instVars
  <2> QED BY <2>1, <2>2, <2>3, <2>4, <2>5 DEF TypeOK
<1>32. ASSUME NEW m \in MsgIds, MsgsStateInfo(m) PROVE TypeOK'
  <2>1. MainTypeOK'
    BY <1>32 DEF TypeOK, DataTypeOK, MainTypeOK, ConnTypeOK, PcTypeOK, MsgsStateInfo,
        Receiving, ConnIdle, mainVars, wakeVars, Kinds, Answers, RetryErrors
  <2>2. ConnTypeOK'
    BY <1>32 DEF TypeOK, DataTypeOK, MainTypeOK, ConnTypeOK, PcTypeOK, MsgsStateInfo,
        Receiving, ConnIdle, wakeVars, connVars, Kinds, Answers, RetryErrors
  <2>3. PcTypeOK'
    BY <1>32 DEF TypeOK, DataTypeOK, MainTypeOK, ConnTypeOK, PcTypeOK, MsgsStateInfo,
        Receiving, ConnIdle, mainVars, Kinds, Answers, RetryErrors
  <2>4. InstanceTypeOK' /\ DataTypeOK'
    BY <1>32 DEF TypeOK, InstanceTypeOK, DataTypeOK, MsgsStateInfo, instVars, objVars,
        queueVars, sentVars
  <2> QED BY <2>1, <2>2, <2>3, <2>4 DEF TypeOK
<1>33. ASSUME NEW m \in MsgIds, BadMsgFatal(m) PROVE TypeOK'
  <2>1. MainTypeOK'
    BY <1>33 DEF TypeOK, DataTypeOK, MainTypeOK, ConnTypeOK, PcTypeOK, BadMsgFatal,
        Receiving, Mishap, ConnIdle, mainVars, wakeVars, Kinds, Answers, RetryErrors
  <2>2. ConnTypeOK'
    BY <1>33 DEF TypeOK, DataTypeOK, MainTypeOK, ConnTypeOK, PcTypeOK, BadMsgFatal,
        Receiving, Mishap, ConnIdle, wakeVars, connVars, connPc, Kinds, Answers,
        RetryErrors
  <2>3. InstanceTypeOK' /\ DataTypeOK' /\ PcTypeOK'
    BY <1>33 DEF TypeOK, InstanceTypeOK, DataTypeOK, PcTypeOK, BadMsgFatal, instVars,
        objVars, queueVars, sentVars, mainVars, connPc
  <2> QED BY <2>1, <2>2, <2>3 DEF TypeOK
<1>34. ASSUME NEW m \in MsgIds, ServerRepeats(m) PROVE TypeOK'
  <2>1. ConnTypeOK'
    BY <1>34 DEF TypeOK, DataTypeOK, MainTypeOK, ConnTypeOK, PcTypeOK, ServerRepeats,
        Mishap, wakeVars, connVars, connPc, Kinds, Answers, RetryErrors
  <2>2. InstanceTypeOK' /\ DataTypeOK' /\ MainTypeOK' /\ PcTypeOK'
    BY <1>34 DEF TypeOK, InstanceTypeOK, DataTypeOK, MainTypeOK, PcTypeOK,
        ServerRepeats, instVars, objVars, queueVars, sentVars, mainVars, callVars,
        wakeVars, connPc
  <2> QED BY <2>1, <2>2 DEF TypeOK
<1>35. ASSUME NEW m \in MsgIds, NEW force \in BOOLEAN, ServerWantsResend(m, force)
       PROVE  TypeOK'
  <2>1. MainTypeOK'
    BY <1>35 DEF TypeOK, DataTypeOK, MainTypeOK, ConnTypeOK, PcTypeOK,
        ServerWantsResend, Receiving, Mishap, ConnIdle, mainVars, wakeVars, Kinds,
        Answers, RetryErrors
  <2>2. ConnTypeOK'
    BY <1>35 DEF TypeOK, DataTypeOK, MainTypeOK, ConnTypeOK, PcTypeOK,
        ServerWantsResend, Receiving, Mishap, ConnIdle, wakeVars, connVars, connPc,
        Kinds, Answers, RetryErrors
  <2>3. InstanceTypeOK' /\ DataTypeOK' /\ PcTypeOK'
    BY <1>35 DEF TypeOK, InstanceTypeOK, DataTypeOK, PcTypeOK, ServerWantsResend,
        instVars, objVars, queueVars, sentVars, mainVars, connPc
  <2> QED BY <2>1, <2>2, <2>3 DEF TypeOK
<1>36. ASSUME NewSessionCreated PROVE TypeOK'
  <2>1. MainTypeOK'
    BY <1>36 DEF TypeOK, DataTypeOK, MainTypeOK, ConnTypeOK, PcTypeOK,
        NewSessionCreated, Receiving, Mishap, ConnIdle, mainVars, wakeVars, Kinds,
        Answers, RetryErrors
  <2>2. ConnTypeOK'
    BY <1>36 DEF TypeOK, DataTypeOK, MainTypeOK, ConnTypeOK, PcTypeOK,
        NewSessionCreated, Receiving, Mishap, ConnIdle, wakeVars, connVars, connPc,
        Kinds, Answers, RetryErrors
  <2>3. InstanceTypeOK' /\ DataTypeOK' /\ PcTypeOK'
    BY <1>36 DEF TypeOK, InstanceTypeOK, DataTypeOK, PcTypeOK, NewSessionCreated,
        instVars, objVars, queueVars, sentVars, mainVars, connPc
  <2> QED BY <2>1, <2>2, <2>3 DEF TypeOK
<1>37. CASE UNCHANGED vars
  BY <1>37 DEF TypeOK, InstanceTypeOK, DataTypeOK, MainTypeOK, ConnTypeOK, PcTypeOK,
    vars, instVars, objVars, queueVars, sentVars, mainVars, callVars, wakeVars,
    connVars, connPc, netVars
<1> QED BY <1>1, <1>2, <1>3, <1>4, <1>5, <1>6, <1>7, <1>8, <1>9, <1>10, <1>11, <1>12,
    <1>13, <1>14, <1>15, <1>16, <1>17, <1>18, <1>19, <1>20, <1>21, <1>22, <1>23, <1>24,
    <1>25, <1>26, <1>27, <1>28, <1>29, <1>30, <1>31, <1>32, <1>33, <1>34, <1>35, <1>36,
    <1>37 DEF Next, MainStep, ConnStep, Connects, ServerSends

\* The initial state is well-typed.
LEMMA TypeInit == Init => TypeOK
<1> SUFFICES ASSUME Init PROVE TypeOK
  OBVIOUS
<1> USE SessionAssumption DEF SessionAssumption, Init
<1>1. InstanceTypeOK
  BY DEF InstanceTypeOK, Outcomes
<1>2. DataTypeOK
  BY DEF DataTypeOK, Kinds
<1>3. MainTypeOK
  BY DEF MainTypeOK, Kinds
<1>4. ConnTypeOK
  <2>1. mishaps \in 0..MaxMishaps
    OBVIOUS
  <2> QED BY <2>1 DEF ConnTypeOK, Kinds
<1>5. PcTypeOK
  BY DEF PcTypeOK
<1> QED BY <1>1, <1>2, <1>3, <1>4, <1>5 DEF TypeOK

\* Every variable keeps its type; in particular mainReq, mainMsg, connReq and
\* connMsg name a request or a message wherever a handler goes on with them
\* after it released a lock (Session::resend, ConnectionPrivate::tryToSend).
THEOREM TypeCorrect == Spec => []TypeOK
<1>1. Init => TypeOK
  BY TypeInit
<1>2. TypeOK /\ [Next]_vars => TypeOK'
  BY TypeStep
<1> QED BY <1>1, <1>2, PTL DEF Spec

-----------------------------------------------------------------------------
(* Message ids. *)

\* Inductive: the id written in a request, and the one a resend is in the middle
\* of, belong to that request.
IdsInv ==
    /\ MsgIdsMatch
    /\ \A r \in Requests : msgIdOf[r] # NoMsg => carried[msgIdOf[r]] = r
    /\ mainAt \in {"erased", "queued"} => carried[mainMsg] = mainReq

\* A fresh id is in none of the maps, a resent request keeps its own.
LEMMA IdsStep ==
  TypeOK /\ IdsInv /\ [Next]_vars => IdsInv'
<1> SUFFICES ASSUME TypeOK, IdsInv, [Next]_vars PROVE IdsInv'
  OBVIOUS
<1> USE SessionAssumption DEF SessionAssumption
<1>1. ASSUME UNCHANGED <<haveSent, toResend, wereAcked, carried, msgIdOf, mainAt, mainMsg, mainReq>>
      PROVE  IdsInv'
  BY <1>1 DEF IdsInv, MsgIdsMatch
<1>2. ASSUME NEW r \in Requests, SendRequest(r) PROVE IdsInv'
  BY <1>2 DEF TypeOK, DataTypeOK, MainTypeOK, ConnTypeOK, PcTypeOK, IdsInv, MsgIdsMatch,
      SendRequest, MainIdle, SendPrepared, sentVars, mainVars, netVars
<1>3. ASSUME NEW r \in Requests, Cancel(r) PROVE IdsInv'
  BY <1>3 DEF TypeOK, DataTypeOK, MainTypeOK, ConnTypeOK, PcTypeOK, IdsInv, MsgIdsMatch,
      Cancel, MainIdle, objVars, mainVars, netVars
<1>4. ASSUME CheckRequestsByTimer PROVE IdsInv'
  BY <1>4 DEF TypeOK, DataTypeOK, MainTypeOK, ConnTypeOK, PcTypeOK, IdsInv, MsgIdsMatch,
      CheckRequestsByTimer, MainIdle, Mishap, objVars, mainVars
<1>5. ASSUME Ping PROVE IdsInv'
  BY <1>1, <1>5 DEF Ping, objVars, sentVars, mainVars
<1>6. ASSUME Stop PROVE IdsInv'
  BY <1>1, <1>6 DEF Stop, objVars, sentVars, mainVars
<1>7. ASSUME Restart PROVE IdsInv'
  BY <1>1, <1>7 DEF Restart, objVars, sentVars, mainVars
<1>8. ASSUME RpcResultUnreadable PROVE IdsInv'
  BY <1>1, <1>8 DEF RpcResultUnreadable, objVars, sentVars, mainVars
<1>9. ASSUME NEW r \in Requests, ExecCallback(r) PROVE IdsInv'
  BY <1>9 DEF TypeOK, DataTypeOK, MainTypeOK, ConnTypeOK, PcTypeOK, IdsInv, MsgIdsMatch,
      ExecCallback, MainIdle, mainVars, objVars, sentVars, netVars
<1>10. ASSUME NEW r \in Requests, CheckDelayed(r) PROVE IdsInv'
  BY <1>10 DEF TypeOK, DataTypeOK, MainTypeOK, ConnTypeOK, PcTypeOK, IdsInv,
      MsgIdsMatch, CheckDelayed, MainIdle, SendPrepared, sentVars, mainVars, netVars
<1>11. ASSUME NEW r \in Requests, NEW code \in {"silent", "error"}, ClearCallbacks(r, code)
       PROVE  IdsInv'
  BY <1>1, <1>11 DEF ClearCallbacks, objVars, sentVars, mainVars, netVars
<1>12. ASSUME NEW m \in MsgIds, NEW force \in BOOLEAN, Resend(m, force) PROVE IdsInv'
  BY <1>12 DEF TypeOK, DataTypeOK, MainTypeOK, ConnTypeOK, PcTypeOK, IdsInv,
      MsgIdsMatch, Resend, MainIdle, TakeFromHaveSent, mainVars, objVars, netVars
<1>13. ASSUME ResendPrepared PROVE IdsInv'
  BY <1>13 DEF TypeOK, DataTypeOK, MainTypeOK, ConnTypeOK, PcTypeOK, IdsInv,
      MsgIdsMatch, ResendPrepared, SendPrepared, sentVars, netVars
<1>14. ASSUME ResendRecorded PROVE IdsInv'
  BY <1>14 DEF TypeOK, DataTypeOK, MainTypeOK, ConnTypeOK, PcTypeOK, IdsInv,
      MsgIdsMatch, ResendRecorded, MainReturns, objVars, sentVars, netVars
<1>15. ASSUME ResendAll PROVE IdsInv'
  BY <1>1, <1>15 DEF ResendAll, objVars, sentVars, mainVars, netVars
<1>16. ASSUME HandlerCompletes PROVE IdsInv'
  BY <1>16 DEF TypeOK, DataTypeOK, MainTypeOK, ConnTypeOK, PcTypeOK, IdsInv,
      MsgIdsMatch, HandlerCompletes, MainReturns, objVars, sentVars, netVars
<1>17. ASSUME HandlerDelays PROVE IdsInv'
  BY <1>17 DEF TypeOK, DataTypeOK, MainTypeOK, ConnTypeOK, PcTypeOK, IdsInv,
      MsgIdsMatch, HandlerDelays, PutHandlerBack, MainReturns, objVars, sentVars,
      netVars
<1>18. ASSUME HandlerRetries PROVE IdsInv'
  BY <1>18 DEF TypeOK, DataTypeOK, MainTypeOK, ConnTypeOK, PcTypeOK, IdsInv,
      MsgIdsMatch, HandlerRetries, SendPrepared, sentVars, netVars
<1>19. ASSUME HandlerReinserted PROVE IdsInv'
  BY <1>19 DEF TypeOK, DataTypeOK, MainTypeOK, ConnTypeOK, PcTypeOK, IdsInv,
      MsgIdsMatch, HandlerReinserted, PutHandlerBack, MainReturns, objVars, sentVars,
      netVars
<1>20. ASSUME NeedToResumeAndSend PROVE IdsInv'
  BY <1>1, <1>20 DEF NeedToResumeAndSend, objVars, sentVars, mainVars, netVars
<1>21. ASSUME TryToSendNothing PROVE IdsInv'
  BY <1>1, <1>21 DEF TryToSendNothing, objVars, sentVars, mainVars, netVars
<1>22. ASSUME TryToSendSingle PROVE IdsInv'
  BY <1>1, <1>22 DEF TryToSendSingle, objVars, sentVars, mainVars, netVars
<1>23. ASSUME SingleSent PROVE IdsInv'
  BY <1>23 DEF TypeOK, DataTypeOK, MainTypeOK, ConnTypeOK, PcTypeOK, IdsInv,
      MsgIdsMatch, SingleSent, Prepared, ConnReturns, FreshId, mainVars
<1>24. ASSUME TryToSendContainer PROVE IdsInv'
  BY <1>24 DEF TypeOK, DataTypeOK, MainTypeOK, ConnTypeOK, PcTypeOK, IdsInv,
      MsgIdsMatch, TryToSendContainer, ContainerIds, Contained, RequestAt, Prepared,
      FreshId, mainVars
<1>25. ASSUME OnPingSendForce PROVE IdsInv'
  BY <1>1, <1>25 DEF OnPingSendForce, objVars, sentVars, mainVars, netVars
<1>26. ASSUME RpcResultStored PROVE IdsInv'
  BY <1>1, <1>26 DEF RpcResultStored, objVars, sentVars, mainVars, netVars
<1>27. ASSUME NEW m \in MsgIds, AckMore(m) PROVE IdsInv'
  BY <1>27 DEF TypeOK, DataTypeOK, MainTypeOK, ConnTypeOK, PcTypeOK, IdsInv,
      MsgIdsMatch, AckMore, RequestsAcked, MovesToAcked, IsList, EnterAcked,
      EvictedRequest, objVars, mainVars, netVars
<1>28. ASSUME AuthKeyCreated PROVE IdsInv'
  BY <1>1, <1>28 DEF AuthKeyCreated, objVars, sentVars, mainVars, netVars
<1>29. ASSUME SaltReceived PROVE IdsInv'
  BY <1>1, <1>29 DEF SaltReceived, objVars, sentVars, mainVars, netVars
<1>30. ASSUME DhGenOk PROVE IdsInv'
  BY <1>30 DEF TypeOK, DataTypeOK, MainTypeOK, ConnTypeOK, PcTypeOK, IdsInv,
      MsgIdsMatch, DhGenOk, ClearSessionData, objVars, mainVars
<1>31. ASSUME NEW m \in MsgIds, NEW kind \in Answers, RpcResult(m, kind) PROVE IdsInv'
  BY <1>31 DEF TypeOK, DataTypeOK, MainTypeOK, ConnTypeOK, PcTypeOK, IdsInv,
      MsgIdsMatch, RpcResult, Receiving, RetryErrors, Mishap, RequestsAcked,
      MovesToAcked, IsList, EnterAcked, EvictedRequest, objVars, mainVars
<1>32. ASSUME NEW m \in MsgIds, MsgsAck(m) PROVE IdsInv'
  BY <1>32 DEF TypeOK, DataTypeOK, MainTypeOK, ConnTypeOK, PcTypeOK, IdsInv,
      MsgIdsMatch, MsgsAck, Receiving, RequestsAcked, MovesToAcked, IsList, EnterAcked,
      EvictedRequest, objVars, mainVars
<1>33. ASSUME NEW m \in MsgIds, MsgsStateInfo(m) PROVE IdsInv'
  BY <1>1, <1>33 DEF MsgsStateInfo, objVars, sentVars, mainVars
<1>34. ASSUME NEW m \in MsgIds, BadMsgFatal(m) PROVE IdsInv'
  BY <1>1, <1>34 DEF BadMsgFatal, objVars, sentVars, mainVars
<1>35. ASSUME NEW m \in MsgIds, ServerRepeats(m) PROVE IdsInv'
  BY <1>1, <1>35 DEF ServerRepeats, objVars, sentVars, mainVars
<1>36. ASSUME NEW m \in MsgIds, NEW force \in BOOLEAN, ServerWantsResend(m, force)
       PROVE  IdsInv'
  BY <1>1, <1>36 DEF ServerWantsResend, objVars, sentVars, mainVars
<1>37. ASSUME NewSessionCreated PROVE IdsInv'
  BY <1>1, <1>37 DEF NewSessionCreated, objVars, sentVars, mainVars
<1>38. CASE UNCHANGED vars
  BY <1>1, <1>38 DEF vars, instVars, objVars, queueVars, sentVars, mainVars, callVars,
    wakeVars, connVars, connPc, netVars
<1> QED BY <1>1, <1>2, <1>3, <1>4, <1>5, <1>6, <1>7, <1>8, <1>9, <1>10, <1>11, <1>12,
    <1>13, <1>14, <1>15, <1>16, <1>17, <1>18, <1>19, <1>20, <1>21, <1>22, <1>23, <1>24,
    <1>25, <1>26, <1>27, <1>28, <1>29, <1>30, <1>31, <1>32, <1>33, <1>34, <1>35, <1>36,
    <1>37, <1>38 DEF Next, MainStep, ConnStep, Connects, ServerSends

\* What the maps say of a message id is about the request that was sent under
\* it, so that wasSent never hands an answer to another request's handler.
THEOREM MsgIdsCorrect == Spec => []MsgIdsMatch
<1>1. Init => IdsInv
  BY SessionAssumption DEF Init, IdsInv, MsgIdsMatch, SessionAssumption
<1>2. TypeOK /\ IdsInv /\ [Next]_vars => IdsInv'
  BY IdsStep
<1>3. IdsInv => MsgIdsMatch
  BY DEF IdsInv
<1> QED BY <1>1, <1>2, <1>3, TypeCorrect, PTL DEF Spec

-----------------------------------------------------------------------------
(* Handlers. *)

\* Inductive: only requests sent with handlers have them, and a handler that is
\* being called is out of parserMap.
OwedInv ==
    /\ PendingIsOwed
    /\ parserMap \subseteq WithHandler
    /\ mainAt \in {"handler", "reinsert"} => mainReq \in WithHandler \ parserMap

\* Each step moves the handler and the outcome of a request together.
LEMMA OwedStep ==
  TypeOK /\ OwedInv /\ [Next]_vars => OwedInv'
<1> SUFFICES ASSUME TypeOK, OwedInv, [Next]_vars PROVE OwedInv'
  OBVIOUS
<1> USE SessionAssumption DEF SessionAssumption
<1>1. ASSUME UNCHANGED <<parserMap, outcome, mainAt, mainReq>> PROVE OwedInv'
  BY <1>1 DEF OwedInv, PendingIsOwed, HandlerOwed
<1>2. ASSUME NEW r \in Requests, SendRequest(r) PROVE OwedInv'
  BY <1>2 DEF TypeOK, InstanceTypeOK, OwedInv, PendingIsOwed, HandlerOwed, SendRequest,
      MainIdle, SendPrepared, mainVars
<1>3. ASSUME NEW r \in Requests, Cancel(r) PROVE OwedInv'
  BY <1>3 DEF TypeOK, InstanceTypeOK, OwedInv, PendingIsOwed, HandlerOwed, Cancel,
      MainIdle, mainVars
<1>4. ASSUME CheckRequestsByTimer PROVE OwedInv'
  BY <1>1, <1>4 DEF CheckRequestsByTimer, instVars, mainVars
<1>5. ASSUME Ping PROVE OwedInv'
  BY <1>1, <1>5 DEF Ping, instVars, mainVars
<1>6. ASSUME Stop PROVE OwedInv'
  BY <1>1, <1>6 DEF Stop, instVars, mainVars
<1>7. ASSUME Restart PROVE OwedInv'
  BY <1>1, <1>7 DEF Restart, instVars, mainVars
<1>8. ASSUME RpcResultUnreadable PROVE OwedInv'
  BY <1>1, <1>8 DEF RpcResultUnreadable, instVars, mainVars
<1>9. ASSUME NEW r \in Requests, ExecCallback(r) PROVE OwedInv'
  BY <1>9 DEF TypeOK, InstanceTypeOK, OwedInv, PendingIsOwed, HandlerOwed, ExecCallback,
      MainIdle, mainVars
<1>10. ASSUME NEW r \in Requests, CheckDelayed(r) PROVE OwedInv'
  BY <1>1, <1>10 DEF CheckDelayed, mainVars
<1>11. ASSUME NEW r \in Requests, NEW code \in {"silent", "error"}, ClearCallbacks(r, code)
       PROVE  OwedInv'
  BY <1>11 DEF TypeOK, InstanceTypeOK, OwedInv, PendingIsOwed, HandlerOwed,
      ClearCallbacks, MainIdle, OutcomeIfFound, mainVars
<1>12. ASSUME NEW m \in MsgIds, NEW force \in BOOLEAN, Resend(m, force) PROVE OwedInv'
  BY <1>12 DEF TypeOK, InstanceTypeOK, OwedInv, PendingIsOwed, HandlerOwed, Resend,
      MainIdle, TakeFromHaveSent, mainVars, instVars
<1>13. ASSUME ResendPrepared PROVE OwedInv'
  BY <1>13 DEF TypeOK, InstanceTypeOK, OwedInv, PendingIsOwed, HandlerOwed,
      ResendPrepared, SendPrepared, instVars
<1>14. ASSUME ResendRecorded PROVE OwedInv'
  BY <1>14 DEF TypeOK, InstanceTypeOK, OwedInv, PendingIsOwed, HandlerOwed,
      ResendRecorded, MainReturns, instVars
<1>15. ASSUME ResendAll PROVE OwedInv'
  BY <1>1, <1>15 DEF ResendAll, instVars, mainVars
<1>16. ASSUME HandlerCompletes PROVE OwedInv'
  BY <1>16 DEF TypeOK, InstanceTypeOK, OwedInv, PendingIsOwed, HandlerOwed,
      HandlerCompletes, MainReturns
<1>17. ASSUME HandlerDelays PROVE OwedInv'
  BY <1>17 DEF TypeOK, InstanceTypeOK, OwedInv, PendingIsOwed, HandlerOwed,
      HandlerDelays, PutHandlerBack, MainReturns
<1>18. ASSUME HandlerRetries PROVE OwedInv'
  BY <1>18 DEF TypeOK, InstanceTypeOK, OwedInv, PendingIsOwed, HandlerOwed,
      HandlerRetries, SendPrepared, instVars
<1>19. ASSUME HandlerReinserted PROVE OwedInv'
  BY <1>19 DEF TypeOK, InstanceTypeOK, OwedInv, PendingIsOwed, HandlerOwed,
      HandlerReinserted, PutHandlerBack, MainReturns
<1>20. ASSUME NeedToResumeAndSend PROVE OwedInv'
  BY <1>1, <1>20 DEF NeedToResumeAndSend, instVars, mainVars
<1>21. ASSUME TryToSendNothing PROVE OwedInv'
  BY <1>1, <1>21 DEF TryToSendNothing, instVars, mainVars
<1>22. ASSUME TryToSendSingle PROVE OwedInv'
  BY <1>1, <1>22 DEF TryToSendSingle, instVars, mainVars
<1>23. ASSUME SingleSent PROVE OwedInv'
  BY <1>1, <1>23 DEF SingleSent, instVars, mainVars
<1>24. ASSUME TryToSendContainer PROVE OwedInv'
  BY <1>1, <1>24 DEF TryToSendContainer, instVars, mainVars
<1>25. ASSUME OnPingSendForce PROVE OwedInv'
  BY <1>1, <1>25 DEF OnPingSendForce, instVars, mainVars
<1>26. ASSUME RpcResultStored PROVE OwedInv'
  BY <1>1, <1>26 DEF RpcResultStored, instVars, mainVars
<1>27. ASSUME NEW m \in MsgIds, AckMore(m) PROVE OwedInv'
  BY <1>1, <1>27 DEF AckMore, instVars, mainVars
<1>28. ASSUME AuthKeyCreated PROVE OwedInv'
  BY <1>1, <1>28 DEF AuthKeyCreated, instVars, mainVars
<1>29. ASSUME SaltReceived PROVE OwedInv'
  BY <1>1, <1>29 DEF SaltReceived, instVars, mainVars
<1>30. ASSUME DhGenOk PROVE OwedInv'
  BY <1>1, <1>30 DEF DhGenOk, instVars, mainVars
<1>31. ASSUME NEW m \in MsgIds, NEW kind \in Answers, RpcResult(m, kind) PROVE OwedInv'
  BY <1>1, <1>31 DEF RpcResult, instVars, mainVars
<1>32. ASSUME NEW m \in MsgIds, MsgsAck(m) PROVE OwedInv'
  BY <1>1, <1>32 DEF MsgsAck, instVars, mainVars
<1>33. ASSUME NEW m \in MsgIds, MsgsStateInfo(m) PROVE OwedInv'
  BY <1>1, <1>33 DEF MsgsStateInfo, instVars, mainVars
<1>34. ASSUME NEW m \in MsgIds, BadMsgFatal(m) PROVE OwedInv'
  BY <1>1, <1>34 DEF BadMsgFatal, instVars, mainVars
<1>35. ASSUME NEW m \in MsgIds, ServerRepeats(m) PROVE OwedInv'
  BY <1>1, <1>35 DEF ServerRepeats, instVars, mainVars
<1>36. ASSUME NEW m \in MsgIds, NEW force \in BOOLEAN, ServerWantsResend(m, force)
       PROVE  OwedInv'
  BY <1>1, <1>36 DEF ServerWantsResend, instVars, mainVars
<1>37. ASSUME NewSessionCreated PROVE OwedInv'
  BY <1>1, <1>37 DEF NewSessionCreated, instVars, mainVars
<1>38. CASE UNCHANGED vars
  BY <1>1, <1>38 DEF vars, instVars, objVars, queueVars, sentVars, mainVars, callVars,
    wakeVars, connVars, connPc, netVars
<1> QED BY <1>1, <1>2, <1>3, <1>4, <1>5, <1>6, <1>7, <1>8, <1>9, <1>10, <1>11, <1>12,
    <1>13, <1>14, <1>15, <1>16, <1>17, <1>18, <1>19, <1>20, <1>21, <1>22, <1>23, <1>24,
    <1>25, <1>26, <1>27, <1>28, <1>29, <1>30, <1>31, <1>32, <1>33, <1>34, <1>35, <1>36,
    <1>37, <1>38 DEF Next, MainStep, ConnStep, Connects, ServerSends

\* The handlers of a request are registered (or being called) exactly while the
\* request is pending: nobody is told twice how it ended, and nobody never.
THEOREM HandlersOwed == Spec => []PendingIsOwed
<1>1. Init => OwedInv
  BY SessionAssumption DEF Init, OwedInv, PendingIsOwed, HandlerOwed, SessionAssumption
<1>2. TypeOK /\ OwedInv /\ [Next]_vars => OwedInv'
  BY OwedStep
<1>3. OwedInv => PendingIsOwed
  BY DEF OwedInv
<1> QED BY <1>1, <1>2, <1>3, TypeCorrect, PTL DEF Spec

-----------------------------------------------------------------------------
(* The promise to the caller. *)

\* Inductive: whatever is queued, sent, answered or handled was registered.
Used(r) == outcome[r] # "unused"
UsedInv ==
    /\ \A r \in toSend \cup delayed : Used(r)
    /\ \A m \in MsgIds : carried[m] # NoRequest => Used(carried[m])
    /\ \A r \in Requests : responses[r] # "none" => Used(r)
    /\ mainAt # "idle" => Used(mainReq)
    /\ connAt = "sending" => Used(connReq)
    /\ connAt = "answer" => carried[connMsg] # NoRequest

\* Only sendRequest brings a request in, and it registers it.
LEMMA UsedStep ==
  TypeOK /\ IdsInv /\ UsedInv /\ [Next]_vars => UsedInv'
<1> SUFFICES ASSUME TypeOK, IdsInv, UsedInv, [Next]_vars PROVE UsedInv'
  OBVIOUS
<1> USE SessionAssumption DEF SessionAssumption
<1>1. ASSUME UNCHANGED <<outcome, toSend, delayed, carried, responses, mainAt, mainReq,
                          connAt, connReq, connMsg>>
      PROVE  UsedInv'
  BY <1>1 DEF UsedInv, Used
<1>2. ASSUME NEW r \in Requests, SendRequest(r) PROVE UsedInv'
  BY <1>2 DEF TypeOK, InstanceTypeOK, DataTypeOK, MainTypeOK, ConnTypeOK, PcTypeOK,
      IdsInv, MsgIdsMatch, UsedInv, Used, SendRequest, MainIdle, SendPrepared, mainVars,
      connPc, netVars
<1>3. ASSUME NEW r \in Requests, Cancel(r) PROVE UsedInv'
  BY <1>3 DEF TypeOK, InstanceTypeOK, DataTypeOK, MainTypeOK, ConnTypeOK, PcTypeOK,
      IdsInv, MsgIdsMatch, UsedInv, Used, Cancel, MainIdle, mainVars, connPc, netVars
<1>4. ASSUME CheckRequestsByTimer PROVE UsedInv'
  BY <1>1, <1>4 DEF CheckRequestsByTimer, instVars, mainVars, connPc
<1>5. ASSUME Ping PROVE UsedInv'
  BY <1>1, <1>5 DEF Ping, instVars, queueVars, mainVars, connPc
<1>6. ASSUME Stop PROVE UsedInv'
  BY <1>1, <1>6 DEF Stop, instVars, queueVars, mainVars, connPc
<1>7. ASSUME Restart PROVE UsedInv'
  BY <1>1, <1>7 DEF Restart, instVars, mainVars, connPc
<1>8. ASSUME RpcResultUnreadable PROVE UsedInv'
  BY <1>8 DEF TypeOK, InstanceTypeOK, DataTypeOK, MainTypeOK, ConnTypeOK, PcTypeOK,
      IdsInv, MsgIdsMatch, UsedInv, Used, RpcResultUnreadable, Mishap, ConnReturns,
      instVars, queueVars, mainVars
<1>9. ASSUME NEW r \in Requests, ExecCallback(r) PROVE UsedInv'
  BY <1>9 DEF TypeOK, InstanceTypeOK, DataTypeOK, MainTypeOK, ConnTypeOK, PcTypeOK,
      IdsInv, MsgIdsMatch, UsedInv, Used, ExecCallback, MainIdle, mainVars, queueVars,
      connPc, netVars
<1>10. ASSUME NEW r \in Requests, CheckDelayed(r) PROVE UsedInv'
  BY <1>10 DEF TypeOK, InstanceTypeOK, DataTypeOK, MainTypeOK, ConnTypeOK, PcTypeOK,
      IdsInv, MsgIdsMatch, UsedInv, Used, CheckDelayed, MainIdle, SendPrepared,
      mainVars, connPc, netVars
<1>11. ASSUME NEW r \in Requests, NEW code \in {"silent", "error"}, ClearCallbacks(r, code)
       PROVE  UsedInv'
  BY <1>11 DEF TypeOK, InstanceTypeOK, DataTypeOK, MainTypeOK, ConnTypeOK, PcTypeOK,
      IdsInv, MsgIdsMatch, UsedInv, Used, ClearCallbacks, MainIdle, OutcomeIfFound,
      queueVars, mainVars, connPc, netVars
<1>12. ASSUME NEW m \in MsgIds, NEW force \in BOOLEAN, Resend(m, force) PROVE UsedInv'
  BY <1>12 DEF TypeOK, InstanceTypeOK, DataTypeOK, MainTypeOK, ConnTypeOK, PcTypeOK,
      IdsInv, MsgIdsMatch, UsedInv, Used, Resend, MainIdle, TakeFromHaveSent, mainVars,
      instVars, queueVars, connPc, netVars
<1>13. ASSUME ResendPrepared PROVE UsedInv'
  BY <1>13 DEF TypeOK, InstanceTypeOK, DataTypeOK, MainTypeOK, ConnTypeOK, PcTypeOK,
      IdsInv, MsgIdsMatch, UsedInv, Used, ResendPrepared, SendPrepared, instVars,
      connPc, netVars
<1>14. ASSUME ResendRecorded PROVE UsedInv'
  BY <1>14 DEF TypeOK, InstanceTypeOK, DataTypeOK, MainTypeOK, ConnTypeOK, PcTypeOK,
      IdsInv, MsgIdsMatch, UsedInv, Used, ResendRecorded, MainReturns, instVars,
      queueVars, connPc, netVars
<1>15. ASSUME ResendAll PROVE UsedInv'
  BY <1>1, <1>15 DEF ResendAll, instVars, queueVars, mainVars, connPc, netVars
<1>16. ASSUME HandlerCompletes PROVE UsedInv'
  BY <1>16 DEF TypeOK, InstanceTypeOK, DataTypeOK, MainTypeOK, ConnTypeOK, PcTypeOK,
      IdsInv, MsgIdsMatch, UsedInv, Used, HandlerCompletes, MainReturns, queueVars,
      connPc, netVars
<1>17. ASSUME HandlerDelays PROVE UsedInv'
  BY <1>17 DEF TypeOK, InstanceTypeOK, DataTypeOK, MainTypeOK, ConnTypeOK, PcTypeOK,
      IdsInv, MsgIdsMatch, UsedInv, Used, HandlerDelays, PutHandlerBack, MainReturns,
      queueVars, connPc, netVars
<1>18. ASSUME HandlerRetries PROVE UsedInv'
  BY <1>18 DEF TypeOK, InstanceTypeOK, DataTypeOK, MainTypeOK, ConnTypeOK, PcTypeOK,
      IdsInv, MsgIdsMatch, UsedInv, Used, HandlerRetries, SendPrepared, instVars,
      connPc, netVars
<1>19. ASSUME HandlerReinserted PROVE UsedInv'
  BY <1>19 DEF TypeOK, InstanceTypeOK, DataTypeOK, MainTypeOK, ConnTypeOK, PcTypeOK,
      IdsInv, MsgIdsMatch, UsedInv, Used, HandlerReinserted, PutHandlerBack,
      MainReturns, queueVars, connPc, netVars
<1>20. ASSUME NeedToResumeAndSend PROVE UsedInv'
  BY <1>1, <1>20 DEF NeedToResumeAndSend, instVars, queueVars, mainVars, connPc, netVars
<1>21. ASSUME TryToSendNothing PROVE UsedInv'
  BY <1>1, <1>21 DEF TryToSendNothing, instVars, queueVars, mainVars, connPc, netVars
<1>22. ASSUME TryToSendSingle PROVE UsedInv'
  BY <1>22 DEF TypeOK, InstanceTypeOK, DataTypeOK, MainTypeOK, ConnTypeOK, PcTypeOK,
      IdsInv, MsgIdsMatch, UsedInv, Used, TryToSendSingle, ConnIdle, instVars, mainVars,
      netVars
<1>23. ASSUME SingleSent PROVE UsedInv'
  BY <1>23 DEF TypeOK, InstanceTypeOK, DataTypeOK, MainTypeOK, ConnTypeOK, PcTypeOK,
      IdsInv, MsgIdsMatch, UsedInv, Used, SingleSent, ConnReturns, instVars, queueVars,
      mainVars
<1>24. ASSUME TryToSendContainer PROVE UsedInv'
  BY <1>24 DEF TypeOK, InstanceTypeOK, DataTypeOK, MainTypeOK, ConnTypeOK, PcTypeOK,
      IdsInv, MsgIdsMatch, UsedInv, Used, TryToSendContainer, ConnIdle, ContainerIds,
      Contained, RequestAt, instVars, mainVars, connPc
<1>25. ASSUME OnPingSendForce PROVE UsedInv'
  BY <1>1, <1>25 DEF OnPingSendForce, instVars, queueVars, mainVars, connPc, netVars
<1>26. ASSUME RpcResultStored PROVE UsedInv'
  BY <1>26 DEF TypeOK, InstanceTypeOK, DataTypeOK, MainTypeOK, ConnTypeOK, PcTypeOK,
      IdsInv, MsgIdsMatch, UsedInv, Used, RpcResultStored, WasSent, ConnReturns,
      instVars, queueVars, mainVars, netVars
<1>27. ASSUME NEW m \in MsgIds, AckMore(m) PROVE UsedInv'
  <2>1. toSend' \subseteq toSend
    BY <1>27 DEF AckMore, RequestsAcked
  <2> QED BY <2>1, <1>27 DEF UsedInv, Used, AckMore, Receiving, ConnIdle, instVars, mainVars, netVars
<1>28. ASSUME AuthKeyCreated PROVE UsedInv'
  BY <1>1, <1>28 DEF AuthKeyCreated, instVars, queueVars, mainVars, connPc, netVars
<1>29. ASSUME SaltReceived PROVE UsedInv'
  BY <1>1, <1>29 DEF SaltReceived, instVars, queueVars, mainVars, connPc, netVars
<1>30. ASSUME DhGenOk PROVE UsedInv'
  BY <1>1, <1>30 DEF DhGenOk, instVars, queueVars, mainVars, connPc
<1>31. ASSUME NEW m \in MsgIds, NEW kind \in Answers, RpcResult(m, kind) PROVE UsedInv'
  <2>1. toSend' \subseteq toSend
    BY <1>31 DEF RpcResult, RequestsAcked
  <2> QED BY <2>1, <1>31 DEF UsedInv, Used, RpcResult, Receiving, ConnIdle, instVars, mainVars, netVars
<1>32. ASSUME NEW m \in MsgIds, MsgsAck(m) PROVE UsedInv'
  <2>1. toSend' \subseteq toSend
    BY <1>32 DEF MsgsAck, RequestsAcked
  <2> QED BY <2>1, <1>32 DEF UsedInv, Used, MsgsAck, Receiving, ConnIdle, instVars, mainVars, netVars
<1>33. ASSUME NEW m \in MsgIds, MsgsStateInfo(m) PROVE UsedInv'
  BY <1>33 DEF TypeOK, InstanceTypeOK, DataTypeOK, MainTypeOK, ConnTypeOK, PcTypeOK,
      IdsInv, MsgIdsMatch, UsedInv, Used, MsgsStateInfo, Receiving, ConnIdle, instVars,
      queueVars, mainVars
<1>34. ASSUME NEW m \in MsgIds, BadMsgFatal(m) PROVE UsedInv'
  BY <1>1, <1>34 DEF BadMsgFatal, instVars, queueVars, mainVars, connPc
<1>35. ASSUME NEW m \in MsgIds, ServerRepeats(m) PROVE UsedInv'
  BY <1>1, <1>35 DEF ServerRepeats, instVars, queueVars, mainVars, connPc
<1>36. ASSUME NEW m \in MsgIds, NEW force \in BOOLEAN, ServerWantsResend(m, force)
       PROVE  UsedInv'
  BY <1>1, <1>36 DEF ServerWantsResend, instVars, queueVars, mainVars, connPc
<1>37. ASSUME NewSessionCreated PROVE UsedInv'
  BY <1>1, <1>37 DEF NewSessionCreated, instVars, queueVars, mainVars, connPc
<1>38. CASE UNCHANGED vars
  BY <1>1, <1>38 DEF vars, instVars, objVars, queueVars, sentVars, mainVars, callVars,
    wakeVars, connVars, connPc, netVars
<1> QED BY <1>1, <1>2, <1>3, <1>4, <1>5, <1>6, <1>7, <1>8, <1>9, <1>10, <1>11, <1>12,
    <1>13, <1>14, <1>15, <1>16, <1>17, <1>18, <1>19, <1>20, <1>21, <1>22, <1>23, <1>24,
    <1>25, <1>26, <1>27, <1>28, <1>29, <1>30, <1>31, <1>32, <1>33, <1>34, <1>35, <1>36,
    <1>37, <1>38 DEF Next, MainStep, ConnStep, Connects, ServerSends

\* Each step of the session is a step of RpcDelivery, or leaves it as it is.
LEMMA DeliveryStep ==
  TypeOK /\ IdsInv /\ OwedInv /\ UsedInv /\ [Next]_vars => [Delivery!Next]_(Delivery!vars)
<1> SUFFICES ASSUME TypeOK, IdsInv, OwedInv, UsedInv, [Next]_vars
             PROVE  [Delivery!Next]_(Delivery!vars)
  OBVIOUS
<1> USE SessionAssumption DEF SessionAssumption
<1>1. ASSUME UNCHANGED <<outcome, connAt, connMsg, connKind, carried, responses, mainAt,
                          mainReq, mainKind>>
      PROVE  [Delivery!Next]_(Delivery!vars)
  BY <1>1 DEF Arrived, Stored, Handling, Delivery!vars
<1>2. ASSUME NEW r \in Requests, SendRequest(r) PROVE [Delivery!Next]_(Delivery!vars)
  <2>1. Delivery!Register(r)
    BY <1>2 DEF SendRequest, MainIdle, Delivery!Register, Arrived, Stored, Handling, mainVars,
       connPc, netVars
  <2> QED BY <2>1 DEF Delivery!Next
<1>3. ASSUME NEW r \in Requests, Cancel(r) PROVE [Delivery!Next]_(Delivery!vars)
  <2>1. Delivery!GiveUp(r, "cancelled")
    BY <1>3 DEF Cancel, MainIdle, Delivery!GiveUp, Arrived, Stored, Handling, mainVars,
       connPc, netVars
  <2> QED BY <2>1 DEF Delivery!Next
<1>4. ASSUME CheckRequestsByTimer PROVE [Delivery!Next]_(Delivery!vars)
  BY <1>1, <1>4 DEF CheckRequestsByTimer, instVars, mainVars, connPc
<1>5. ASSUME Ping PROVE [Delivery!Next]_(Delivery!vars)
  BY <1>1, <1>5 DEF Ping, instVars, mainVars, connPc
<1>6. ASSUME Stop PROVE [Delivery!Next]_(Delivery!vars)
  BY <1>1, <1>6 DEF Stop, instVars, mainVars, connPc
<1>7. ASSUME Restart PROVE [Delivery!Next]_(Delivery!vars)
  BY <1>1, <1>7 DEF Restart, instVars, mainVars, connPc
<1>8. ASSUME RpcResultUnreadable PROVE [Delivery!Next]_(Delivery!vars)
  <2>1. /\ Arrived # {} /\ Arrived' = {}
        /\ UNCHANGED <<outcome, Stored, Handling>>
    BY <1>8 DEF RpcResultUnreadable, ConnReturns, Arrived, Stored, Handling, instVars, mainVars
  <2>2. Delivery!Lose
    BY <2>1 DEF Delivery!Lose
  <2> QED BY <2>2 DEF Delivery!Next
<1>9. ASSUME NEW r \in Requests, ExecCallback(r) PROVE [Delivery!Next]_(Delivery!vars)
  <2>1. /\ responses[r] \in Answers /\ <<r, responses[r]>> \in Stored
        /\ Stored' = Stored \ {<<r, responses[r]>>}
    <3>1. responses \in [Requests -> Kinds] /\ responses[r] # "none"
      BY <1>9 DEF ExecCallback, TypeOK, DataTypeOK
    <3>2. responses' = [responses EXCEPT ![r] = "none"]
      BY <1>9 DEF ExecCallback
    <3> QED BY <3>1, <3>2 DEF Stored, Kinds
  <2>2. UNCHANGED Arrived /\ Handling = {}
    BY <1>9 DEF ExecCallback, MainIdle, Arrived, Handling, connPc, netVars
  <2>3. CASE r \in parserMap
    <3>1. Handling' = {<<r, responses[r]>>} /\ outcome' = outcome
      BY <1>9, <2>3 DEF ExecCallback, Handling
    <3>2. r \in WithHandler /\ outcome[r] = "pending"
      BY <2>3 DEF OwedInv, PendingIsOwed, HandlerOwed
    <3>3. Delivery!Handle(r, responses[r])
      BY <2>1, <2>2, <3>1, <3>2 DEF Delivery!Handle
    <3> QED BY <2>1, <3>3 DEF Delivery!Next
  <2>4. CASE r \notin parserMap
    <3>1. UNCHANGED Handling
          /\ outcome' = IF outcome[r] = "pending" THEN [outcome EXCEPT ![r] = "done"]
                                                  ELSE outcome
      BY <1>9, <2>4 DEF ExecCallback, Handling, mainVars
    <3>2. r \in WithHandler => outcome[r] # "pending"
      BY <1>9, <2>4 DEF OwedInv, PendingIsOwed, HandlerOwed, ExecCallback, MainIdle
    <3>3. Delivery!Discard(r, responses[r])
      BY <2>1, <2>2, <3>1, <3>2 DEF Delivery!Discard
    <3> QED BY <2>1, <3>3 DEF Delivery!Next
  <2> QED BY <2>3, <2>4
<1>10. ASSUME NEW r \in Requests, CheckDelayed(r) PROVE [Delivery!Next]_(Delivery!vars)
  BY <1>1, <1>10 DEF CheckDelayed, mainVars, connPc, netVars
<1>11. ASSUME NEW r \in Requests, NEW code \in {"silent", "error"}, ClearCallbacks(r, code)
       PROVE  [Delivery!Next]_(Delivery!vars)
  <2>1. Handling = {} /\ UNCHANGED <<Arrived, Stored, Handling>>
    BY <1>11 DEF ClearCallbacks, MainIdle, Arrived, Stored, Handling, mainVars, connPc, netVars
  <2>2. CASE r \in parserMap
    <3>1. outcome[r] = "pending"
      BY <2>2 DEF OwedInv, PendingIsOwed, HandlerOwed
    <3>2. outcome' = [outcome EXCEPT ![r] = IF code = "error" THEN "failed" ELSE "dropped"]
      BY <1>11, <2>2 DEF ClearCallbacks, OutcomeIfFound
    <3>3. Delivery!GiveUp(r, IF code = "error" THEN "failed" ELSE "dropped")
      BY <2>1, <3>1, <3>2 DEF Delivery!GiveUp
    <3> QED BY <3>3 DEF Delivery!Next
  <2>3. CASE r \notin parserMap
    BY <1>11, <2>1, <2>3 DEF ClearCallbacks, OutcomeIfFound, Delivery!vars
  <2> QED BY <2>2, <2>3
<1>12. ASSUME NEW m \in MsgIds, NEW force \in BOOLEAN, Resend(m, force)
       PROVE  [Delivery!Next]_(Delivery!vars)
  <2>1. UNCHANGED <<outcome, Arrived, Stored, Handling>>
    BY <1>12 DEF Resend, Arrived, Stored, Handling, MainIdle, mainVars, instVars, connPc, netVars
  <2> QED BY <2>1 DEF Delivery!vars
<1>13. ASSUME ResendPrepared PROVE [Delivery!Next]_(Delivery!vars)
  <2>1. UNCHANGED <<outcome, Arrived, Stored, Handling>>
    BY <1>13 DEF ResendPrepared, Arrived, Stored, Handling, instVars, connPc, netVars
  <2> QED BY <2>1 DEF Delivery!vars
<1>14. ASSUME ResendRecorded PROVE [Delivery!Next]_(Delivery!vars)
  <2>1. UNCHANGED <<outcome, Arrived, Stored, Handling>>
    BY <1>14 DEF ResendRecorded, Arrived, Stored, Handling, MainReturns, instVars, connPc, netVars
  <2> QED BY <2>1 DEF Delivery!vars
<1>15. ASSUME ResendAll PROVE [Delivery!Next]_(Delivery!vars)
  BY <1>1, <1>15 DEF ResendAll, instVars, mainVars, connPc, netVars
<1>16. ASSUME HandlerCompletes PROVE [Delivery!Next]_(Delivery!vars)
  <2>1. mainReq \in Requests /\ mainKind \in Answers /\ mainKind \notin RetryErrors
    BY <1>16 DEF HandlerCompletes, TypeOK, PcTypeOK, Answers, RetryErrors
  <2>2. /\ Handling = {<<mainReq, mainKind>>} /\ Handling' = {}
        /\ UNCHANGED <<Arrived, Stored>>
    BY <1>16 DEF HandlerCompletes, MainReturns, Arrived, Stored, Handling, connPc, netVars
  <2>3. Delivery!Handled(mainReq, mainKind)
    BY <1>16, <2>1, <2>2 DEF HandlerCompletes, Delivery!Handled
  <2> QED BY <2>1, <2>3 DEF Delivery!Next
<1>17. ASSUME HandlerDelays PROVE [Delivery!Next]_(Delivery!vars)
  <2>1. mainReq \in Requests /\ mainKind \in Answers /\ mainKind \in RetryErrors
    BY <1>17 DEF HandlerDelays, TypeOK, PcTypeOK, Answers, RetryErrors
  <2>2. /\ Handling = {<<mainReq, mainKind>>} /\ Handling' = {}
        /\ UNCHANGED <<outcome, Arrived, Stored>>
    BY <1>17 DEF HandlerDelays, MainReturns, Arrived, Stored, Handling, connPc, netVars
  <2>3. Delivery!Handled(mainReq, mainKind)
    BY <2>1, <2>2 DEF Delivery!Handled
  <2> QED BY <2>1, <2>3 DEF Delivery!Next
<1>18. ASSUME HandlerRetries PROVE [Delivery!Next]_(Delivery!vars)
  <2>1. mainReq \in Requests /\ mainKind \in Answers /\ mainKind \in RetryErrors
    BY <1>18 DEF HandlerRetries, TypeOK, PcTypeOK, Answers, RetryErrors
  <2>2. /\ Handling = {<<mainReq, mainKind>>} /\ Handling' = {}
        /\ UNCHANGED <<outcome, Arrived, Stored>>
    BY <1>18 DEF HandlerRetries, instVars, Arrived, Stored, Handling, connPc, netVars
  <2>3. Delivery!Handled(mainReq, mainKind)
    BY <2>1, <2>2 DEF Delivery!Handled
  <2> QED BY <2>1, <2>3 DEF Delivery!Next
<1>19. ASSUME HandlerReinserted PROVE [Delivery!Next]_(Delivery!vars)
  <2>1. UNCHANGED <<outcome, Arrived, Stored, Handling>>
    BY <1>19 DEF HandlerReinserted, Arrived, Stored, Handling, MainReturns, connPc, netVars
  <2> QED BY <2>1 DEF Delivery!vars
<1>20. ASSUME NeedToResumeAndSend PROVE [Delivery!Next]_(Delivery!vars)
  BY <1>1, <1>20 DEF NeedToResumeAndSend, instVars, mainVars, connPc, netVars
<1>21. ASSUME TryToSendNothing PROVE [Delivery!Next]_(Delivery!vars)
  BY <1>1, <1>21 DEF TryToSendNothing, instVars, mainVars, connPc, netVars
<1>22. ASSUME TryToSendSingle PROVE [Delivery!Next]_(Delivery!vars)
  <2>1. UNCHANGED <<outcome, Arrived, Stored, Handling>>
    BY <1>22 DEF TryToSendSingle, Arrived, Stored, Handling, ConnIdle, instVars, mainVars, netVars
  <2> QED BY <2>1 DEF Delivery!vars
<1>23. ASSUME SingleSent PROVE [Delivery!Next]_(Delivery!vars)
  <2>1. UNCHANGED <<outcome, Arrived, Stored, Handling>>
    BY <1>23 DEF SingleSent, Arrived, Stored, Handling, ConnReturns, instVars, mainVars
  <2> QED BY <2>1 DEF Delivery!vars
<1>24. ASSUME TryToSendContainer PROVE [Delivery!Next]_(Delivery!vars)
  <2>1. UNCHANGED <<outcome, Arrived, Stored, Handling>>
    BY <1>24 DEF TryToSendContainer, Arrived, Stored, Handling, ConnIdle, instVars, mainVars, connPc
  <2> QED BY <2>1 DEF Delivery!vars
<1>25. ASSUME OnPingSendForce PROVE [Delivery!Next]_(Delivery!vars)
  BY <1>1, <1>25 DEF OnPingSendForce, instVars, mainVars, connPc, netVars
<1>26. ASSUME RpcResultStored PROVE [Delivery!Next]_(Delivery!vars)
  <2> DEFINE r == carried[connMsg]
  <2>1. /\ Arrived = {<<r, connKind>>} /\ Arrived' = {}
        /\ UNCHANGED <<outcome, Handling>>
    BY <1>26 DEF RpcResultStored, ConnReturns, Arrived, Handling, instVars, mainVars
  <2>2. connMsg \in MsgIds /\ connKind # "none" /\ r \in Requests
    BY <1>26 DEF RpcResultStored, TypeOK, ConnTypeOK, PcTypeOK, UsedInv, Answers, RetryErrors
  <2>3. WasSent(connMsg) = r \/ WasSent(connMsg) \notin Requests
    BY <2>2 DEF WasSent, IdsInv, MsgIdsMatch, TypeOK, DataTypeOK
  <2>4. responses' = [q \in Requests |-> IF q = WasSent(connMsg) THEN connKind ELSE responses[q]]
    BY <1>26 DEF RpcResultStored
  <2>5. CASE WasSent(connMsg) = r
    <3>1. Stored' = {<<r, connKind>>} \cup {s \in Stored : s[1] # r}
      BY <2>2, <2>4, <2>5 DEF Stored
    <3>2. Stored' = Arrived \cup {s \in Stored : \A a \in Arrived : s[1] # a[1]}
      BY <2>1, <3>1
    <3>3. Delivery!Store
      BY <2>1, <3>2 DEF Delivery!Store
    <3> QED BY <3>3 DEF Delivery!Next
  <2>6. CASE WasSent(connMsg) \notin Requests
    <3>1. Stored' = Stored
      BY <2>4, <2>6 DEF Stored
    <3>2. Delivery!Lose
      BY <2>1, <3>1 DEF Delivery!Lose
    <3> QED BY <3>2 DEF Delivery!Next
  <2> QED BY <2>3, <2>5, <2>6
<1>27. ASSUME NEW m \in MsgIds, AckMore(m) PROVE [Delivery!Next]_(Delivery!vars)
  <2>1. UNCHANGED <<outcome, Arrived, Stored, Handling>>
    BY <1>27 DEF AckMore, Arrived, Stored, Handling, instVars, mainVars, netVars
  <2> QED BY <2>1 DEF Delivery!vars
<1>28. ASSUME AuthKeyCreated PROVE [Delivery!Next]_(Delivery!vars)
  BY <1>1, <1>28 DEF AuthKeyCreated, instVars, mainVars, connPc, netVars
<1>29. ASSUME SaltReceived PROVE [Delivery!Next]_(Delivery!vars)
  BY <1>1, <1>29 DEF SaltReceived, instVars, mainVars, connPc, netVars
<1>30. ASSUME DhGenOk PROVE [Delivery!Next]_(Delivery!vars)
  BY <1>1, <1>30 DEF DhGenOk, instVars, mainVars, connPc
<1>31. ASSUME NEW m \in MsgIds, NEW kind \in Answers, RpcResult(m, kind)
       PROVE  [Delivery!Next]_(Delivery!vars)
  <2>1. carried[m] \in Requests /\ outcome[carried[m]] # "unused"
    BY <1>31 DEF RpcResult, TypeOK, ConnTypeOK, UsedInv, Used
  <2>2. /\ Arrived = {} /\ Arrived' = {<<carried[m], kind>>}
        /\ UNCHANGED <<outcome, Stored, Handling>>
    BY <1>31 DEF RpcResult, Receiving, ConnIdle, Arrived, Stored, Handling, instVars, mainVars
  <2>3. Delivery!Answer(carried[m], kind)
    BY <2>1, <2>2 DEF Delivery!Answer
  <2> QED BY <2>1, <2>3 DEF Delivery!Next
<1>32. ASSUME NEW m \in MsgIds, MsgsAck(m) PROVE [Delivery!Next]_(Delivery!vars)
  <2>1. UNCHANGED <<outcome, Arrived, Stored, Handling>>
    BY <1>32 DEF MsgsAck, Arrived, Stored, Handling, Receiving, ConnIdle, instVars, mainVars
  <2> QED BY <2>1 DEF Delivery!vars
<1>33. ASSUME NEW m \in MsgIds, MsgsStateInfo(m) PROVE [Delivery!Next]_(Delivery!vars)
  <2>1. UNCHANGED <<outcome, Arrived, Stored, Handling>>
    BY <1>33 DEF MsgsStateInfo, Arrived, Stored, Handling, Receiving, ConnIdle, instVars, mainVars
  <2> QED BY <2>1 DEF Delivery!vars
<1>34. ASSUME NEW m \in MsgIds, BadMsgFatal(m) PROVE [Delivery!Next]_(Delivery!vars)
  BY <1>1, <1>34 DEF BadMsgFatal, instVars, mainVars, connPc
<1>35. ASSUME NEW m \in MsgIds, ServerRepeats(m) PROVE [Delivery!Next]_(Delivery!vars)
  BY <1>1, <1>35 DEF ServerRepeats, instVars, mainVars, connPc
<1>36. ASSUME NEW m \in MsgIds, NEW force \in BOOLEAN, ServerWantsResend(m, force)
       PROVE  [Delivery!Next]_(Delivery!vars)
  BY <1>1, <1>36 DEF ServerWantsResend, instVars, mainVars, connPc
<1>37. ASSUME NewSessionCreated PROVE [Delivery!Next]_(Delivery!vars)
  BY <1>1, <1>37 DEF NewSessionCreated, instVars, mainVars, connPc
<1>38. CASE UNCHANGED vars
  BY <1>1, <1>38 DEF vars, instVars, objVars, queueVars, sentVars, mainVars, callVars,
    wakeVars, connVars, connPc, netVars
<1> QED BY <1>1, <1>2, <1>3, <1>4, <1>5, <1>6, <1>7, <1>8, <1>9, <1>10, <1>11, <1>12,
    <1>13, <1>14, <1>15, <1>16, <1>17, <1>18, <1>19, <1>20, <1>21, <1>22, <1>23, <1>24,
    <1>25, <1>26, <1>27, <1>28, <1>29, <1>30, <1>31, <1>32, <1>33, <1>34, <1>35, <1>36,
    <1>37, <1>38 DEF Next, MainStep, ConnStep, Connects, ServerSends

\* The session keeps the promise RpcDelivery makes to the caller of MTP::send:
\* handlers are called only while their request is pending, with an answer the
\* server gave to that request, and given up only between two calls.
THEOREM DeliveryImplemented == Spec => DeliverySpec
<1>1. Init => IdsInv /\ OwedInv /\ UsedInv
  BY SessionAssumption DEF Init, IdsInv, MsgIdsMatch, OwedInv, PendingIsOwed, HandlerOwed,
     UsedInv, Used, SessionAssumption
<1>2. Init => Delivery!Init
  BY DEF Init, Delivery!Init, Arrived, Stored, Handling
<1>3. TypeOK /\ IdsInv /\ OwedInv /\ UsedInv /\ [Next]_vars
        => IdsInv' /\ OwedInv' /\ UsedInv' /\ [Delivery!Next]_(Delivery!vars)
  BY IdsStep, OwedStep, UsedStep, DeliveryStep
<1> QED BY <1>1, <1>2, <1>3, TypeCorrect, PTL DEF Spec, DeliverySpec, Delivery!Spec

-----------------------------------------------------------------------------
(* Wake-ups. *)

\* Whoever puts something in toSend or stateRequest, or makes the connection
\* Connected, leaves a wake-up behind.
LEMMA WakeUpStep ==
  ASSUME "ping" \notin Mishaps
  PROVE  TypeOK /\ NoLostWakeUp /\ [Next]_vars => NoLostWakeUp'
<1> SUFFICES ASSUME TypeOK, NoLostWakeUp, [Next]_vars PROVE NoLostWakeUp'
  OBVIOUS
<1>1. ASSUME UNCHANGED <<connState, toSend, stateRequest, sender, resumeCall, needToSend>>
      PROVE  NoLostWakeUp'
  BY <1>1 DEF NoLostWakeUp
<1>2. ASSUME NEW r \in Requests, SendRequest(r) PROVE NoLostWakeUp'
  BY <1>2 DEF NoLostWakeUp, SendRequest, SendPrepared, connVars
<1>3. ASSUME NEW r \in Requests, Cancel(r) PROVE NoLostWakeUp'
  BY <1>3 DEF NoLostWakeUp, Cancel, wakeVars, connVars
<1>4. ASSUME CheckRequestsByTimer PROVE NoLostWakeUp'
  BY <1>4 DEF NoLostWakeUp, CheckRequestsByTimer, Mishap, connVars
<1>5. ASSUME Ping PROVE NoLostWakeUp'
  BY <1>5 DEF NoLostWakeUp, Ping, Mishap, queueVars
<1>6. ASSUME Stop PROVE NoLostWakeUp'
  BY <1>6 DEF NoLostWakeUp, Stop, Mishap, queueVars
<1>7. ASSUME Restart PROVE NoLostWakeUp'
  BY <1>7 DEF NoLostWakeUp, Restart, Mishap, ResetSession, RecreateKey, wakeVars
<1>8. ASSUME RpcResultUnreadable PROVE NoLostWakeUp'
  BY <1>8 DEF NoLostWakeUp, RpcResultUnreadable, Mishap, ConnReturns, queueVars,
      wakeVars
<1>9. ASSUME NEW r \in Requests, ExecCallback(r) PROVE NoLostWakeUp'
  BY <1>1, <1>9 DEF ExecCallback, queueVars, wakeVars, connVars
<1>10. ASSUME NEW r \in Requests, CheckDelayed(r) PROVE NoLostWakeUp'
  BY <1>10 DEF NoLostWakeUp, CheckDelayed, SendPrepared, connVars
<1>11. ASSUME NEW r \in Requests, NEW code \in {"silent", "error"}, ClearCallbacks(r, code)
       PROVE  NoLostWakeUp'
  BY <1>1, <1>11 DEF ClearCallbacks, queueVars, wakeVars, connVars
<1>12. ASSUME NEW m \in MsgIds, NEW force \in BOOLEAN, Resend(m, force)
       PROVE  NoLostWakeUp'
  BY <1>1, <1>12 DEF Resend, queueVars, wakeVars, connVars
<1>13. ASSUME ResendPrepared PROVE NoLostWakeUp'
  BY <1>13 DEF NoLostWakeUp, ResendPrepared, SendPrepared, connVars
<1>14. ASSUME ResendRecorded PROVE NoLostWakeUp'
  BY <1>1, <1>14 DEF ResendRecorded, queueVars, wakeVars, connVars
<1>15. ASSUME ResendAll PROVE NoLostWakeUp'
  BY <1>1, <1>15 DEF ResendAll, queueVars, wakeVars, connVars
<1>16. ASSUME HandlerCompletes PROVE NoLostWakeUp'
  BY <1>1, <1>16 DEF HandlerCompletes, queueVars, wakeVars, connVars
<1>17. ASSUME HandlerDelays PROVE NoLostWakeUp'
  BY <1>1, <1>17 DEF HandlerDelays, queueVars, wakeVars, connVars
<1>18. ASSUME HandlerRetries PROVE NoLostWakeUp'
  BY <1>18 DEF NoLostWakeUp, HandlerRetries, SendPrepared, connVars
<1>19. ASSUME HandlerReinserted PROVE NoLostWakeUp'
  BY <1>1, <1>19 DEF HandlerReinserted, queueVars, wakeVars, connVars
<1>20. ASSUME NeedToResumeAndSend PROVE NoLostWakeUp'
  BY <1>20 DEF NoLostWakeUp, NeedToResumeAndSend, queueVars
<1>21. ASSUME TryToSendNothing PROVE NoLostWakeUp'
  BY <1>21 DEF NoLostWakeUp, TryToSendNothing, queueVars, connVars
<1>22. ASSUME TryToSendSingle PROVE NoLostWakeUp'
  BY <1>22 DEF NoLostWakeUp, TryToSendSingle, connVars
<1>23. ASSUME SingleSent PROVE NoLostWakeUp'
  BY <1>1, <1>23 DEF SingleSent, queueVars, wakeVars, connVars
<1>24. ASSUME TryToSendContainer PROVE NoLostWakeUp'
  BY <1>24 DEF NoLostWakeUp, TryToSendContainer, ContainerIds, Contained, RequestAt,
      connVars
<1>25. ASSUME OnPingSendForce PROVE NoLostWakeUp'
  <2>1. CASE needToSend' = needToSend
    BY <1>1, <1>25, <2>1 DEF OnPingSendForce, queueVars, connVars
  <2>2. CASE needToSend' = TRUE
    BY <2>2 DEF NoLostWakeUp
  <2> QED BY <1>25, <2>1, <2>2 DEF OnPingSendForce
<1>26. ASSUME RpcResultStored PROVE NoLostWakeUp'
  BY <1>1, <1>26 DEF RpcResultStored, queueVars, wakeVars, connVars
<1>27. ASSUME NEW m \in MsgIds, AckMore(m) PROVE NoLostWakeUp'
  BY <1>27 DEF NoLostWakeUp, AckMore, RequestsAcked, IsList, wakeVars, connVars
<1>28. ASSUME AuthKeyCreated PROVE NoLostWakeUp'
  BY <1>28 DEF NoLostWakeUp, AuthKeyCreated, BecomesConnected, EmitNeedToSendAsync,
      queueVars
<1>29. ASSUME SaltReceived PROVE NoLostWakeUp'
  BY <1>29 DEF NoLostWakeUp, SaltReceived, BecomesConnected, EmitNeedToSendAsync,
      queueVars
<1>30. ASSUME DhGenOk PROVE NoLostWakeUp'
  BY <1>1, <1>30 DEF DhGenOk, queueVars, wakeVars
<1>31. ASSUME NEW m \in MsgIds, NEW kind \in Answers, RpcResult(m, kind)
       PROVE  NoLostWakeUp'
  BY <1>31 DEF NoLostWakeUp, RpcResult, Receiving, RetryErrors, Mishap, RequestsAcked,
      IsList, wakeVars, connVars
<1>32. ASSUME NEW m \in MsgIds, MsgsAck(m) PROVE NoLostWakeUp'
  BY <1>32 DEF NoLostWakeUp, MsgsAck, Receiving, RequestsAcked, IsList, wakeVars,
      connVars
<1>33. ASSUME NEW m \in MsgIds, MsgsStateInfo(m) PROVE NoLostWakeUp'
  BY <1>1, <1>33 DEF MsgsStateInfo, queueVars, wakeVars, connVars
<1>34. ASSUME NEW m \in MsgIds, BadMsgFatal(m) PROVE NoLostWakeUp'
  BY <1>1, <1>34 DEF BadMsgFatal, queueVars, wakeVars, connVars
<1>35. ASSUME NEW m \in MsgIds, ServerRepeats(m) PROVE NoLostWakeUp'
  BY <1>1, <1>35 DEF ServerRepeats, queueVars, wakeVars, connVars
<1>36. ASSUME NEW m \in MsgIds, NEW force \in BOOLEAN, ServerWantsResend(m, force)
       PROVE  NoLostWakeUp'
  BY <1>1, <1>36 DEF ServerWantsResend, queueVars, wakeVars, connVars
<1>37. ASSUME NewSessionCreated PROVE NoLostWakeUp'
  BY <1>1, <1>37 DEF NewSessionCreated, queueVars, wakeVars, connVars
<1>38. CASE UNCHANGED vars
  BY <1>1, <1>38 DEF vars, instVars, objVars, queueVars, sentVars, mainVars, callVars,
    wakeVars, connVars, connPc, netVars
<1> QED BY <1>1, <1>2, <1>3, <1>4, <1>5, <1>6, <1>7, <1>8, <1>9, <1>10, <1>11, <1>12,
    <1>13, <1>14, <1>15, <1>16, <1>17, <1>18, <1>19, <1>20, <1>21, <1>22, <1>23, <1>24,
    <1>25, <1>26, <1>27, <1>28, <1>29, <1>30, <1>31, <1>32, <1>33, <1>34, <1>35, <1>36,
    <1>37, <1>38 DEF Next, MainStep, ConnStep, Connects, ServerSends

\* Without Session::ping, what waits in toSend on a live connection always has a
\* pending wake-up of the connection thread.
THEOREM WakeUpsKept ==
  ASSUME "ping" \notin Mishaps
  PROVE  Spec => []NoLostWakeUp
<1>1. Init => NoLostWakeUp
  BY DEF Init, NoLostWakeUp
<1>2. TypeOK /\ NoLostWakeUp /\ [Next]_vars => NoLostWakeUp'
  BY WakeUpStep
<1> QED BY <1>1, <1>2, TypeCorrect, PTL DEF Spec

-----------------------------------------------------------------------------
(* No request is lost. *)

\* Inductive: what holds of a session in which onErrorDefault never resends a
\* request from inside its own error handling.
NoRetryInv ==
    /\ parserMap \subseteq requestMap
    /\ mainAt = "handler" => mainReq \in requestMap
    /\ mainAt # "reinsert"
    /\ mainKind # "notInited" /\ connKind # "notInited"
    /\ \A r \in Requests : responses[r] # "notInited"
    /\ connAt = "answer" => haveSent[connMsg] = NoRequest

\* The answer "notInited" never enters, so it never reaches a handler.
LEMMA NoRetryStep ==
  ASSUME "notInited" \notin Mishaps
  PROVE  TypeOK /\ OwedInv /\ NoRetryInv /\ [Next]_vars => NoRetryInv'
<1> SUFFICES ASSUME TypeOK, OwedInv, NoRetryInv, [Next]_vars PROVE NoRetryInv'
  OBVIOUS
<1> USE SessionAssumption DEF SessionAssumption
<1>1. ASSUME UNCHANGED <<parserMap, requestMap, responses, mainAt, mainReq, mainKind,
                          connAt, connMsg, connKind, haveSent>>
      PROVE  NoRetryInv'
  BY <1>1 DEF NoRetryInv
<1>2. ASSUME NEW r \in Requests, SendRequest(r) PROVE NoRetryInv'
  BY <1>2 DEF TypeOK, InstanceTypeOK, DataTypeOK, MainTypeOK, ConnTypeOK, PcTypeOK,
      NoRetryInv, SendRequest, MainIdle, SendPrepared, sentVars, mainVars, connPc
<1>3. ASSUME NEW r \in Requests, Cancel(r) PROVE NoRetryInv'
  BY <1>3 DEF TypeOK, InstanceTypeOK, DataTypeOK, MainTypeOK, ConnTypeOK, PcTypeOK,
      NoRetryInv, Cancel, MainIdle, mainVars, connPc
<1>4. ASSUME CheckRequestsByTimer PROVE NoRetryInv'
  BY <1>4 DEF TypeOK, InstanceTypeOK, DataTypeOK, MainTypeOK, ConnTypeOK, PcTypeOK,
      NoRetryInv, CheckRequestsByTimer, MainIdle, Mishap, instVars, mainVars, connPc
<1>5. ASSUME Ping PROVE NoRetryInv'
  BY <1>1, <1>5 DEF Ping, instVars, sentVars, mainVars, connPc
<1>6. ASSUME Stop PROVE NoRetryInv'
  BY <1>1, <1>6 DEF Stop, instVars, sentVars, mainVars, connPc
<1>7. ASSUME Restart PROVE NoRetryInv'
  BY <1>1, <1>7 DEF Restart, instVars, sentVars, mainVars, connPc
<1>8. ASSUME RpcResultUnreadable PROVE NoRetryInv'
  BY <1>8 DEF TypeOK, InstanceTypeOK, DataTypeOK, MainTypeOK, ConnTypeOK, PcTypeOK,
      NoRetryInv, RpcResultUnreadable, Mishap, ConnReturns, instVars, sentVars, mainVars
<1>9. ASSUME NEW r \in Requests, ExecCallback(r) PROVE NoRetryInv'
  BY <1>9 DEF TypeOK, InstanceTypeOK, DataTypeOK, MainTypeOK, ConnTypeOK, PcTypeOK,
      NoRetryInv, ExecCallback, MainIdle, mainVars, sentVars, connPc
<1>10. ASSUME NEW r \in Requests, CheckDelayed(r) PROVE NoRetryInv'
  BY <1>10 DEF TypeOK, InstanceTypeOK, DataTypeOK, MainTypeOK, ConnTypeOK, PcTypeOK,
      NoRetryInv, CheckDelayed, MainIdle, SendPrepared, sentVars, mainVars, connPc
<1>11. ASSUME NEW r \in Requests, NEW code \in {"silent", "error"}, ClearCallbacks(r, code)
       PROVE  NoRetryInv'
  BY <1>11 DEF TypeOK, InstanceTypeOK, DataTypeOK, MainTypeOK, ConnTypeOK, PcTypeOK,
      NoRetryInv, ClearCallbacks, MainIdle, OutcomeIfFound, sentVars, mainVars, connPc
<1>12. ASSUME NEW m \in MsgIds, NEW force \in BOOLEAN, Resend(m, force) PROVE NoRetryInv'
  BY <1>12 DEF TypeOK, InstanceTypeOK, DataTypeOK, MainTypeOK, ConnTypeOK, PcTypeOK,
      NoRetryInv, Resend, MainIdle, TakeFromHaveSent, mainVars, instVars, connPc
<1>13. ASSUME ResendPrepared PROVE NoRetryInv'
  BY <1>13 DEF TypeOK, InstanceTypeOK, DataTypeOK, MainTypeOK, ConnTypeOK, PcTypeOK,
      NoRetryInv, ResendPrepared, SendPrepared, instVars, sentVars, connPc
<1>14. ASSUME ResendRecorded PROVE NoRetryInv'
  BY <1>14 DEF TypeOK, InstanceTypeOK, DataTypeOK, MainTypeOK, ConnTypeOK, PcTypeOK,
      NoRetryInv, ResendRecorded, MainReturns, instVars, sentVars, connPc
<1>15. ASSUME ResendAll PROVE NoRetryInv'
  BY <1>1, <1>15 DEF ResendAll, instVars, sentVars, mainVars, connPc
<1>16. ASSUME HandlerCompletes PROVE NoRetryInv'
  BY <1>16 DEF TypeOK, OwedInv, InstanceTypeOK, DataTypeOK, MainTypeOK, ConnTypeOK, PcTypeOK,
      NoRetryInv, HandlerCompletes, MainReturns, sentVars, connPc
<1>17. ASSUME HandlerDelays PROVE NoRetryInv'
  BY <1>17 DEF TypeOK, InstanceTypeOK, DataTypeOK, MainTypeOK, ConnTypeOK, PcTypeOK,
      NoRetryInv, HandlerDelays, PutHandlerBack, MainReturns, sentVars, connPc
<1>18. ASSUME HandlerRetries PROVE NoRetryInv'
  BY <1>18 DEF TypeOK, InstanceTypeOK, DataTypeOK, MainTypeOK, ConnTypeOK, PcTypeOK,
      NoRetryInv, HandlerRetries, SendPrepared, instVars, sentVars, connPc
<1>19. ASSUME HandlerReinserted PROVE NoRetryInv'
  BY <1>19 DEF TypeOK, InstanceTypeOK, DataTypeOK, MainTypeOK, ConnTypeOK, PcTypeOK,
      NoRetryInv, HandlerReinserted, PutHandlerBack, MainReturns, sentVars, connPc
<1>20. ASSUME NeedToResumeAndSend PROVE NoRetryInv'
  BY <1>1, <1>20 DEF NeedToResumeAndSend, instVars, sentVars, mainVars, connPc
<1>21. ASSUME TryToSendNothing PROVE NoRetryInv'
  BY <1>1, <1>21 DEF TryToSendNothing, instVars, sentVars, mainVars, connPc
<1>22. ASSUME TryToSendSingle PROVE NoRetryInv'
  BY <1>22 DEF TypeOK, InstanceTypeOK, DataTypeOK, MainTypeOK, ConnTypeOK, PcTypeOK,
      NoRetryInv, TryToSendSingle, ConnIdle, instVars, sentVars, mainVars
<1>23. ASSUME SingleSent PROVE NoRetryInv'
  BY <1>23 DEF TypeOK, InstanceTypeOK, DataTypeOK, MainTypeOK, ConnTypeOK, PcTypeOK,
      NoRetryInv, SingleSent, ConnReturns, instVars, mainVars
<1>24. ASSUME TryToSendContainer PROVE NoRetryInv'
  BY <1>24 DEF TypeOK, InstanceTypeOK, DataTypeOK, MainTypeOK, ConnTypeOK, PcTypeOK,
      NoRetryInv, TryToSendContainer, ConnIdle, ContainerIds, Contained, RequestAt,
      instVars, mainVars, connPc
<1>25. ASSUME OnPingSendForce PROVE NoRetryInv'
  BY <1>1, <1>25 DEF OnPingSendForce, instVars, sentVars, mainVars, connPc
<1>26. ASSUME RpcResultStored PROVE NoRetryInv'
  BY <1>26 DEF TypeOK, InstanceTypeOK, DataTypeOK, MainTypeOK, ConnTypeOK, PcTypeOK,
      NoRetryInv, RpcResultStored, ConnReturns, instVars, sentVars, mainVars
<1>27. ASSUME NEW m \in MsgIds, AckMore(m) PROVE NoRetryInv'
  BY <1>27 DEF TypeOK, InstanceTypeOK, DataTypeOK, MainTypeOK, ConnTypeOK, PcTypeOK,
      NoRetryInv, AckMore, RequestsAcked, MovesToAcked, IsList, instVars, mainVars
<1>28. ASSUME AuthKeyCreated PROVE NoRetryInv'
  BY <1>1, <1>28 DEF AuthKeyCreated, instVars, sentVars, mainVars, connPc
<1>29. ASSUME SaltReceived PROVE NoRetryInv'
  BY <1>1, <1>29 DEF SaltReceived, instVars, sentVars, mainVars, connPc
<1>30. ASSUME DhGenOk PROVE NoRetryInv'
  BY <1>30 DEF TypeOK, InstanceTypeOK, DataTypeOK, MainTypeOK, ConnTypeOK, PcTypeOK,
      NoRetryInv, DhGenOk, ConnIdle, ClearSessionData, instVars, mainVars, connPc
<1>31. ASSUME NEW m \in MsgIds, NEW kind \in Answers, RpcResult(m, kind) PROVE NoRetryInv'
  BY <1>31 DEF TypeOK, InstanceTypeOK, DataTypeOK, MainTypeOK, ConnTypeOK, PcTypeOK,
      NoRetryInv, RpcResult, RetryErrors, Mishap, RequestsAcked, MovesToAcked, IsList,
      instVars, mainVars
<1>32. ASSUME NEW m \in MsgIds, MsgsAck(m) PROVE NoRetryInv'
  BY <1>32 DEF TypeOK, InstanceTypeOK, DataTypeOK, MainTypeOK, ConnTypeOK, PcTypeOK,
      NoRetryInv, MsgsAck, RequestsAcked, MovesToAcked, IsList, instVars, mainVars
<1>33. ASSUME NEW m \in MsgIds, MsgsStateInfo(m) PROVE NoRetryInv'
  BY <1>33 DEF TypeOK, InstanceTypeOK, DataTypeOK, MainTypeOK, ConnTypeOK, PcTypeOK,
      NoRetryInv, MsgsStateInfo, instVars, sentVars, mainVars
<1>34. ASSUME NEW m \in MsgIds, BadMsgFatal(m) PROVE NoRetryInv'
  BY <1>1, <1>34 DEF BadMsgFatal, instVars, sentVars, mainVars, connPc
<1>35. ASSUME NEW m \in MsgIds, ServerRepeats(m) PROVE NoRetryInv'
  BY <1>1, <1>35 DEF ServerRepeats, instVars, sentVars, mainVars, connPc
<1>36. ASSUME NEW m \in MsgIds, NEW force \in BOOLEAN, ServerWantsResend(m, force)
       PROVE  NoRetryInv'
  BY <1>1, <1>36 DEF ServerWantsResend, instVars, sentVars, mainVars, connPc
<1>37. ASSUME NewSessionCreated PROVE NoRetryInv'
  BY <1>1, <1>37 DEF NewSessionCreated, instVars, sentVars, mainVars, connPc
<1>38. CASE UNCHANGED vars
  BY <1>1, <1>38 DEF vars, instVars, objVars, queueVars, sentVars, mainVars, callVars,
    wakeVars, connVars, connPc, netVars
<1> QED BY <1>1, <1>2, <1>3, <1>4, <1>5, <1>6, <1>7, <1>8, <1>9, <1>10, <1>11, <1>12,
    <1>13, <1>14, <1>15, <1>16, <1>17, <1>18, <1>19, <1>20, <1>21, <1>22, <1>23, <1>24,
    <1>25, <1>26, <1>27, <1>28, <1>29, <1>30, <1>31, <1>32, <1>33, <1>34, <1>35, <1>36,
    <1>37, <1>38 DEF Next, MainStep, ConnStep, Connects, ServerSends

\* A request is held also where it would be held in haveSent as a request, not
\* where requestsAcked takes it for a container (msDate 0).
Held(r) ==
    \/ r \in toSend
    \/ r \notin msDateZero /\ \E m \in MsgIds : haveSent[m] = r
    \/ responses[r] # "none"
    \/ r \in delayed
    \/ HeldByThread(r)
HeldInv == \A r \in parserMap : Held(r)

\* requestsAcked hands a request on from one map to the next: an ack does so
\* only without a handler, an answer leaves it where wasSent finds it or gives
\* its callbacks up (the eviction from wereAcked).
LEMMA RequestsAckedHolds ==
  ASSUME TypeOK, IdsInv, NEW m \in MsgIds, NEW byResponse \in BOOLEAN,
         RequestsAcked(m, byResponse), NEW q \in parserMap
  PROVE  /\ clearCalls \subseteq clearCalls'
         /\ q \in toSend \/ (q \notin msDateZero /\ \E n \in MsgIds : haveSent[n] = q)
            => \/ q \in toSend'
               \/ q \notin msDateZero /\ \E n \in MsgIds : haveSent'[n] = q
               \/ byResponse /\ WasSent(m)' = q
               \/ byResponse /\ <<q, "error">> \in clearCalls'
         /\ byResponse => haveSent'[m] = NoRequest
<1> USE SessionAssumption DEF SessionAssumption
<1>1. /\ q \in Requests /\ msDateZero \subseteq Requests
      /\ haveSent[m] \in Requests \cup {NoRequest, Container, StateRequest}
      /\ toResend \in [MsgIds -> Requests \cup {NoRequest}]
      /\ wereAcked \in [MsgIds -> Requests \cup {NoRequest}]
      /\ haveSent \in [MsgIds -> Requests \cup {NoRequest, Container, StateRequest}]
  BY DEF TypeOK, InstanceTypeOK, DataTypeOK
<1>2. haveSent[m] \in Requests /\ toResend[m] # NoRequest => toResend[m] = haveSent[m]
  BY <1>1 DEF IdsInv, MsgIdsMatch
<1>3. ASSUME NEW r \in Requests, EnterAcked(m, r)
      PROVE  /\ clearCalls \subseteq clearCalls'
             /\ wereAcked'[m] = r \/ <<r, "error">> \in clearCalls'
  BY <1>1, <1>3 DEF EnterAcked, EvictedRequest
<1>4. CASE IsList(m)
  BY <1>1, <1>4 DEF RequestsAcked, IsList, HasCallbacks, MovesToAcked
<1>5. CASE haveSent[m] \in Requests /\ ~IsList(m)
  <2>1. CASE MovesToAcked(haveSent[m], byResponse)
    <3>1. /\ haveSent' = [haveSent EXCEPT ![m] = NoRequest] /\ EnterAcked(m, haveSent[m])
          /\ toSend' = toSend /\ toResend' = toResend
      BY <1>1, <1>5, <2>1 DEF RequestsAcked, IsList
    <3>2. /\ clearCalls \subseteq clearCalls'
          /\ wereAcked'[m] = haveSent[m] \/ <<haveSent[m], "error">> \in clearCalls'
      BY <1>3, <1>5, <3>1
    <3>3. CASE haveSent[m] = q
      BY <1>1, <1>2, <2>1, <3>1, <3>2, <3>3 DEF MovesToAcked, HasCallbacks, WasSent
    <3>4. CASE haveSent[m] # q
      BY <1>1, <3>1, <3>2, <3>4
    <3> QED BY <3>3, <3>4
  <2>2. CASE ~MovesToAcked(haveSent[m], byResponse)
    BY <1>1, <1>5, <2>2 DEF RequestsAcked, IsList, MovesToAcked
  <2> QED BY <2>1, <2>2
<1>6. CASE haveSent[m] = NoRequest /\ toResend[m] \in Requests
  <2>1. CASE MovesToAcked(toResend[m], byResponse) /\ toResend[m] \in toSend
    <3>1. /\ toResend' = [toResend EXCEPT ![m] = NoRequest] /\ EnterAcked(m, toResend[m])
          /\ toSend' = toSend \ {toResend[m]} /\ haveSent' = haveSent
      BY <1>1, <1>6, <2>1 DEF RequestsAcked, IsList
    <3>2. /\ clearCalls \subseteq clearCalls'
          /\ wereAcked'[m] = toResend[m] \/ <<toResend[m], "error">> \in clearCalls'
      BY <1>3, <1>6, <3>1
    <3>3. CASE toResend[m] = q
      BY <1>1, <1>6, <2>1, <3>1, <3>2, <3>3 DEF MovesToAcked, HasCallbacks, WasSent
    <3>4. CASE toResend[m] # q
      BY <1>1, <1>6, <3>1, <3>2, <3>4
    <3> QED BY <3>3, <3>4
  <2>2. CASE ~(MovesToAcked(toResend[m], byResponse) /\ toResend[m] \in toSend)
    BY <1>1, <1>6, <2>2 DEF RequestsAcked, IsList, MovesToAcked
  <2> QED BY <2>1, <2>2
<1>7. CASE haveSent[m] = NoRequest /\ toResend[m] = NoRequest
  BY <1>1, <1>7 DEF RequestsAcked, IsList
<1> QED BY <1>1, <1>4, <1>5, <1>6, <1>7 DEF IsList

\* Every step hands a request with handlers on from one holder to the next.
LEMMA HeldStep ==
  ASSUME "notInited" \notin Mishaps, "ungzip" \notin Mishaps
  PROVE  TypeOK /\ IdsInv /\ NoRetryInv /\ HeldInv /\ [Next]_vars => HeldInv'
<1> SUFFICES ASSUME TypeOK, IdsInv, NoRetryInv, HeldInv, [Next]_vars PROVE HeldInv'
  OBVIOUS
<1> USE SessionAssumption DEF SessionAssumption
<1>1. ASSUME UNCHANGED <<parserMap, toSend, msDateZero, haveSent, responses, delayed, mainAt,
                          mainReq, connAt, connReq, connMsg, toResend, wereAcked, clearCalls>>
      PROVE  HeldInv'
  BY <1>1 DEF HeldInv, Held, HeldByThread, WasSent
<1>2. ASSUME NEW r \in Requests, SendRequest(r) PROVE HeldInv'
  BY <1>2 DEF TypeOK, InstanceTypeOK, DataTypeOK, MainTypeOK, ConnTypeOK, PcTypeOK,
      IdsInv, MsgIdsMatch, NoRetryInv, HeldInv, Held, HeldByThread, WasSent,
      SendRequest, MainIdle, SendPrepared, sentVars, mainVars, callVars, connPc
<1>3. ASSUME NEW r \in Requests, Cancel(r) PROVE HeldInv'
  <2> SUFFICES ASSUME NEW q \in parserMap' PROVE Held(q)'
    BY DEF HeldInv
  <2>1. q \in parserMap /\ Held(q) /\ q # r
    BY <1>3 DEF Cancel, HeldInv
  <2>2. ASSUME NEW m \in MsgIds, haveSent[m] = q PROVE haveSent'[m] = q
    <3>1. msgIdOf[r] # m
      BY <2>1, <2>2 DEF TypeOK, InstanceTypeOK, DataTypeOK, IdsInv, MsgIdsMatch
    <3> QED BY <2>1, <2>2, <3>1, <1>3 DEF Cancel
  <2>3. ASSUME connAt = "answer", WasSent(connMsg) = q PROVE WasSent(connMsg)' = q
    BY <2>1, <2>3, <1>3 DEF Cancel, WasSent, NoRetryInv, connPc, TypeOK, PcTypeOK
  <2> QED BY <2>1, <2>2, <2>3, <1>3 DEF Cancel, MainIdle, Held, HeldByThread, objVars,
         mainVars, callVars, connPc
<1>4. ASSUME CheckRequestsByTimer PROVE HeldInv'
  <2> SUFFICES ASSUME NEW q \in parserMap' PROVE Held(q)'
    BY DEF HeldInv
  <2>1. q \in parserMap /\ Held(q) /\ q \in Requests
    BY <1>4 DEF CheckRequestsByTimer, HeldInv, instVars, TypeOK, InstanceTypeOK
  <2>2. ASSUME NEW m \in MsgIds, haveSent[m] = q, q \notin msDateZero
        PROVE  haveSent'[m] = q
    BY <2>1, <2>2, <1>4 DEF CheckRequestsByTimer
  <2>3. ASSUME connAt = "answer", WasSent(connMsg) = q PROVE WasSent(connMsg)' = q
    BY <2>1, <2>3, <1>4 DEF CheckRequestsByTimer, WasSent, NoRetryInv, connPc, TypeOK, PcTypeOK
  <2>4. /\ clearCalls \subseteq clearCalls' /\ toSend' = toSend /\ msDateZero' = msDateZero
        /\ responses' = responses /\ delayed' = delayed
    BY <1>4 DEF CheckRequestsByTimer, instVars, objVars
  <2> QED BY <2>1, <2>2, <2>3, <2>4, <1>4 DEF CheckRequestsByTimer, Held, HeldByThread,
         mainVars, connPc
<1>5. ASSUME Ping PROVE HeldInv'
  BY <1>1, <1>5 DEF Ping, instVars, objVars, queueVars, sentVars, mainVars, callVars,
      connPc
<1>6. ASSUME Stop PROVE HeldInv'
  BY <1>1, <1>6 DEF Stop, instVars, objVars, queueVars, sentVars, mainVars, callVars,
      connPc
<1>7. ASSUME Restart PROVE HeldInv'
  BY <1>1, <1>7 DEF Restart, instVars, objVars, sentVars, mainVars, callVars, connPc
<1>8. ASSUME RpcResultUnreadable PROVE HeldInv'
  BY <1>8 DEF TypeOK, InstanceTypeOK, DataTypeOK, MainTypeOK, ConnTypeOK, PcTypeOK,
      IdsInv, MsgIdsMatch, NoRetryInv, HeldInv, Held, HeldByThread, WasSent,
      RpcResultUnreadable, Mishap, ConnReturns, instVars, objVars, queueVars, sentVars,
      mainVars, callVars
<1>9. ASSUME NEW r \in Requests, ExecCallback(r) PROVE HeldInv'
  <2> SUFFICES ASSUME NEW q \in parserMap' PROVE Held(q)'
    BY DEF HeldInv
  <2>1. q \in parserMap /\ Held(q) /\ q # r /\ q \in Requests
    BY <1>9 DEF ExecCallback, HeldInv, TypeOK, InstanceTypeOK
  <2>2. responses'[q] = responses[q]
    BY <2>1, <1>9 DEF ExecCallback, TypeOK, DataTypeOK
  <2>3. WasSent(connMsg)' = WasSent(connMsg)
    BY <1>9 DEF ExecCallback, WasSent, sentVars, connPc
  <2> QED BY <2>1, <2>2, <2>3, <1>9 DEF ExecCallback, MainIdle, Held, HeldByThread, objVars,
         queueVars, sentVars, callVars, connPc
<1>10. ASSUME NEW r \in Requests, CheckDelayed(r) PROVE HeldInv'
  <2> SUFFICES ASSUME NEW q \in parserMap' PROVE Held(q)'
    BY DEF HeldInv
  <2>1. q \in parserMap /\ Held(q) /\ q \in requestMap
    BY <1>10 DEF CheckDelayed, HeldInv, NoRetryInv
  <2>2. WasSent(connMsg)' = WasSent(connMsg)
    BY <1>10 DEF CheckDelayed, WasSent, sentVars, connPc
  <2> QED BY <2>1, <2>2, <1>10 DEF CheckDelayed, SendPrepared, MainIdle, Held, HeldByThread,
         sentVars, mainVars, callVars, connPc
<1>11. ASSUME NEW r \in Requests, NEW code \in {"silent", "error"}, ClearCallbacks(r, code)
       PROVE  HeldInv'
  BY <1>11 DEF TypeOK, InstanceTypeOK, DataTypeOK, MainTypeOK, ConnTypeOK, PcTypeOK,
      IdsInv, MsgIdsMatch, NoRetryInv, HeldInv, Held, HeldByThread, WasSent,
      ClearCallbacks, MainIdle, OutcomeIfFound, objVars, queueVars, sentVars, mainVars,
      connPc
<1>12. ASSUME NEW m \in MsgIds, NEW force \in BOOLEAN, Resend(m, force) PROVE HeldInv'
  <2> SUFFICES ASSUME NEW q \in parserMap' PROVE Held(q)'
    BY DEF HeldInv
  <2>1. q \in parserMap /\ Held(q) /\ q \in Requests
    BY <1>12 DEF Resend, HeldInv, instVars, TypeOK, InstanceTypeOK
  <2>2. ASSUME NEW n \in MsgIds, haveSent[n] = q
        PROVE  haveSent'[n] = q \/ (mainAt' = "erased" /\ mainReq' = q)
    BY <2>1, <2>2, <1>12 DEF Resend, TakeFromHaveSent, TypeOK, DataTypeOK
  <2>3. ASSUME connAt = "answer", WasSent(connMsg) = q PROVE WasSent(connMsg)' = q
    BY <2>1, <2>3, <1>12 DEF Resend, TakeFromHaveSent, WasSent, NoRetryInv, connPc, TypeOK,
       PcTypeOK, DataTypeOK
  <2>4. /\ clearCalls' = clearCalls /\ toSend' = toSend /\ msDateZero' = msDateZero
        /\ responses' = responses /\ delayed' = delayed
    BY <1>12 DEF Resend, instVars, objVars, queueVars
  <2> QED BY <2>1, <2>2, <2>3, <2>4, <1>12 DEF Resend, MainIdle, Held, HeldByThread, connPc
<1>13. ASSUME ResendPrepared PROVE HeldInv'
  BY <1>13 DEF TypeOK, InstanceTypeOK, DataTypeOK, MainTypeOK, ConnTypeOK, PcTypeOK,
      IdsInv, MsgIdsMatch, NoRetryInv, HeldInv, Held, HeldByThread, WasSent,
      ResendPrepared, SendPrepared, instVars, sentVars, callVars, connPc
<1>14. ASSUME ResendRecorded PROVE HeldInv'
  <2> SUFFICES ASSUME NEW q \in parserMap' PROVE Held(q)'
    BY DEF HeldInv
  <2>1. q \in parserMap /\ Held(q)
    BY <1>14 DEF ResendRecorded, HeldInv, instVars
  <2>2. ASSUME connAt = "answer", WasSent(connMsg) = q PROVE WasSent(connMsg)' = q
    <3>1. connMsg \in MsgIds /\ haveSent[connMsg] = NoRequest /\ q \in Requests
      BY <2>1, <2>2 DEF NoRetryInv, TypeOK, InstanceTypeOK, PcTypeOK
    <3>2. carried[connMsg] = q
      BY <2>2, <3>1 DEF WasSent, IdsInv, MsgIdsMatch, SessionAssumption
    <3>3. mainMsg = connMsg => mainReq = q
      BY <3>2, <1>14 DEF ResendRecorded, IdsInv
    <3>4. toResend \in [MsgIds -> Requests \cup {NoRequest}] /\ mainReq \in Requests
      BY <1>14 DEF ResendRecorded, TypeOK, DataTypeOK, PcTypeOK
    <3> QED BY <2>2, <3>1, <3>3, <3>4, <1>14 DEF ResendRecorded, WasSent, sentVars, connPc
  <2> QED BY <2>1, <2>2, <1>14 DEF ResendRecorded, Held, HeldByThread, instVars, objVars,
         queueVars, sentVars, callVars, connPc
<1>15. ASSUME ResendAll PROVE HeldInv'
  BY <1>1, <1>15 DEF ResendAll, instVars, objVars, queueVars, sentVars, mainVars, connPc
<1>16. ASSUME HandlerCompletes PROVE HeldInv'
  BY <1>16 DEF TypeOK, InstanceTypeOK, DataTypeOK, MainTypeOK, ConnTypeOK, PcTypeOK,
      IdsInv, MsgIdsMatch, NoRetryInv, HeldInv, Held, HeldByThread, WasSent,
      HandlerCompletes, MainReturns, objVars, queueVars, sentVars, callVars, connPc
<1>17. ASSUME HandlerDelays PROVE HeldInv'
  BY <1>17 DEF TypeOK, InstanceTypeOK, DataTypeOK, MainTypeOK, ConnTypeOK, PcTypeOK,
      IdsInv, MsgIdsMatch, NoRetryInv, HeldInv, Held, HeldByThread, WasSent,
      HandlerDelays, PutHandlerBack, MainReturns, objVars, queueVars, sentVars,
      callVars, connPc
<1>18. ASSUME HandlerRetries PROVE HeldInv'
  BY <1>18 DEF TypeOK, InstanceTypeOK, DataTypeOK, MainTypeOK, ConnTypeOK, PcTypeOK,
      IdsInv, MsgIdsMatch, NoRetryInv, HeldInv, Held, HeldByThread, WasSent,
      HandlerRetries, SendPrepared, instVars, sentVars, callVars, connPc
<1>19. ASSUME HandlerReinserted PROVE HeldInv'
  BY <1>19 DEF TypeOK, InstanceTypeOK, DataTypeOK, MainTypeOK, ConnTypeOK, PcTypeOK,
      IdsInv, MsgIdsMatch, NoRetryInv, HeldInv, Held, HeldByThread, WasSent,
      HandlerReinserted, PutHandlerBack, MainReturns, objVars, queueVars, sentVars,
      callVars, connPc
<1>20. ASSUME NeedToResumeAndSend PROVE HeldInv'
  BY <1>1, <1>20 DEF NeedToResumeAndSend, instVars, objVars, queueVars, sentVars,
      mainVars, callVars, connPc
<1>21. ASSUME TryToSendNothing PROVE HeldInv'
  BY <1>1, <1>21 DEF TryToSendNothing, instVars, objVars, queueVars, sentVars, mainVars,
      callVars, connPc
<1>22. ASSUME TryToSendSingle PROVE HeldInv'
  BY <1>22 DEF TypeOK, InstanceTypeOK, DataTypeOK, MainTypeOK, ConnTypeOK, PcTypeOK,
      IdsInv, MsgIdsMatch, NoRetryInv, HeldInv, Held, HeldByThread, WasSent,
      TryToSendSingle, ConnIdle, instVars, objVars, sentVars, mainVars, callVars
<1>23. ASSUME SingleSent PROVE HeldInv'
  <2> SUFFICES ASSUME NEW q \in parserMap' PROVE Held(q)'
    BY DEF HeldInv
  <2>1. q \in parserMap /\ Held(q) /\ q \in Requests
    BY <1>23 DEF SingleSent, HeldInv, instVars, TypeOK, InstanceTypeOK
  <2>2. PICK m \in MsgIds : /\ Prepared(connReq, m)
                            /\ haveSent' = [haveSent EXCEPT ![m] = connReq]
    BY <1>23 DEF SingleSent
  <2>3. haveSent[m] \in {NoRequest, connReq} \/ haveSent[m] \notin Requests
    BY <2>2, <1>23 DEF SingleSent, Prepared, FreshId, IdsInv, MsgIdsMatch, TypeOK, PcTypeOK
  <2>4. \/ connReq = q
        \/ connReq # q /\ \A n \in MsgIds : haveSent[n] = q => haveSent'[n] = q
    BY <2>1, <2>2, <2>3 DEF TypeOK, DataTypeOK
  <2>5. haveSent'[m] = connReq
    BY <2>2 DEF TypeOK, DataTypeOK
  <2> QED BY <2>1, <2>2, <2>4, <2>5, <1>23 DEF SingleSent, Held, HeldByThread, instVars,
         queueVars, mainVars, callVars
<1>24. ASSUME TryToSendContainer PROVE HeldInv'
  <2> SUFFICES ASSUME NEW q \in parserMap' PROVE Held(q)'
    BY DEF HeldInv
  <2>1. q \in parserMap /\ Held(q) /\ q \in Requests
    BY <1>24 DEF TryToSendContainer, HeldInv, instVars, TypeOK, InstanceTypeOK
  <2>2. PICK ids \in [toSend -> MsgIds], s \in MsgIds \cup {NoMsg}, c \in MsgIds \cup {NoMsg} :
             /\ ContainerIds(ids, s, c)
             /\ haveSent' = [m \in MsgIds |->
                    IF m \in Contained(ids) THEN RequestAt(ids, m)
                    ELSE IF m = s THEN StateRequest ELSE IF m = c THEN Container
                    ELSE haveSent[m]]
    BY <1>24 DEF TryToSendContainer
  <2>3. ASSUME q \in toSend PROVE haveSent'[ids[q]] = q /\ ids[q] \in MsgIds
    BY <2>2, <2>3 DEF ContainerIds, Contained, RequestAt
  <2>4. ASSUME NEW n \in MsgIds, haveSent[n] = q, q \notin toSend PROVE haveSent'[n] = q
    <3>1. ASSUME NEW r \in toSend PROVE ids[r] # n
      <4>1. CASE msgIdOf[r] = NoMsg
        BY <2>1, <2>2, <2>4, <4>1 DEF ContainerIds, Prepared, FreshId
      <4>2. CASE msgIdOf[r] # NoMsg
        BY <2>1, <2>2, <2>4, <4>2 DEF ContainerIds, Prepared, IdsInv, MsgIdsMatch, TypeOK,
           DataTypeOK
      <4> QED BY <4>1, <4>2
    <3>2. n # s /\ n # c
      BY <2>1, <2>2, <2>4 DEF ContainerIds, FreshId
    <3> QED BY <2>2, <2>4, <3>1, <3>2 DEF Contained
  <2>5. msDateZero' = msDateZero \ toSend /\ connAt = "idle"
    BY <1>24 DEF TryToSendContainer, ConnIdle
  <2>6. /\ responses' = responses /\ delayed' = delayed /\ clearCalls' = clearCalls
        /\ mainAt' = mainAt /\ mainReq' = mainReq
    BY <1>24 DEF TryToSendContainer, instVars, mainVars, callVars
  <2> QED BY <2>1, <2>3, <2>4, <2>5, <2>6 DEF Held, HeldByThread
<1>25. ASSUME OnPingSendForce PROVE HeldInv'
  BY <1>1, <1>25 DEF OnPingSendForce, instVars, objVars, queueVars, sentVars, mainVars,
      callVars, connPc
<1>26. ASSUME RpcResultStored PROVE HeldInv'
  <2> SUFFICES ASSUME NEW q \in parserMap' PROVE Held(q)'
    BY DEF HeldInv
  <2>1. q \in parserMap /\ Held(q) /\ q \in Requests
    BY <1>26 DEF RpcResultStored, HeldInv, instVars, TypeOK, InstanceTypeOK
  <2>2. \/ responses'[q] = responses[q] /\ WasSent(connMsg) # q
        \/ responses'[q] = connKind /\ connKind # "none"
    BY <2>1, <1>26 DEF RpcResultStored, TypeOK, DataTypeOK, PcTypeOK, Answers, RetryErrors
  <2> QED BY <2>1, <2>2, <1>26 DEF RpcResultStored, Held, HeldByThread, instVars, objVars,
         queueVars, sentVars, mainVars, callVars
<1>27. ASSUME NEW m \in MsgIds, AckMore(m) PROVE HeldInv'
  <2> SUFFICES ASSUME NEW q \in parserMap' PROVE Held(q)'
    BY DEF HeldInv
  <2>1. q \in parserMap /\ Held(q)
    BY <1>27 DEF AckMore, HeldInv, instVars
  <2>2. RequestsAcked(m, FALSE) /\ connAt \notin {"sending", "answer"}
    BY <1>27 DEF AckMore, Receiving, ConnIdle
  <2>3. /\ clearCalls \subseteq clearCalls'
        /\ q \in toSend \/ (q \notin msDateZero /\ \E n \in MsgIds : haveSent[n] = q)
           => \/ q \in toSend'
              \/ q \notin msDateZero /\ \E n \in MsgIds : haveSent'[n] = q
    BY <2>1, <2>2, RequestsAckedHolds
  <2> QED BY <2>1, <2>2, <2>3, <1>27 DEF AckMore, Held, HeldByThread, instVars, objVars,
         mainVars
<1>28. ASSUME AuthKeyCreated PROVE HeldInv'
  BY <1>1, <1>28 DEF AuthKeyCreated, instVars, objVars, queueVars, sentVars, mainVars,
      connPc
<1>29. ASSUME SaltReceived PROVE HeldInv'
  BY <1>1, <1>29 DEF SaltReceived, instVars, objVars, queueVars, sentVars, mainVars,
      connPc
<1>30. ASSUME DhGenOk PROVE HeldInv'
  BY <1>30 DEF TypeOK, InstanceTypeOK, DataTypeOK, MainTypeOK, ConnTypeOK, PcTypeOK,
      IdsInv, MsgIdsMatch, NoRetryInv, HeldInv, Held, HeldByThread, WasSent, DhGenOk,
      ConnIdle, ClearSessionData, instVars, objVars, queueVars, mainVars, connPc
<1>31. ASSUME NEW m \in MsgIds, NEW kind \in Answers, RpcResult(m, kind) PROVE HeldInv'
  <2> SUFFICES ASSUME NEW q \in parserMap' PROVE Held(q)'
    BY DEF HeldInv
  <2>1. q \in parserMap /\ Held(q)
    BY <1>31 DEF RpcResult, HeldInv, instVars
  <2>2. RequestsAcked(m, TRUE) /\ connAt \notin {"sending", "answer"}
    BY <1>31 DEF RpcResult, Receiving, ConnIdle
  <2>3. /\ clearCalls \subseteq clearCalls'
        /\ q \in toSend \/ (q \notin msDateZero /\ \E n \in MsgIds : haveSent[n] = q)
           => \/ q \in toSend'
              \/ q \notin msDateZero /\ \E n \in MsgIds : haveSent'[n] = q
              \/ WasSent(m)' = q
              \/ <<q, "error">> \in clearCalls'
    BY <2>1, <2>2, RequestsAckedHolds
  <2>4. WasSent(connMsg)' = WasSent(m)'
    BY <1>31 DEF RpcResult, WasSent
  <2> QED BY <2>1, <2>2, <2>3, <2>4, <1>31 DEF RpcResult, Held, HeldByThread, instVars, objVars,
         mainVars
<1>32. ASSUME NEW m \in MsgIds, MsgsAck(m) PROVE HeldInv'
  <2> SUFFICES ASSUME NEW q \in parserMap' PROVE Held(q)'
    BY DEF HeldInv
  <2>1. q \in parserMap /\ Held(q)
    BY <1>32 DEF MsgsAck, HeldInv, instVars
  <2>2. RequestsAcked(m, FALSE) /\ connAt \notin {"sending", "answer"}
    BY <1>32 DEF MsgsAck, Receiving, ConnIdle
  <2>3. /\ clearCalls \subseteq clearCalls'
        /\ q \in toSend \/ (q \notin msDateZero /\ \E n \in MsgIds : haveSent[n] = q)
           => \/ q \in toSend'
              \/ q \notin msDateZero /\ \E n \in MsgIds : haveSent'[n] = q
    BY <2>1, <2>2, RequestsAckedHolds
  <2> QED BY <2>1, <2>2, <2>3, <1>32 DEF MsgsAck, Held, HeldByThread, instVars, objVars,
         mainVars
<1>33. ASSUME NEW m \in MsgIds, MsgsStateInfo(m) PROVE HeldInv'
  BY <1>33 DEF TypeOK, InstanceTypeOK, DataTypeOK, MainTypeOK, ConnTypeOK, PcTypeOK,
      IdsInv, MsgIdsMatch, NoRetryInv, HeldInv, Held, HeldByThread, WasSent,
      MsgsStateInfo, Receiving, ConnIdle, instVars, objVars, queueVars, sentVars,
      mainVars
<1>34. ASSUME NEW m \in MsgIds, BadMsgFatal(m) PROVE HeldInv'
  BY <1>34 DEF TypeOK, InstanceTypeOK, DataTypeOK, MainTypeOK, ConnTypeOK, PcTypeOK,
      IdsInv, MsgIdsMatch, NoRetryInv, HeldInv, Held, HeldByThread, WasSent,
      BadMsgFatal, Receiving, Mishap, ConnIdle, instVars, objVars, queueVars, sentVars,
      mainVars, connPc
<1>35. ASSUME NEW m \in MsgIds, ServerRepeats(m) PROVE HeldInv'
  BY <1>1, <1>35 DEF ServerRepeats, instVars, objVars, queueVars, sentVars, mainVars,
      callVars, connPc
<1>36. ASSUME NEW m \in MsgIds, NEW force \in BOOLEAN, ServerWantsResend(m, force)
       PROVE  HeldInv'
  BY <1>1, <1>36 DEF ServerWantsResend, instVars, objVars, queueVars, sentVars,
      mainVars, connPc
<1>37. ASSUME NewSessionCreated PROVE HeldInv'
  BY <1>1, <1>37 DEF NewSessionCreated, instVars, objVars, queueVars, sentVars,
      mainVars, connPc
<1>38. CASE UNCHANGED vars
  BY <1>1, <1>38 DEF vars, instVars, objVars, queueVars, sentVars, mainVars, callVars,
    wakeVars, connVars, connPc, netVars
<1> QED BY <1>1, <1>2, <1>3, <1>4, <1>5, <1>6, <1>7, <1>8, <1>9, <1>10, <1>11, <1>12,
    <1>13, <1>14, <1>15, <1>16, <1>17, <1>18, <1>19, <1>20, <1>21, <1>22, <1>23, <1>24,
    <1>25, <1>26, <1>27, <1>28, <1>29, <1>30, <1>31, <1>32, <1>33, <1>34, <1>35, <1>36,
    <1>37, <1>38 DEF Next, MainStep, ConnStep, Connects, ServerSends

\* When no answer is unreadable and none is CONNECTION_NOT_INITED, a request
\* with handlers is at any moment in a map or a call that will move it on,
\* whatever the two threads and the server do between two critical sections.
THEOREM NothingLost ==
  ASSUME "notInited" \notin Mishaps, "ungzip" \notin Mishaps
  PROVE  Spec => []NoRequestLost
<1>1. Init => IdsInv /\ OwedInv /\ NoRetryInv /\ HeldInv
  BY SessionAssumption DEF Init, IdsInv, MsgIdsMatch, OwedInv, PendingIsOwed, HandlerOwed,
     NoRetryInv, HeldInv, SessionAssumption
<1>2. TypeOK /\ IdsInv /\ OwedInv /\ NoRetryInv /\ HeldInv /\ [Next]_vars
        => IdsInv' /\ OwedInv' /\ NoRetryInv' /\ HeldInv'
  BY IdsStep, OwedStep, NoRetryStep, HeldStep
<1>3. HeldInv => NoRequestLost
  BY DEF HeldInv, Held, NoRequestLost, HeldByMaps
<1> QED BY <1>1, <1>2, <1>3, TypeCorrect, PTL DEF Spec

-----------------------------------------------------------------------------
(* A request is sent under one message id at a time. *)

\* Inductive: what holds of a session in which onErrorDefault never has a
\* request sent again (FLOOD_WAIT_X and the like, CONNECTION_NOT_INITED).
NoSecondTryInv ==
    /\ delayed = {}
    /\ mainAt # "reinsert"
    /\ mainKind \notin RetryErrors /\ connKind \notin RetryErrors
    /\ \A r \in Requests : responses[r] \notin RetryErrors

\* Inductive: a request is in one place only, toSend, the hands of tryToSend,
\* haveSent or the hands of resend, and in haveSent under its own message id.
OnceInv ==
    /\ \A m \in MsgIds : haveSent[m] \in Requests =>
           /\ msgIdOf[haveSent[m]] = m
           /\ haveSent[m] \notin toSend \cup msDateZero
           /\ mainAt = "erased" => mainReq # haveSent[m]
           /\ connAt = "sending" => connReq # haveSent[m]
    /\ mainAt = "erased" => mainReq \notin toSend
    /\ connAt = "sending" => connReq \notin toSend
    /\ mainAt = "erased" /\ connAt = "sending" => mainReq # connReq

\* An answer onErrorDefault would handle never enters, so none is delayed.
LEMMA NoSecondTryStep ==
  ASSUME RetryErrors \cap Mishaps = {}
  PROVE  TypeOK /\ NoSecondTryInv /\ [Next]_vars => NoSecondTryInv'
<1> SUFFICES ASSUME TypeOK, NoSecondTryInv, [Next]_vars PROVE NoSecondTryInv'
  OBVIOUS
<1> USE SessionAssumption DEF SessionAssumption
<1>1. ASSUME UNCHANGED <<delayed, responses, mainAt, mainKind, connKind>>
      PROVE  NoSecondTryInv'
  BY <1>1 DEF NoSecondTryInv
<1>2. ASSUME NEW r \in Requests, SendRequest(r) PROVE NoSecondTryInv'
  BY <1>2 DEF TypeOK, InstanceTypeOK, DataTypeOK, MainTypeOK, ConnTypeOK, PcTypeOK,
      NoSecondTryInv, RetryErrors, SendRequest, MainIdle, SendPrepared, instVars, objVars,
      queueVars, sentVars, mainVars, connPc, netVars
<1>3. ASSUME NEW r \in Requests, Cancel(r) PROVE NoSecondTryInv'
  BY <1>1, <1>3 DEF Cancel, MainIdle, instVars, objVars, queueVars, sentVars, mainVars,
      connPc, netVars
<1>4. ASSUME CheckRequestsByTimer PROVE NoSecondTryInv'
  BY <1>1, <1>4 DEF CheckRequestsByTimer, MainIdle, Mishap, instVars, objVars, queueVars,
      sentVars, mainVars, connPc, netVars
<1>5. ASSUME Ping PROVE NoSecondTryInv'
  BY <1>1, <1>5 DEF Ping, instVars, objVars, queueVars, sentVars, mainVars, connPc, netVars
<1>6. ASSUME Stop PROVE NoSecondTryInv'
  BY <1>1, <1>6 DEF Stop, instVars, objVars, queueVars, sentVars, mainVars, connPc, netVars
<1>7. ASSUME Restart PROVE NoSecondTryInv'
  BY <1>1, <1>7 DEF Restart, instVars, objVars, queueVars, sentVars, mainVars, connPc,
      netVars
<1>8. ASSUME RpcResultUnreadable PROVE NoSecondTryInv'
  BY <1>8 DEF TypeOK, InstanceTypeOK, DataTypeOK, MainTypeOK, ConnTypeOK, PcTypeOK,
      NoSecondTryInv, RetryErrors, RpcResultUnreadable, Mishap, ConnReturns, instVars,
      objVars, queueVars, sentVars, mainVars, connPc, netVars
<1>9. ASSUME NEW r \in Requests, ExecCallback(r) PROVE NoSecondTryInv'
  BY <1>9 DEF TypeOK, InstanceTypeOK, DataTypeOK, MainTypeOK, ConnTypeOK, PcTypeOK,
      NoSecondTryInv, RetryErrors, ExecCallback, MainIdle, instVars, objVars, queueVars,
      sentVars, mainVars, connPc, netVars
<1>10. ASSUME NEW r \in Requests, CheckDelayed(r) PROVE NoSecondTryInv'
  BY <1>10 DEF TypeOK, InstanceTypeOK, DataTypeOK, MainTypeOK, ConnTypeOK, PcTypeOK,
      NoSecondTryInv, RetryErrors, CheckDelayed, MainIdle, SendPrepared, instVars, objVars,
      queueVars, sentVars, mainVars, connPc, netVars
<1>11. ASSUME NEW r \in Requests, NEW code \in {"silent", "error"}, ClearCallbacks(r, code)
       PROVE  NoSecondTryInv'
  BY <1>1, <1>11 DEF ClearCallbacks, MainIdle, OutcomeIfFound, instVars, objVars, queueVars,
      sentVars, mainVars, connPc, netVars
<1>12. ASSUME NEW m \in MsgIds, NEW force \in BOOLEAN, Resend(m, force) PROVE NoSecondTryInv'
  BY <1>12 DEF TypeOK, InstanceTypeOK, DataTypeOK, MainTypeOK, ConnTypeOK, PcTypeOK,
      NoSecondTryInv, RetryErrors, Resend, MainIdle, TakeFromHaveSent, instVars, objVars,
      queueVars, sentVars, mainVars, connPc, netVars
<1>13. ASSUME ResendPrepared PROVE NoSecondTryInv'
  BY <1>13 DEF NoSecondTryInv, ResendPrepared, SendPrepared, instVars, objVars, queueVars, sentVars,
      mainVars, connPc, netVars
<1>14. ASSUME ResendRecorded PROVE NoSecondTryInv'
  BY <1>14 DEF TypeOK, InstanceTypeOK, DataTypeOK, MainTypeOK, ConnTypeOK, PcTypeOK,
      NoSecondTryInv, RetryErrors, ResendRecorded, MainReturns, instVars, objVars,
      queueVars, sentVars, mainVars, connPc, netVars
<1>15. ASSUME ResendAll PROVE NoSecondTryInv'
  BY <1>1, <1>15 DEF ResendAll, instVars, objVars, queueVars, sentVars, mainVars, connPc,
      netVars
<1>16. ASSUME HandlerCompletes PROVE NoSecondTryInv'
  BY <1>16 DEF TypeOK, InstanceTypeOK, DataTypeOK, MainTypeOK, ConnTypeOK, PcTypeOK,
      NoSecondTryInv, RetryErrors, HandlerCompletes, MainReturns, instVars, objVars,
      queueVars, sentVars, mainVars, connPc, netVars
<1>17. ASSUME HandlerDelays PROVE NoSecondTryInv'
  BY <1>17 DEF TypeOK, InstanceTypeOK, DataTypeOK, MainTypeOK, ConnTypeOK, PcTypeOK,
      NoSecondTryInv, RetryErrors, HandlerDelays, PutHandlerBack, MainReturns, instVars,
      objVars, queueVars, sentVars, mainVars, connPc, netVars
<1>18. ASSUME HandlerRetries PROVE NoSecondTryInv'
  BY <1>18 DEF TypeOK, InstanceTypeOK, DataTypeOK, MainTypeOK, ConnTypeOK, PcTypeOK,
      NoSecondTryInv, RetryErrors, HandlerRetries, SendPrepared, instVars, objVars,
      queueVars, sentVars, mainVars, connPc, netVars
<1>19. ASSUME HandlerReinserted PROVE NoSecondTryInv'
  BY <1>19 DEF TypeOK, InstanceTypeOK, DataTypeOK, MainTypeOK, ConnTypeOK, PcTypeOK,
      NoSecondTryInv, RetryErrors, HandlerReinserted, PutHandlerBack, MainReturns, instVars,
      objVars, queueVars, sentVars, mainVars, connPc, netVars
<1>20. ASSUME NeedToResumeAndSend PROVE NoSecondTryInv'
  BY <1>1, <1>20 DEF NeedToResumeAndSend, instVars, objVars, queueVars, sentVars, mainVars,
      connPc, netVars
<1>21. ASSUME TryToSendNothing PROVE NoSecondTryInv'
  BY <1>1, <1>21 DEF TryToSendNothing, instVars, objVars, queueVars, sentVars, mainVars,
      connPc, netVars
<1>22. ASSUME TryToSendSingle PROVE NoSecondTryInv'
  BY <1>1, <1>22 DEF TryToSendSingle, ConnIdle, instVars, objVars, queueVars, sentVars,
      mainVars, connPc, netVars
<1>23. ASSUME SingleSent PROVE NoSecondTryInv'
  BY <1>23 DEF TypeOK, InstanceTypeOK, DataTypeOK, MainTypeOK, ConnTypeOK, PcTypeOK,
      NoSecondTryInv, RetryErrors, SingleSent, ConnReturns, instVars, objVars, queueVars,
      sentVars, mainVars, connPc, netVars
<1>24. ASSUME TryToSendContainer PROVE NoSecondTryInv'
  BY <1>1, <1>24 DEF TryToSendContainer, ConnIdle, ContainerIds, Contained, RequestAt,
      instVars, objVars, queueVars, sentVars, mainVars, connPc, netVars
<1>25. ASSUME OnPingSendForce PROVE NoSecondTryInv'
  BY <1>1, <1>25 DEF OnPingSendForce, instVars, objVars, queueVars, sentVars, mainVars,
      connPc, netVars
<1>26. ASSUME RpcResultStored PROVE NoSecondTryInv'
  BY <1>26 DEF TypeOK, InstanceTypeOK, DataTypeOK, MainTypeOK, ConnTypeOK, PcTypeOK,
      NoSecondTryInv, RetryErrors, RpcResultStored, ConnReturns, instVars, objVars,
      queueVars, sentVars, mainVars, connPc, netVars
<1>27. ASSUME NEW m \in MsgIds, AckMore(m) PROVE NoSecondTryInv'
  BY <1>1, <1>27 DEF AckMore, RequestsAcked, MovesToAcked, IsList, instVars, objVars,
      queueVars, sentVars, mainVars, connPc, netVars
<1>28. ASSUME AuthKeyCreated PROVE NoSecondTryInv'
  BY <1>1, <1>28 DEF AuthKeyCreated, instVars, objVars, queueVars, sentVars, mainVars,
      connPc, netVars
<1>29. ASSUME SaltReceived PROVE NoSecondTryInv'
  BY <1>1, <1>29 DEF SaltReceived, instVars, objVars, queueVars, sentVars, mainVars, connPc,
      netVars
<1>30. ASSUME DhGenOk PROVE NoSecondTryInv'
  BY <1>1, <1>30 DEF DhGenOk, ConnIdle, ClearSessionData, instVars, objVars, queueVars,
      sentVars, mainVars, connPc, netVars
<1>31. ASSUME NEW m \in MsgIds, NEW kind \in Answers, RpcResult(m, kind) PROVE NoSecondTryInv'
  BY <1>31 DEF TypeOK, InstanceTypeOK, DataTypeOK, MainTypeOK, ConnTypeOK, PcTypeOK,
      NoSecondTryInv, RetryErrors, RpcResult, Mishap, RequestsAcked, MovesToAcked, IsList,
      instVars, objVars, queueVars, sentVars, mainVars, connPc, netVars
<1>32. ASSUME NEW m \in MsgIds, MsgsAck(m) PROVE NoSecondTryInv'
  BY <1>1, <1>32 DEF MsgsAck, RequestsAcked, MovesToAcked, IsList, instVars, objVars,
      queueVars, sentVars, mainVars, connPc, netVars
<1>33. ASSUME NEW m \in MsgIds, MsgsStateInfo(m) PROVE NoSecondTryInv'
  BY <1>1, <1>33 DEF MsgsStateInfo, instVars, objVars, queueVars, sentVars, mainVars,
      connPc, netVars
<1>34. ASSUME NEW m \in MsgIds, BadMsgFatal(m) PROVE NoSecondTryInv'
  BY <1>1, <1>34 DEF BadMsgFatal, instVars, objVars, queueVars, sentVars, mainVars, connPc,
      netVars
<1>35. ASSUME NEW m \in MsgIds, ServerRepeats(m) PROVE NoSecondTryInv'
  BY <1>1, <1>35 DEF ServerRepeats, instVars, objVars, queueVars, sentVars, mainVars,
      connPc, netVars
<1>36. ASSUME NEW m \in MsgIds, NEW force \in BOOLEAN, ServerWantsResend(m, force)
       PROVE  NoSecondTryInv'
  BY <1>1, <1>36 DEF ServerWantsResend, instVars, objVars, queueVars, sentVars, mainVars,
      connPc, netVars
<1>37. ASSUME NewSessionCreated PROVE NoSecondTryInv'
  BY <1>1, <1>37 DEF NewSessionCreated, instVars, objVars, queueVars, sentVars, mainVars,
      connPc, netVars
<1>38. CASE UNCHANGED vars
  BY <1>1, <1>38 DEF vars, instVars, objVars, queueVars, sentVars, mainVars, callVars,
    wakeVars, connVars, connPc, netVars
<1> QED BY <1>1, <1>2, <1>3, <1>4, <1>5, <1>6, <1>7, <1>8, <1>9, <1>10, <1>11, <1>12,
    <1>13, <1>14, <1>15, <1>16, <1>17, <1>18, <1>19, <1>20, <1>21, <1>22, <1>23, <1>24,
    <1>25, <1>26, <1>27, <1>28, <1>29, <1>30, <1>31, <1>32, <1>33, <1>34, <1>35, <1>36,
    <1>37, <1>38 DEF Next, MainStep, ConnStep, Connects, ServerSends

\* Every step hands a request on: only sendRequest, of a request never sent
\* before, and resend, of what it took out of haveSent, fill toSend.
LEMMA OnceStep ==
  TypeOK /\ IdsInv /\ UsedInv /\ NoSecondTryInv /\ OnceInv /\ [Next]_vars => OnceInv'
<1> SUFFICES ASSUME TypeOK, IdsInv, UsedInv, NoSecondTryInv, OnceInv, [Next]_vars
             PROVE  OnceInv'
  OBVIOUS
<1> USE SessionAssumption DEF SessionAssumption
<1>1. ASSUME UNCHANGED <<msgIdOf, haveSent, toSend, msDateZero, mainAt, mainReq, connAt, connReq>>
      PROVE  OnceInv'
  BY <1>1 DEF OnceInv
<1>2. ASSUME NEW r \in Requests, SendRequest(r) PROVE OnceInv'
  BY <1>2 DEF TypeOK, InstanceTypeOK, DataTypeOK, MainTypeOK, ConnTypeOK, PcTypeOK, OnceInv,
      IdsInv, MsgIdsMatch, UsedInv, Used, NoSecondTryInv, RetryErrors, SendRequest,
      MainIdle, SendPrepared, instVars, objVars, queueVars, sentVars, mainVars, connPc,
      netVars
<1>3. ASSUME NEW r \in Requests, Cancel(r) PROVE OnceInv'
  BY <1>3 DEF TypeOK, InstanceTypeOK, DataTypeOK, MainTypeOK, ConnTypeOK, PcTypeOK, OnceInv,
      IdsInv, MsgIdsMatch, UsedInv, Used, NoSecondTryInv, RetryErrors, Cancel, MainIdle,
      instVars, objVars, queueVars, sentVars, mainVars, connPc, netVars
<1>4. ASSUME CheckRequestsByTimer PROVE OnceInv'
  BY <1>4 DEF TypeOK, InstanceTypeOK, DataTypeOK, MainTypeOK, ConnTypeOK, PcTypeOK, OnceInv,
      IdsInv, MsgIdsMatch, UsedInv, Used, NoSecondTryInv, RetryErrors, CheckRequestsByTimer,
      MainIdle, Mishap, instVars, objVars, queueVars, sentVars, mainVars, connPc, netVars
<1>5. ASSUME Ping PROVE OnceInv'
  BY <1>1, <1>5 DEF Ping, instVars, objVars, queueVars, sentVars, mainVars, connPc, netVars
<1>6. ASSUME Stop PROVE OnceInv'
  BY <1>1, <1>6 DEF Stop, instVars, objVars, queueVars, sentVars, mainVars, connPc, netVars
<1>7. ASSUME Restart PROVE OnceInv'
  BY <1>1, <1>7 DEF Restart, instVars, objVars, queueVars, sentVars, mainVars, connPc,
      netVars
<1>8. ASSUME RpcResultUnreadable PROVE OnceInv'
  BY <1>8 DEF TypeOK, InstanceTypeOK, DataTypeOK, MainTypeOK, ConnTypeOK, PcTypeOK, OnceInv,
      IdsInv, MsgIdsMatch, UsedInv, Used, NoSecondTryInv, RetryErrors, RpcResultUnreadable,
      Mishap, ConnReturns, instVars, objVars, queueVars, sentVars, mainVars, connPc, netVars
<1>9. ASSUME NEW r \in Requests, ExecCallback(r) PROVE OnceInv'
  BY <1>9 DEF TypeOK, InstanceTypeOK, DataTypeOK, MainTypeOK, ConnTypeOK, PcTypeOK, OnceInv,
      IdsInv, MsgIdsMatch, UsedInv, Used, NoSecondTryInv, RetryErrors, ExecCallback,
      MainIdle, instVars, objVars, queueVars, sentVars, mainVars, connPc, netVars
<1>10. ASSUME NEW r \in Requests, CheckDelayed(r) PROVE OnceInv'
  BY <1>10 DEF TypeOK, InstanceTypeOK, DataTypeOK, MainTypeOK, ConnTypeOK, PcTypeOK,
      OnceInv, IdsInv, MsgIdsMatch, UsedInv, Used, NoSecondTryInv, RetryErrors,
      CheckDelayed, MainIdle, SendPrepared, instVars, objVars, queueVars, sentVars,
      mainVars, connPc, netVars
<1>11. ASSUME NEW r \in Requests, NEW code \in {"silent", "error"}, ClearCallbacks(r, code)
       PROVE  OnceInv'
  BY <1>1, <1>11 DEF ClearCallbacks, MainIdle, OutcomeIfFound, instVars, objVars, queueVars,
      sentVars, mainVars, connPc, netVars
<1>12. ASSUME NEW m \in MsgIds, NEW force \in BOOLEAN, Resend(m, force) PROVE OnceInv'
  BY <1>12 DEF TypeOK, InstanceTypeOK, DataTypeOK, MainTypeOK, ConnTypeOK, PcTypeOK,
      OnceInv, IdsInv, MsgIdsMatch, UsedInv, Used, NoSecondTryInv, RetryErrors, Resend,
      MainIdle, TakeFromHaveSent, instVars, objVars, queueVars, sentVars, mainVars, connPc,
      netVars
<1>13. ASSUME ResendPrepared PROVE OnceInv'
  BY <1>13 DEF TypeOK, InstanceTypeOK, DataTypeOK, MainTypeOK, ConnTypeOK, PcTypeOK,
      OnceInv, IdsInv, MsgIdsMatch, UsedInv, Used, NoSecondTryInv, RetryErrors,
      ResendPrepared, SendPrepared, instVars, objVars, queueVars, sentVars, mainVars,
      connPc, netVars
<1>14. ASSUME ResendRecorded PROVE OnceInv'
  BY <1>14 DEF TypeOK, InstanceTypeOK, DataTypeOK, MainTypeOK, ConnTypeOK, PcTypeOK,
      OnceInv, IdsInv, MsgIdsMatch, UsedInv, Used, NoSecondTryInv, RetryErrors,
      ResendRecorded, MainReturns, instVars, objVars, queueVars, sentVars, mainVars, connPc,
      netVars
<1>15. ASSUME ResendAll PROVE OnceInv'
  BY <1>1, <1>15 DEF ResendAll, instVars, objVars, queueVars, sentVars, mainVars, connPc,
      netVars
<1>16. ASSUME HandlerCompletes PROVE OnceInv'
  BY <1>16 DEF TypeOK, InstanceTypeOK, DataTypeOK, MainTypeOK, ConnTypeOK, PcTypeOK,
      OnceInv, IdsInv, MsgIdsMatch, UsedInv, Used, NoSecondTryInv, RetryErrors,
      HandlerCompletes, MainReturns, instVars, objVars, queueVars, sentVars, mainVars,
      connPc, netVars
<1>17. ASSUME HandlerDelays PROVE OnceInv'
  BY <1>17 DEF TypeOK, InstanceTypeOK, DataTypeOK, MainTypeOK, ConnTypeOK, PcTypeOK,
      OnceInv, IdsInv, MsgIdsMatch, UsedInv, Used, NoSecondTryInv, RetryErrors,
      HandlerDelays, PutHandlerBack, MainReturns, instVars, objVars, queueVars, sentVars,
      mainVars, connPc, netVars
<1>18. ASSUME HandlerRetries PROVE OnceInv'
  BY <1>18 DEF TypeOK, InstanceTypeOK, DataTypeOK, MainTypeOK, ConnTypeOK, PcTypeOK,
      OnceInv, IdsInv, MsgIdsMatch, UsedInv, Used, NoSecondTryInv, RetryErrors,
      HandlerRetries, SendPrepared, instVars, objVars, queueVars, sentVars, mainVars,
      connPc, netVars
<1>19. ASSUME HandlerReinserted PROVE OnceInv'
  BY <1>19 DEF TypeOK, InstanceTypeOK, DataTypeOK, MainTypeOK, ConnTypeOK, PcTypeOK,
      OnceInv, IdsInv, MsgIdsMatch, UsedInv, Used, NoSecondTryInv, RetryErrors,
      HandlerReinserted, PutHandlerBack, MainReturns, instVars, objVars, queueVars,
      sentVars, mainVars, connPc, netVars
<1>20. ASSUME NeedToResumeAndSend PROVE OnceInv'
  BY <1>1, <1>20 DEF NeedToResumeAndSend, instVars, objVars, queueVars, sentVars, mainVars,
      connPc, netVars
<1>21. ASSUME TryToSendNothing PROVE OnceInv'
  BY <1>1, <1>21 DEF TryToSendNothing, instVars, objVars, queueVars, sentVars, mainVars,
      connPc, netVars
<1>22. ASSUME TryToSendSingle PROVE OnceInv'
  BY <1>22 DEF TypeOK, InstanceTypeOK, DataTypeOK, MainTypeOK, ConnTypeOK, PcTypeOK,
      OnceInv, IdsInv, MsgIdsMatch, UsedInv, Used, NoSecondTryInv, RetryErrors,
      TryToSendSingle, ConnIdle, instVars, objVars, queueVars, sentVars, mainVars, connPc,
      netVars
<1>23. ASSUME SingleSent PROVE OnceInv'
  BY <1>23 DEF TypeOK, InstanceTypeOK, DataTypeOK, MainTypeOK, ConnTypeOK, PcTypeOK,
      OnceInv, IdsInv, MsgIdsMatch, UsedInv, Used, NoSecondTryInv, RetryErrors, SingleSent,
      ConnReturns, Prepared, FreshId, instVars, objVars, queueVars, sentVars, mainVars,
      connPc, netVars
<1>24. ASSUME TryToSendContainer PROVE OnceInv'
  BY <1>24 DEF TypeOK, InstanceTypeOK, DataTypeOK, MainTypeOK, ConnTypeOK, PcTypeOK,
      OnceInv, IdsInv, MsgIdsMatch, UsedInv, Used, NoSecondTryInv, RetryErrors,
      TryToSendContainer, ConnIdle, ContainerIds, Contained, RequestAt, Prepared, FreshId,
      instVars, objVars, queueVars, sentVars, mainVars, connPc, netVars
<1>25. ASSUME OnPingSendForce PROVE OnceInv'
  BY <1>1, <1>25 DEF OnPingSendForce, instVars, objVars, queueVars, sentVars, mainVars,
      connPc, netVars
<1>26. ASSUME RpcResultStored PROVE OnceInv'
  BY <1>26 DEF TypeOK, InstanceTypeOK, DataTypeOK, MainTypeOK, ConnTypeOK, PcTypeOK,
      OnceInv, IdsInv, MsgIdsMatch, UsedInv, Used, NoSecondTryInv, RetryErrors,
      RpcResultStored, ConnReturns, instVars, objVars, queueVars, sentVars, mainVars,
      connPc, netVars
<1>27. ASSUME NEW m \in MsgIds, AckMore(m) PROVE OnceInv'
  BY <1>27 DEF TypeOK, InstanceTypeOK, DataTypeOK, MainTypeOK, ConnTypeOK, PcTypeOK,
      OnceInv, IdsInv, MsgIdsMatch, UsedInv, Used, NoSecondTryInv, RetryErrors, AckMore,
      RequestsAcked, MovesToAcked, IsList, EnterAcked, EvictedRequest, instVars, objVars,
      queueVars, sentVars, mainVars, connPc, netVars
<1>28. ASSUME AuthKeyCreated PROVE OnceInv'
  BY <1>1, <1>28 DEF AuthKeyCreated, instVars, objVars, queueVars, sentVars, mainVars,
      connPc, netVars
<1>29. ASSUME SaltReceived PROVE OnceInv'
  BY <1>1, <1>29 DEF SaltReceived, instVars, objVars, queueVars, sentVars, mainVars, connPc,
      netVars
<1>30. ASSUME DhGenOk PROVE OnceInv'
  BY <1>30 DEF TypeOK, InstanceTypeOK, DataTypeOK, MainTypeOK, ConnTypeOK, PcTypeOK,
      OnceInv, IdsInv, MsgIdsMatch, UsedInv, Used, NoSecondTryInv, RetryErrors, DhGenOk,
      ConnIdle, ClearSessionData, instVars, objVars, queueVars, sentVars, mainVars, connPc,
      netVars
<1>31. ASSUME NEW m \in MsgIds, NEW kind \in Answers, RpcResult(m, kind) PROVE OnceInv'
  BY <1>31 DEF TypeOK, InstanceTypeOK, DataTypeOK, MainTypeOK, ConnTypeOK, PcTypeOK,
      OnceInv, IdsInv, MsgIdsMatch, UsedInv, Used, NoSecondTryInv, RetryErrors, RpcResult,
      Mishap, RequestsAcked, MovesToAcked, IsList, EnterAcked, EvictedRequest, instVars,
      objVars, queueVars, sentVars, mainVars, connPc, netVars
<1>32. ASSUME NEW m \in MsgIds, MsgsAck(m) PROVE OnceInv'
  BY <1>32 DEF TypeOK, InstanceTypeOK, DataTypeOK, MainTypeOK, ConnTypeOK, PcTypeOK,
      OnceInv, IdsInv, MsgIdsMatch, UsedInv, Used, NoSecondTryInv, RetryErrors, MsgsAck,
      RequestsAcked, MovesToAcked, IsList, EnterAcked, EvictedRequest, instVars, objVars,
      queueVars, sentVars, mainVars, connPc, netVars
<1>33. ASSUME NEW m \in MsgIds, MsgsStateInfo(m) PROVE OnceInv'
  BY <1>33 DEF OnceInv, MsgsStateInfo, Receiving, ConnIdle, instVars, objVars, queueVars,
      sentVars, mainVars, connPc, netVars
<1>34. ASSUME NEW m \in MsgIds, BadMsgFatal(m) PROVE OnceInv'
  BY <1>1, <1>34 DEF BadMsgFatal, instVars, objVars, queueVars, sentVars, mainVars, connPc,
      netVars
<1>35. ASSUME NEW m \in MsgIds, ServerRepeats(m) PROVE OnceInv'
  BY <1>1, <1>35 DEF ServerRepeats, instVars, objVars, queueVars, sentVars, mainVars,
      connPc, netVars
<1>36. ASSUME NEW m \in MsgIds, NEW force \in BOOLEAN, ServerWantsResend(m, force)
       PROVE  OnceInv'
  BY <1>1, <1>36 DEF ServerWantsResend, instVars, objVars, queueVars, sentVars, mainVars,
      connPc, netVars
<1>37. ASSUME NewSessionCreated PROVE OnceInv'
  BY <1>1, <1>37 DEF NewSessionCreated, instVars, objVars, queueVars, sentVars, mainVars,
      connPc, netVars
<1>38. CASE UNCHANGED vars
  BY <1>1, <1>38 DEF vars, instVars, objVars, queueVars, sentVars, mainVars, callVars,
    wakeVars, connVars, connPc, netVars
<1> QED BY <1>1, <1>2, <1>3, <1>4, <1>5, <1>6, <1>7, <1>8, <1>9, <1>10, <1>11, <1>12,
    <1>13, <1>14, <1>15, <1>16, <1>17, <1>18, <1>19, <1>20, <1>21, <1>22, <1>23, <1>24,
    <1>25, <1>26, <1>27, <1>28, <1>29, <1>30, <1>31, <1>32, <1>33, <1>34, <1>35, <1>36,
    <1>37, <1>38 DEF Next, MainStep, ConnStep, Connects, ServerSends

\* While no request is sent again by onErrorDefault, a request is under one
\* message id at a time, in toSend only when it is not sent, and with its msDate
\* when it is: resend, tryToSend, requestsAcked, cancel and clear hand it on.
THEOREM SentUnderOneId ==
  ASSUME RetryErrors \cap Mishaps = {}
  PROVE  Spec => []SentOnce
<1>1. Init => IdsInv /\ UsedInv /\ NoSecondTryInv /\ OnceInv
  BY SessionAssumption DEF Init, IdsInv, MsgIdsMatch, UsedInv, Used, NoSecondTryInv, OnceInv,
     RetryErrors, SessionAssumption
<1>2. TypeOK /\ IdsInv /\ UsedInv /\ NoSecondTryInv /\ OnceInv /\ [Next]_vars
        => IdsInv' /\ UsedInv' /\ NoSecondTryInv' /\ OnceInv'
  BY IdsStep, UsedStep, NoSecondTryStep, OnceStep
<1>3. TypeOK /\ OnceInv => SentOnce
  BY SessionAssumption DEF TypeOK, DataTypeOK, OnceInv, SentOnce, SessionAssumption
<1> QED BY <1>1, <1>2, <1>3, TypeCorrect, PTL DEF Spec
=============================================================================
