------------------------------ MODULE MtpSession ------------------------------
(***************************************************************************)
(* One MTProto session: how an API request travels from the main thread to *)
(* the server and how its answer finds the way back to its handler.        *)
(*                                                                         *)
(* Two threads of the client share the maps of SessionData, each map under *)
(* a lock of its own:                                                      *)
(*   - the main thread runs Instance::Private and Session (mtp_instance.cpp,*)
(*     session.cpp): it registers, resends, cancels and completes requests; *)
(*   - the connection thread runs ConnectionPrivate (connection.cpp): it   *)
(*     fills the packets, and handles what the server sends.               *)
(* One action is one critical section (or several, where no other thread   *)
(* can tell the difference); mainAt and connAt are the places between two  *)
(* critical sections of one handler where the other thread may interleave. *)
(* Queued signals and crl::on_main calls are the sets of pending calls     *)
(* resendCalls, clearCalls and the flags resendAllCall, resumeCall,        *)
(* needToSend and needToPing.  Network and server are external: the server *)
(* may answer, acknowledge or reject any message it has received, at any   *)
(* moment.                                                                 *)
(***************************************************************************)
EXTENDS Naturals, FiniteSets

CONSTANTS
    Requests,       \* mtpRequestId of the API requests
    WithHandler,    \* the requests sent with an onDone or onFail handler
    FirstRequest,   \* the request whose id is 1, or NoRequest
    MsgIds,         \* mtpMsgId values (see FreshId)
    AckedLimit,     \* kIdsBufferSize
    Mishaps,        \* what may go wrong
    MaxMishaps,     \* how often, altogether
    NoRequest, Container, StateRequest, NoMsg

ASSUME SessionAssumption ==
    /\ WithHandler \subseteq Requests
    /\ FirstRequest \in Requests \cup {NoRequest}
    /\ {NoRequest, Container, StateRequest} \cap Requests = {}
    /\ NoRequest # Container /\ NoRequest # StateRequest /\ Container # StateRequest
    /\ NoMsg \notin MsgIds
    /\ AckedLimit \in Nat \ {0}
    /\ Mishaps \subseteq {"flood", "notInited", "late", "resend", "fatal", "newSession",
                          "repeat", "ungzip", "restart", "reset", "keyLost", "stop", "ping"}
    /\ MaxMishaps \in Nat

VARIABLES
    \* Instance::Private
    parserMap,      \* _parserMap: the requests whose handlers are waiting
    requestMap,     \* _requestMap and _requestsByDc
    delayed,        \* _delayedRequests
    outcome,        \* history: what became of the request
    \* SecureRequest objects, shared by the maps that hold them
    msgIdOf,        \* the message id written in the request, NoMsg if 0
    msDateZero,     \* the requests with msDate = 0 (to be put in a container)
    \* SessionData
    toSend,         \* _toSend
    stateRequest,   \* _stateRequest
    haveSent,       \* _haveSent: a request, a container or a state request
    inner,          \* the ids listed by a container or a state request
    toResend,       \* _toResend
    wereAcked,      \* _wereAcked
    responses,      \* _receivedResponses
    \* the main thread and its event queue
    mainAt, mainMsg, mainReq, mainKind,
    resendCalls,    \* queued resendAsync and resendManyAsync calls
    resendAllCall,  \* a queued resendAllAsync call
    clearCalls,     \* queued clearCallbacksDelayed calls
    sender,         \* Session::sender, the timer, is armed
    resumeCall,     \* a queued needToSendAsync call
    \* the connection thread
    connState,      \* "none": no Connection; "ready": key known, salt not
    restarted, saltKnown, hasKey,
    needToSend, needToPing,     \* queued signals
    connAt, connMsg, connReq, connKind, ackMore,
    \* the network and the server (external)
    server,         \* the messages the server may still react to
    carried,        \* history: the request a message id was given to
    mishaps         \* number of mishaps so far

instVars  == <<parserMap, requestMap, delayed, outcome>>
objVars   == <<msgIdOf, msDateZero>>
queueVars == <<toSend, stateRequest>>
sentVars  == <<haveSent, inner>>
mainVars  == <<mainAt, mainMsg, mainReq, mainKind>>
callVars  == <<resendCalls, resendAllCall, clearCalls>>
wakeVars  == <<sender, resumeCall, needToSend, needToPing>>
connVars  == <<connState, restarted, saltKnown, hasKey>>
connPc    == <<connAt, connMsg, connReq, connKind, ackMore>>
netVars   == <<server, carried, mishaps>>
vars == <<instVars, objVars, queueVars, sentVars, toResend, wereAcked, responses,
          mainVars, callVars, wakeVars, connVars, connPc, netVars>>

\* An answer is a result, a final rpc error, or one onErrorDefault handles.
RetryErrors == {"flood", "notInited"}
Answers == {"done", "error"} \cup RetryErrors
Kinds == Answers \cup {"none"}
Outcomes == {"unused", "pending", "done", "failed", "cancelled", "dropped"}

\* The types of the variables above.
InstanceTypeOK ==
    /\ parserMap \subseteq Requests /\ requestMap \subseteq Requests
    /\ delayed \subseteq Requests
    /\ outcome \in [Requests -> Outcomes]
DataTypeOK ==
    /\ msgIdOf \in [Requests -> MsgIds \cup {NoMsg}]
    /\ msDateZero \subseteq Requests
    /\ toSend \subseteq Requests
    /\ stateRequest \subseteq MsgIds
    /\ haveSent \in [MsgIds -> Requests \cup {NoRequest, Container, StateRequest}]
    /\ inner \in [MsgIds -> SUBSET MsgIds]
    /\ toResend \in [MsgIds -> Requests \cup {NoRequest}]
    /\ wereAcked \in [MsgIds -> Requests \cup {NoRequest}]
    /\ responses \in [Requests -> Kinds]
MainTypeOK ==
    /\ mainAt \in {"idle", "erased", "queued", "handler", "reinsert"}
    /\ mainMsg \in MsgIds \cup {NoMsg}
    /\ mainReq \in Requests \cup {NoRequest}
    /\ mainKind \in Kinds \cup {"force"}
    /\ resendCalls \subseteq MsgIds \X BOOLEAN
    /\ resendAllCall \in BOOLEAN
    /\ clearCalls \subseteq Requests \X {"silent", "error"}
    /\ sender \in BOOLEAN /\ resumeCall \in BOOLEAN
ConnTypeOK ==
    /\ connState \in {"none", "connecting", "ready", "connected"}
    /\ restarted \in BOOLEAN /\ saltKnown \in BOOLEAN /\ hasKey \in BOOLEAN
    /\ needToSend \in BOOLEAN /\ needToPing \in BOOLEAN
    /\ connAt \in {"idle", "sending", "answer", "ackMore"}
    /\ connMsg \in MsgIds \cup {NoMsg}
    /\ connReq \in Requests \cup {NoRequest}
    /\ connKind \in Kinds
    /\ ackMore \subseteq MsgIds
    /\ server \subseteq MsgIds
    /\ carried \in [MsgIds -> Requests \cup {NoRequest}]
    /\ mishaps \in 0..MaxMishaps
\* mainReq names a request wherever the main thread uses it, and connReq too.
PcTypeOK ==
    /\ mainAt # "idle" => mainReq \in Requests
    /\ mainAt \in {"erased", "queued"} => mainMsg \in MsgIds
    /\ connAt = "sending" => connReq \in Requests
    /\ connAt = "answer" => connMsg \in MsgIds /\ connKind \in Answers
TypeOK == InstanceTypeOK /\ DataTypeOK /\ MainTypeOK /\ ConnTypeOK /\ PcTypeOK

-----------------------------------------------------------------------------
(* Helpers. *)

\* msgid() returns an id never used before.  An id nobody refers to any more
\* is as good as a new one, which keeps a finite MsgIds from running out.
FreshId(m) ==
    /\ haveSent[m] = NoRequest /\ toResend[m] = NoRequest
    /\ wereAcked[m] = NoRequest
    /\ m \notin server \cup stateRequest \cup ackMore \cup {mainMsg, connMsg}
    /\ m \notin {msgIdOf[r] : r \in Requests}
    /\ \A f \in BOOLEAN : <<m, f>> \notin resendCalls
    /\ \A c \in MsgIds : haveSent[c] \in {Container, StateRequest} => m \notin inner[c]

\* Instance::Private::hasCallbacks.
HasCallbacks(r) == r \in parserMap

\* ConnectionPrivate::wasSent: haveSent, then toResend, then wereAcked.
WasSent(m) ==
    IF haveSent[m] # NoRequest THEN haveSent[m]
    ELSE IF toResend[m] # NoRequest THEN toResend[m] ELSE wereAcked[m]

\* A mishap of the given kind happens.
Mishap(kind) ==
    /\ kind \in Mishaps
    /\ mishaps < MaxMishaps
    /\ mishaps' = mishaps + 1

MainIdle == mainAt = "idle"
ConnIdle == connAt = "idle"
Receiving == connState = "connected" /\ ConnIdle

\* Session::sendPrepared(request, msCanWait, newRequest): put the request in
\* toSend, forget its message id if it is a new one, and arm the sender.
SendPrepared(r, newRequest) ==
    /\ toSend' = toSend \cup {r}
    /\ msgIdOf' = IF newRequest THEN [msgIdOf EXCEPT ![r] = NoMsg] ELSE msgIdOf
    /\ sender' = TRUE

MainReturns ==
    mainAt' = "idle" /\ mainMsg' = NoMsg /\ mainReq' = NoRequest /\ mainKind' = "none"

ConnReturns ==
    connAt' = "idle" /\ connMsg' = NoMsg /\ connReq' = NoRequest
        /\ connKind' = "none" /\ ackMore' = {}

-----------------------------------------------------------------------------
(* Main thread: Instance::Private and Session. *)

\* Instance::Private::sendRequest.
SendRequest(r) ==
    /\ MainIdle
    /\ outcome[r] = "unused"
    /\ outcome' = [outcome EXCEPT ![r] = "pending"]
    /\ parserMap' = IF r \in WithHandler THEN parserMap \cup {r} ELSE parserMap
    /\ requestMap' = requestMap \cup {r}
    /\ msDateZero' = msDateZero \ {r}
    /\ SendPrepared(r, TRUE)
    /\ UNCHANGED <<delayed, stateRequest, sentVars, toResend, wereAcked, responses, mainVars,
                   callVars, resumeCall, needToSend, needToPing, connVars, connPc, netVars>>

\* Instance::Private::cancel with Session::cancel.
Cancel(r) ==
    /\ MainIdle
    /\ outcome[r] = "pending"
    /\ outcome' = [outcome EXCEPT ![r] = "cancelled"]
    /\ parserMap' = parserMap \ {r}
    /\ requestMap' = requestMap \ {r}
    /\ toSend' = toSend \ {r}
    /\ haveSent' = [m \in MsgIds |->
           IF r \in requestMap /\ msgIdOf[r] = m THEN NoRequest ELSE haveSent[m]]
    /\ UNCHANGED <<delayed, objVars, stateRequest, inner, toResend, wereAcked, responses,
                   mainVars, callVars, wakeVars, connVars, connPc, netVars>>

\* haveSent.erase(i); variant: the entry is only read.
ReadFromHaveSent(m) == UNCHANGED haveSent
TakeFromHaveSent(m) == haveSent' = [haveSent EXCEPT ![m] = NoRequest]

\* Session::resend, first critical section: take the message out of haveSent.
\* A container stands for the messages in it; a state request is dropped.
Resend(m, force) ==
    /\ MainIdle
    /\ <<m, force>> \in resendCalls
    /\ TakeFromHaveSent(m)
    /\ resendCalls' = (resendCalls \ {<<m, force>>}) \cup
           (IF haveSent[m] = Container THEN inner[m] \X {TRUE} ELSE {})
    /\ IF haveSent[m] \in Requests
       THEN /\ mainAt' = "erased" /\ mainMsg' = m /\ mainReq' = haveSent[m]
            /\ mainKind' = IF force THEN "force" ELSE "none"
       ELSE UNCHANGED mainVars
    /\ UNCHANGED <<instVars, objVars, queueVars, inner, toResend, wereAcked, responses,
                   resendAllCall, clearCalls, wakeVars, connVars, connPc, netVars>>

\* Session::resend, second: msDate, and sendPrepared with the old message id.
ResendPrepared ==
    /\ mainAt = "erased"
    /\ mainAt' = "queued"
    /\ msDateZero' = IF mainKind = "force" THEN msDateZero \cup {mainReq}
                                           ELSE msDateZero \ {mainReq}
    /\ SendPrepared(mainReq, FALSE)
    /\ UNCHANGED <<instVars, stateRequest, sentVars, toResend, wereAcked, responses,
                   mainMsg, mainReq, mainKind, callVars, resumeCall, needToSend,
                   needToPing, connVars, connPc, netVars>>

\* Session::resend, third: only now is the message id entered in toResend.
ResendRecorded ==
    /\ mainAt = "queued"
    /\ toResend' = [toResend EXCEPT ![mainMsg] = mainReq]
    /\ MainReturns
    /\ UNCHANGED <<instVars, objVars, queueVars, sentVars, wereAcked, responses,
                   callVars, wakeVars, connVars, connPc, netVars>>

\* Session::resendAll: every request in haveSent, containers excepted.
ResendAll ==
    /\ MainIdle
    /\ resendAllCall
    /\ resendAllCall' = FALSE
    /\ resendCalls' = resendCalls \cup
           ({m \in MsgIds : haveSent[m] \in Requests \cup {StateRequest}} \X {TRUE})
    /\ UNCHANGED <<instVars, objVars, queueVars, sentVars, toResend, wereAcked, responses,
                   mainVars, clearCalls, wakeVars, connVars, connPc, netVars>>

\* Session::checkRequestsByTimer: ask for the state of requests sent more than
\* kCheckResendTimeout ago; what has msDate 0 and is more than kContainerLives
\* old is forgotten, with the callbacks of its request.
CheckRequestsByTimer ==
    /\ MainIdle
    /\ Mishap("late")
    /\ \E late \in SUBSET {m \in MsgIds : haveSent[m] \in Requests \ msDateZero},
          old  \in SUBSET {m \in MsgIds : haveSent[m] \in {Container, StateRequest} \cup msDateZero} :
        /\ late \cup old # {}
        /\ stateRequest' = stateRequest \cup late
        /\ sender' = (sender \/ late # {})
        /\ haveSent' = [m \in MsgIds |-> IF m \in old THEN NoRequest ELSE haveSent[m]]
        /\ clearCalls' = clearCalls \cup
               ({r \in Requests : \E m \in old : haveSent[m] = r} \X {"silent"})
    /\ UNCHANGED <<instVars, objVars, toSend, inner, toResend, wereAcked, responses, mainVars,
                   resendCalls, resendAllCall, resumeCall, needToSend, needToPing, connVars,
                   connPc, server, carried>>

\* Session::tryToReceive and Instance::Private::execCallback: pop a response
\* and take its handler out of parserMap.
ExecCallback(r) ==
    /\ MainIdle
    /\ responses[r] # "none"
    /\ responses' = [responses EXCEPT ![r] = "none"]
    /\ \/ /\ r \in parserMap
          /\ parserMap' = parserMap \ {r}
          /\ mainAt' = "handler" /\ mainReq' = r /\ mainKind' = responses[r]
          /\ UNCHANGED <<requestMap, outcome, mainMsg>>
       \/ /\ r \notin parserMap
          /\ requestMap' = requestMap \ {r}
          /\ outcome' = IF outcome[r] = "pending" THEN [outcome EXCEPT ![r] = "done"]
                                                  ELSE outcome
          /\ UNCHANGED <<parserMap, mainVars>>
    /\ UNCHANGED <<delayed, objVars, queueVars, sentVars, toResend, wereAcked, callVars,
                   wakeVars, connVars, connPc, netVars>>

\* execCallback: onDone was called, or onFail took the error.
HandlerCompletes ==
    /\ mainAt = "handler"
    /\ mainKind \in {"done", "error"}
    /\ outcome' = [outcome EXCEPT ![mainReq] =
                       IF mainKind = "done" THEN "done" ELSE "failed"]
    /\ requestMap' = requestMap \ {mainReq}
    /\ MainReturns
    /\ UNCHANGED <<parserMap, delayed, objVars, queueVars, sentVars, toResend, wereAcked,
                   responses, callVars, wakeVars, connVars, connPc, netVars>>

\* execCallback: "_parserMap.emplace(requestId, h)"; variant: forgotten.
DropHandler(r) == UNCHANGED parserMap
PutHandlerBack(r) == parserMap' = parserMap \cup {r}

\* execCallback: onErrorDefault schedules the request for a later try (code
\* below 0, 500 and above, FLOOD_WAIT_X) and the handler goes back.
HandlerDelays ==
    /\ mainAt = "handler"
    /\ mainKind = "flood"
    /\ delayed' = delayed \cup {mainReq}
    /\ PutHandlerBack(mainReq)
    /\ MainReturns
    /\ UNCHANGED <<requestMap, outcome, objVars, queueVars, sentVars, toResend, wereAcked,
                   responses, callVars, wakeVars, connVars, connPc, netVars>>

\* onErrorDefault for CONNECTION_NOT_INITED: sendPrepared at once, from inside
\* the error handling, while the handler is still out of parserMap.
HandlerRetries ==
    /\ mainAt = "handler"
    /\ mainKind = "notInited"
    /\ mainAt' = "reinsert"
    /\ SendPrepared(mainReq, TRUE)
    /\ UNCHANGED <<instVars, msDateZero, stateRequest, sentVars, toResend, wereAcked,
                   responses, mainMsg, mainReq, mainKind, callVars, resumeCall,
                   needToSend, needToPing, connVars, connPc, netVars>>

\* execCallback: rpcErrorOccured returned false, _parserMap.emplace.
HandlerReinserted ==
    /\ mainAt = "reinsert"
    /\ PutHandlerBack(mainReq)
    /\ MainReturns
    /\ UNCHANGED <<requestMap, delayed, outcome, objVars, queueVars, sentVars, toResend,
                   wereAcked, responses, callVars, wakeVars, connVars, connPc, netVars>>

\* Instance::Private::checkDelayedRequests, for a request whose time has come.
CheckDelayed(r) ==
    /\ MainIdle
    /\ r \in delayed
    /\ delayed' = delayed \ {r}
    /\ IF r \in requestMap THEN SendPrepared(r, TRUE)
                           ELSE UNCHANGED <<toSend, msgIdOf, sender>>
    /\ UNCHANGED <<parserMap, requestMap, outcome, msDateZero, stateRequest, sentVars,
                   toResend, wereAcked, responses, mainVars, callVars, resumeCall,
                   needToSend, needToPing, connVars, connPc, netVars>>

\* clearCallbacks, "errorCode && found"; variant: whether it was found or not.
OutcomeCleared(r, code) ==
    [outcome EXCEPT ![r] = IF code = "error" THEN "failed" ELSE "dropped"]
OutcomeIfFound(r, code) ==
    IF r \in parserMap
    THEN [outcome EXCEPT ![r] = IF code = "error" THEN "failed" ELSE "dropped"]
    ELSE outcome

\* Instance::Private::clearCallbacks, queued by clearCallbacksDelayed: with an
\* error code the handler hears of it, without one it is forgotten.
ClearCallbacks(r, code) ==
    /\ MainIdle
    /\ <<r, code>> \in clearCalls
    /\ clearCalls' = clearCalls \ {<<r, code>>}
    /\ parserMap' = parserMap \ {r}
    /\ requestMap' = requestMap \ {r}
    /\ outcome' = OutcomeIfFound(r, code)
    /\ UNCHANGED <<delayed, objVars, queueVars, sentVars, toResend, wereAcked, responses,
                   mainVars, resendCalls, resendAllCall, wakeVars, connVars, connPc, netVars>>

\* Session::needToResumeAndSend: from the timer, or inside sendAnything, that
\* is possibly in the middle of resend or of an error handler, or queued.
NeedToResumeAndSend ==
    /\ \/ mainAt \in {"idle", "queued", "reinsert"}
          /\ sender /\ sender' = FALSE /\ UNCHANGED resumeCall
       \/ MainIdle /\ resumeCall /\ resumeCall' = FALSE /\ UNCHANGED sender
    /\ needToSend' = TRUE
    /\ connState' = IF connState = "none" THEN "connecting" ELSE connState
    /\ UNCHANGED <<instVars, objVars, queueVars, sentVars, toResend, wereAcked, responses,
                   mainVars, callVars, needToPing, restarted, saltKnown, hasKey, connPc,
                   netVars>>

\* Session::ping: sendAnything(0) cancels the timer, needToResumeAndSend emits
\* needToPing in place of needToSend.
Ping ==
    /\ MainIdle
    /\ Mishap("ping")
    /\ sender' = FALSE
    /\ needToPing' = TRUE
    /\ connState' = IF connState = "none" THEN "connecting" ELSE connState
    /\ UNCHANGED <<instVars, objVars, queueVars, sentVars, toResend, wereAcked, responses,
                   mainVars, callVars, resumeCall, needToSend, restarted, saltKnown, hasKey,
                   connPc, server, carried>>

\* Session::stop: ConnectionPrivate::stop waits for the handler that runs, the
\* connection thread ends, with the signals queued for it.
Stop ==
    /\ MainIdle /\ ConnIdle
    /\ Mishap("stop")
    /\ connState # "none"
    /\ connState' = "none" /\ restarted' = FALSE
    /\ needToSend' = FALSE /\ needToPing' = FALSE
    /\ server' \in SUBSET server
    /\ UNCHANGED <<instVars, objVars, queueVars, sentVars, toResend, wereAcked, responses,
                   mainVars, callVars, sender, resumeCall, saltKnown, hasKey, connPc,
                   carried>>

-----------------------------------------------------------------------------
(* Connection thread: sending. *)

\* tryToSend with nothing to send, or before the connection is established.
TryToSendNothing ==
    /\ ConnIdle
    /\ needToSend /\ needToSend' = FALSE
    /\ connState # "none"
    /\ connState = "connected" => toSend = {} /\ stateRequest = {}
    /\ UNCHANGED <<instVars, objVars, queueVars, sentVars, toResend, wereAcked, responses,
                   mainVars, callVars, sender, resumeCall, needToPing, connVars, connPc,
                   netVars>>

\* onPingSendForce: tryToSend, unless a ping is already on its way.
OnPingSendForce ==
    /\ ConnIdle
    /\ needToPing /\ needToPing' = FALSE
    /\ connState # "none"
    /\ needToSend' \in {needToSend, TRUE}
    /\ UNCHANGED <<instVars, objVars, queueVars, sentVars, toResend, wereAcked, responses,
                   mainVars, callVars, sender, resumeCall, connVars, connPc, netVars>>

\* tryToSend, "if can send without container": toSend is cleared and unlocked
\* before the request is entered in haveSent.
TryToSendSingle ==
    /\ ConnIdle
    /\ needToSend /\ needToSend' = FALSE
    /\ connState = "connected"
    /\ stateRequest = {}
    /\ \E r \in toSend \ msDateZero :
        /\ toSend = {r}
        /\ connAt' = "sending" /\ connReq' = r
    /\ toSend' = {}
    /\ UNCHANGED <<instVars, objVars, stateRequest, sentVars, toResend, wereAcked, responses,
                   mainVars, callVars, sender, resumeCall, needToPing, connVars, connMsg,
                   connKind, ackMore, netVars>>

\* Variant of Prepared: msgid() may return an id that was used before.
PreparedAgain(r, m) ==
    IF msgIdOf[r] = NoMsg THEN m \notin server /\ haveSent[m] = NoRequest
                          ELSE m = msgIdOf[r]

\* prepareToSend: a resent request keeps its id and leaves toResend.
Prepared(r, m) ==
    IF msgIdOf[r] = NoMsg THEN FreshId(m) ELSE m = msgIdOf[r]

\* tryToSend, the rest of the single case: prepareToSend, haveSent, send.
SingleSent ==
    /\ connAt = "sending"
    /\ \E m \in MsgIds :
        /\ Prepared(connReq, m)
        /\ msgIdOf' = [msgIdOf EXCEPT ![connReq] = m]
        /\ toResend' = [toResend EXCEPT ![m] = NoRequest]
        /\ haveSent' = [haveSent EXCEPT ![m] = connReq]
        /\ carried' = [carried EXCEPT ![m] = connReq]
        /\ server' = server \cup {m}
    /\ msDateZero' = msDateZero \ {connReq}
    /\ ConnReturns
    /\ UNCHANGED <<instVars, queueVars, inner, wereAcked, responses, mainVars, callVars,
                   wakeVars, connVars, mishaps>>

\* placeToContainer: the message ids of the requests put in a container (ids),
\* of the state request (s) and of the container itself (c), NoMsg for none.
Contained(ids) == {ids[r] : r \in toSend}
RequestAt(ids, m) == CHOOSE r \in toSend : ids[r] = m
ContainerIds(ids, s, c) ==
    /\ \A r \in toSend : Prepared(r, ids[r]) /\ ids[r] \notin {s, c}
    /\ \A q, r \in toSend : q # r => ids[q] # ids[r]
    /\ IF stateRequest = {} THEN s = NoMsg ELSE s # NoMsg /\ FreshId(s)
    /\ c = NoMsg => toSend = {}
    /\ c # NoMsg => c # s /\ FreshId(c)

\* tryToSend, "send in container": toSend, haveSent and wereAcked are locked
\* throughout.  Acks, pings and http_wait ride along, so that one request may
\* be in a container; a lone state request is sent without one.
TryToSendContainer ==
    /\ ConnIdle
    /\ needToSend /\ needToSend' = FALSE
    /\ connState = "connected"
    /\ toSend \cup stateRequest # {}
    /\ \E ids \in [toSend -> MsgIds], s \in MsgIds \cup {NoMsg}, c \in MsgIds \cup {NoMsg} :
        /\ ContainerIds(ids, s, c)
        /\ msgIdOf' = [r \in Requests |-> IF r \in toSend THEN ids[r] ELSE msgIdOf[r]]
        /\ toResend' = [m \in MsgIds |-> IF m \in Contained(ids) THEN NoRequest ELSE toResend[m]]
        /\ haveSent' = [m \in MsgIds |-> IF m \in Contained(ids) THEN RequestAt(ids, m)
                                    ELSE IF m = s THEN StateRequest
                                    ELSE IF m = c THEN Container ELSE haveSent[m]]
        /\ inner' = [m \in MsgIds |-> IF m = s THEN stateRequest
                                 ELSE IF m = c THEN Contained(ids) \cup ({s} \ {NoMsg})
                                 ELSE inner[m]]
        /\ carried' = [m \in MsgIds |-> IF m \in Contained(ids) THEN RequestAt(ids, m)
                                   ELSE IF m \in {s, c} THEN NoRequest ELSE carried[m]]
        /\ server' = server \cup Contained(ids) \cup ({s, c} \ {NoMsg})
    /\ msDateZero' = msDateZero \ toSend
    /\ toSend' = {} /\ stateRequest' = {}
    /\ UNCHANGED <<instVars, wereAcked, responses, mainVars, callVars, sender, resumeCall,
                   needToPing, connVars, connPc, mishaps>>

-----------------------------------------------------------------------------
(* Connection thread: what the server says of the messages it received. *)

\* Variant of EvictedRequest: what the map held before the insertion.
EvictedBefore(acked, k) == wereAcked[k]
EvictedRequest(acked, k) == acked[k]

\* requestsAcked, "removing some old acked sent msgIds": beyond the limit an
\* old id leaves wereAcked and the callbacks of its request are cleared.
EnterAcked(m, r) ==
    LET acked == [wereAcked EXCEPT ![m] = r]
        ids   == {k \in MsgIds : acked[k] # NoRequest}
    IN IF Cardinality(ids) <= AckedLimit
       THEN wereAcked' = acked /\ UNCHANGED clearCalls
       ELSE \E k \in ids :
               /\ wereAcked' = [acked EXCEPT ![k] = NoRequest]
               /\ clearCalls' = clearCalls \cup {<<EvictedRequest(acked, k), "error">>}

\* requestsAcked for one id: what is done with an entry of haveSent or toResend.
\* An ack, as opposed to an answer, is ignored while the request has a handler.
\* An entry with msDate 0 is removed as a container would be: the caller goes on
\* with the ids in it (in a state request, that is none of the ids it lists:
\* the words of its body are read from the wrong place).
\* Variant of MovesToAcked: an ack is not ignored for the sake of a handler.
MovesToAckedOnAck(r, byResponse) == TRUE
MovesToAcked(r, byResponse) == byResponse \/ ~HasCallbacks(r)
IsList(m) == haveSent[m] \in {Container, StateRequest} \cup msDateZero
RequestsAcked(m, byResponse) ==
    LET move(r) == MovesToAcked(r, byResponse)
        resent  == haveSent[m] = NoRequest /\ toResend[m] \in Requests
    IN \/ /\ IsList(m)
          /\ haveSent' = [haveSent EXCEPT ![m] = NoRequest]
          /\ UNCHANGED <<toSend, toResend, wereAcked, clearCalls>>
       \/ /\ haveSent[m] \in Requests /\ ~IsList(m) /\ move(haveSent[m])
          /\ haveSent' = [haveSent EXCEPT ![m] = NoRequest]
          /\ EnterAcked(m, haveSent[m])
          /\ UNCHANGED <<toSend, toResend>>
       \/ /\ resent /\ move(toResend[m])
          /\ toResend' = [toResend EXCEPT ![m] = NoRequest]
          /\ IF toResend[m] \in toSend
             THEN toSend' = toSend \ {toResend[m]} /\ EnterAcked(m, toResend[m])
             ELSE UNCHANGED <<toSend, wereAcked, clearCalls>>
          /\ UNCHANGED haveSent
       \/ /\ \/ haveSent[m] \in Requests /\ ~IsList(m) /\ ~move(haveSent[m])
             \/ resent /\ ~move(toResend[m])
             \/ haveSent[m] = NoRequest /\ toResend[m] = NoRequest
          /\ UNCHANGED <<toSend, haveSent, toResend, wereAcked, clearCalls>>

\* handleOneReceived, mtpc_rpc_result: requestsAcked(ids, true).
RpcResult(m, kind) ==
    /\ Receiving
    /\ m \in server
    /\ carried[m] # NoRequest
    /\ IF kind \in RetryErrors THEN Mishap(kind) ELSE UNCHANGED mishaps
    /\ RequestsAcked(m, TRUE)
    /\ connAt' = "answer" /\ connMsg' = m /\ connKind' = kind
    /\ server' = server \ {m}
    /\ UNCHANGED <<instVars, objVars, stateRequest, inner, responses, mainVars, resendCalls,
                   resendAllCall, wakeVars, connVars, connReq, ackMore, carried>>

\* handleOneReceived, mtpc_rpc_result: look up the request and keep the answer
\* for the main thread; an answer to an unknown message is dropped.
RpcResultStored ==
    /\ connAt = "answer"
    /\ responses' = [r \in Requests |->
           IF r = WasSent(connMsg) THEN connKind ELSE responses[r]]
    /\ ConnReturns
    /\ UNCHANGED <<instVars, objVars, queueVars, sentVars, toResend, wereAcked, mainVars,
                   callVars, wakeVars, connVars, netVars>>

\* The same when the answer cannot be unpacked: the message is already in
\* wereAcked, and the connection is restarted.
RpcResultUnreadable ==
    /\ connAt = "answer"
    /\ Mishap("ungzip")
    /\ connState' = "connecting" /\ restarted' = TRUE
    /\ server' \in SUBSET server
    /\ ConnReturns
    /\ UNCHANGED <<instVars, objVars, queueVars, sentVars, toResend, wereAcked, responses,
                   mainVars, callVars, wakeVars, saltKnown, hasKey, carried>>

\* handleOneReceived, mtpc_msgs_ack: requestsAcked(ids); the ids of a container
\* are acknowledged next, after the locks were released.
MsgsAck(m) ==
    /\ Receiving
    /\ m \in server
    /\ RequestsAcked(m, FALSE)
    /\ ackMore' = IF haveSent[m] = Container THEN inner[m] ELSE {}
    /\ connAt' = IF ackMore' = {} THEN "idle" ELSE "ackMore"
    /\ server' = IF haveSent[m] = Container THEN server \ {m} ELSE server
    /\ UNCHANGED <<instVars, objVars, stateRequest, inner, responses, mainVars, resendCalls,
                   resendAllCall, wakeVars, connVars, connMsg, connReq, connKind, carried,
                   mishaps>>

\* requestsAcked(toAckMore), one id at a time; a container holds no container.
AckMore(m) ==
    /\ connAt = "ackMore"
    /\ m \in ackMore
    /\ RequestsAcked(m, FALSE)
    /\ ackMore' = ackMore \ {m}
    /\ connAt' = IF ackMore' = {} THEN "idle" ELSE "ackMore"
    /\ UNCHANGED <<instVars, objVars, stateRequest, inner, responses, mainVars, resendCalls,
                   resendAllCall, wakeVars, connVars, connMsg, connReq, connKind, netVars>>

\* handleOneReceived, mtpc_msgs_state_info with handleMsgsStates: the messages
\* the server received are acknowledged, the others resent.  The state request
\* itself stays in haveSent.
MsgsStateInfo(m) ==
    /\ Receiving
    /\ m \in server
    /\ haveSent[m] = StateRequest
    /\ \E received \in SUBSET inner[m] :
        /\ resendCalls' = resendCalls \cup
              ({k \in inner[m] \ received : haveSent[k] # NoRequest} \X {TRUE})
        /\ ackMore' = {k \in received : haveSent[k] # NoRequest \/ toResend[k] # NoRequest}
        /\ connAt' = IF ackMore' = {} THEN "idle" ELSE "ackMore"
    /\ server' = server \ {m}
    /\ UNCHANGED <<instVars, objVars, queueVars, sentVars, toResend, wereAcked, responses,
                   mainVars, resendAllCall, clearCalls, wakeVars, connVars, connMsg, connReq,
                   connKind, carried, mishaps>>

\* handleOneReceived, mtpc_bad_msg_notification 16, 17, 64 (force),
\* mtpc_bad_server_salt and mtpc_msg_resend_req (no force): resend the message.
ServerWantsResend(m, force) ==
    /\ Receiving
    /\ Mishap("resend")
    /\ m \in server
    /\ WasSent(m) # NoRequest
    /\ resendCalls' = resendCalls \cup {<<m, force>>}
    /\ server' = server \ {m}
    /\ UNCHANGED <<instVars, objVars, queueVars, sentVars, toResend, wereAcked, responses,
                   mainVars, resendAllCall, clearCalls, wakeVars, connVars, connPc, carried>>

\* mtpc_bad_msg_notification, other codes: clear the callbacks of the request.
\* clearCallbacksDelayed({ 1, RPCCallbackClear(...) }) builds a list of two
\* elements, the first of them RPCCallbackClear(1): request number one goes too.
BadMsgFatal(m) ==
    /\ Receiving
    /\ Mishap("fatal")
    /\ m \in server
    /\ WasSent(m) # NoRequest
    /\ clearCalls' = clearCalls
           \cup (IF WasSent(m) \in Requests THEN {<<WasSent(m), "error">>} ELSE {})
           \cup ({FirstRequest} \ {NoRequest}) \X {"silent"}
    /\ server' = server \ {m}
    /\ UNCHANGED <<instVars, objVars, queueVars, sentVars, toResend, wereAcked, responses,
                   mainVars, resendCalls, resendAllCall, wakeVars, connVars, connPc, carried>>

\* mtpc_new_session_created: resend what was sent before first_msg_id.
NewSessionCreated ==
    /\ Receiving
    /\ Mishap("newSession")
    /\ \E older \in SUBSET {m \in MsgIds : haveSent[m] \in Requests \cup {StateRequest}} :
           resendCalls' = resendCalls \cup (older \X {TRUE})
    /\ UNCHANGED <<instVars, objVars, queueVars, sentVars, toResend, wereAcked, responses,
                   mainVars, resendAllCall, clearCalls, wakeVars, connVars, connPc, server,
                   carried>>

\* External: the server comes back to a message the client still knows.
ServerRepeats(m) ==
    /\ connState = "connected"
    /\ Mishap("repeat")
    /\ carried[m] # NoRequest /\ ~FreshId(m) /\ m \notin server
    /\ server' = server \cup {m}
    /\ UNCHANGED <<instVars, objVars, queueVars, sentVars, toResend, wereAcked, responses,
                   mainVars, callVars, wakeVars, connVars, connPc, carried>>

-----------------------------------------------------------------------------
(* Connection thread: connecting, breaking, the key. *)

\* "emit needToSendAsync()"; variant: forgotten.
EmitNothing == UNCHANGED resumeCall
EmitNeedToSendAsync == resumeCall' = TRUE

\* Variant of BecomesConnected: nothing is resent.
ConnectedWithoutResend ==
    connState' = "connected" /\ restarted' = FALSE /\ UNCHANGED resendAllCall

\* setState(ConnectedState); "if (restarted) emit resendAllAsync()".
BecomesConnected ==
    /\ connState' = "connected"
    /\ resendAllCall' = (resendAllCall \/ restarted)
    /\ restarted' = FALSE

\* authKeyCreated: with no salt yet only a ping is sent to learn it.
AuthKeyCreated ==
    /\ ConnIdle
    /\ connState = "connecting" /\ hasKey
    /\ IF saltKnown THEN BecomesConnected
                    ELSE connState' = "ready" /\ UNCHANGED <<resendAllCall, restarted>>
    /\ EmitNeedToSendAsync
    /\ UNCHANGED <<instVars, objVars, queueVars, sentVars, toResend, wereAcked, responses,
                   mainVars, resendCalls, clearCalls, sender, needToSend, needToPing,
                   saltKnown, hasKey, connPc, netVars>>

\* handleReceived: the first message with a salt (bad_server_salt as a rule)
\* makes the connection Connected, and emits needToSendAsync.
SaltReceived ==
    /\ ConnIdle
    /\ connState = "ready"
    /\ BecomesConnected
    /\ saltKnown' = TRUE
    /\ EmitNeedToSendAsync
    /\ UNCHANGED <<instVars, objVars, queueVars, sentVars, toResend, wereAcked, responses,
                   mainVars, resendCalls, clearCalls, sender, needToSend, needToPing, hasKey,
                   connPc, netVars>>

\* resetSession, after a bad_msg_notification 32 or 33: the messages keep their
\* ids (those do not run backwards), the state requests are forgotten.
ResetSession ==
    /\ Mishap("reset")
    /\ connState = "connected"
    /\ stateRequest' = {}
    /\ UNCHANGED hasKey

\* handleError(-404) in a CDN, then retryByTimer with kRecreateKeyId: destroyKey.
RecreateKey ==
    /\ Mishap("keyLost")
    /\ hasKey /\ hasKey' = FALSE
    /\ UNCHANGED stateRequest

\* restart, waitReceivedFailed, waitConnectedFailed: the connection is made
\* anew; what the server did not get is lost.
Restart ==
    /\ ConnIdle
    /\ connState # "none"
    /\ connState' = "connecting" /\ restarted' = TRUE
    /\ server' \in SUBSET server
    /\ \/ Mishap("restart") /\ UNCHANGED <<hasKey, stateRequest>>
       \/ ResetSession
       \/ RecreateKey
    /\ UNCHANGED <<instVars, objVars, toSend, sentVars, toResend, wereAcked, responses,
                   mainVars, callVars, wakeVars, saltKnown, connPc, carried>>

\* SessionData::clear: the requests that were sent, or are to be sent again, and
\* have no response yet lose their callbacks.
ClearSessionData ==
    /\ clearCalls' = clearCalls \cup
           ({r \in Requests : /\ responses[r] = "none"
                              /\ \E m \in MsgIds : r \in {haveSent[m], toResend[m], wereAcked[m]}}
            \X {"silent"})
    /\ haveSent' = [m \in MsgIds |-> NoRequest]
    /\ toResend' = [m \in MsgIds |-> NoRequest]
    /\ wereAcked' = [m \in MsgIds |-> NoRequest]

\* dhClientParamsAnswered, mtpc_dh_gen_ok: setSalt and SessionData::clear.
DhGenOk ==
    /\ ConnIdle
    /\ connState = "connecting" /\ ~hasKey
    /\ hasKey' = TRUE /\ saltKnown' = TRUE
    /\ ClearSessionData
    /\ server' = {}
    /\ UNCHANGED <<instVars, objVars, queueVars, inner, responses, mainVars, resendCalls,
                   resendAllCall, wakeVars, connState, restarted, connPc, carried, mishaps>>

-----------------------------------------------------------------------------
Init ==
    /\ parserMap = {} /\ requestMap = {} /\ delayed = {}
    /\ outcome = [r \in Requests |-> "unused"]
    /\ msgIdOf = [r \in Requests |-> NoMsg] /\ msDateZero = {}
    /\ toSend = {} /\ stateRequest = {}
    /\ haveSent = [m \in MsgIds |-> NoRequest] /\ inner = [m \in MsgIds |-> {}]
    /\ toResend = [m \in MsgIds |-> NoRequest]
    /\ wereAcked = [m \in MsgIds |-> NoRequest]
    /\ responses = [r \in Requests |-> "none"]
    /\ mainAt = "idle" /\ mainMsg = NoMsg /\ mainReq = NoRequest /\ mainKind = "none"
    /\ resendCalls = {} /\ resendAllCall = FALSE /\ clearCalls = {}
    /\ sender = FALSE /\ resumeCall = FALSE /\ needToSend = FALSE /\ needToPing = FALSE
    /\ connState = "connecting" /\ restarted = FALSE
    /\ hasKey \in BOOLEAN /\ saltKnown = FALSE
    /\ connAt = "idle" /\ connMsg = NoMsg /\ connReq = NoRequest /\ connKind = "none"
    /\ ackMore = {}
    /\ server = {} /\ carried = [m \in MsgIds |-> NoRequest] /\ mishaps = 0

\* What the main thread's event loop does by itself.
MainStep ==
    \/ \E r \in Requests : ExecCallback(r) \/ CheckDelayed(r)
    \/ \E r \in Requests, code \in {"silent", "error"} : ClearCallbacks(r, code)
    \/ \E m \in MsgIds, force \in BOOLEAN : Resend(m, force)
    \/ ResendPrepared \/ ResendRecorded \/ ResendAll
    \/ HandlerCompletes \/ HandlerDelays \/ HandlerRetries \/ HandlerReinserted
    \/ NeedToResumeAndSend

\* What the connection thread's event loop does by itself.
ConnStep ==
    \/ TryToSendNothing \/ TryToSendSingle \/ SingleSent \/ TryToSendContainer
    \/ OnPingSendForce \/ RpcResultStored
    \/ \E m \in MsgIds : AckMore(m)

\* The connection is established, in the end.
Connects == AuthKeyCreated \/ SaltReceived \/ DhGenOk

\* What the server sends.
ServerSends ==
    \/ \E m \in MsgIds, kind \in Answers : RpcResult(m, kind)
    \/ \E m \in MsgIds : MsgsAck(m) \/ MsgsStateInfo(m) \/ BadMsgFatal(m) \/ ServerRepeats(m)
    \/ \E m \in MsgIds, force \in BOOLEAN : ServerWantsResend(m, force)
    \/ NewSessionCreated

Next ==
    \/ \E r \in Requests : SendRequest(r) \/ Cancel(r)
    \/ CheckRequestsByTimer \/ Ping \/ Stop \/ Restart \/ RpcResultUnreadable
    \/ MainStep \/ ConnStep \/ Connects \/ ServerSends

Spec == Init /\ [][Next]_vars

\* Both event loops go on, a connection is made in the end, and the server
\* answers what reached it.
Fairness ==
    /\ WF_vars(MainStep) /\ WF_vars(ConnStep) /\ WF_vars(Connects)
    /\ WF_vars(\E m \in MsgIds : RpcResult(m, "done"))
FairSpec == Spec /\ Fairness

-----------------------------------------------------------------------------
(* Properties. *)

\* A request whose handler is registered is always held by something that will
\* move it on: no interleaving of resend, tryToSend, requestsAcked, cancel and
\* clear drops it between two maps (session.cpp, connection.cpp).  The mishaps
\* "notInited" and "ungzip" can (connection.cpp:2284, 2050).
HeldByMaps(r) ==
    \/ r \in toSend
    \/ \E m \in MsgIds : haveSent[m] = r
    \/ responses[r] # "none"
    \/ r \in delayed
HeldByThread(r) ==
    \/ mainAt = "erased" /\ mainReq = r
    \/ connAt = "sending" /\ connReq = r
    \/ connAt = "answer" /\ WasSent(connMsg) = r
    \/ \E code \in {"silent", "error"} : <<r, code>> \in clearCalls
NoRequestLost == \A r \in parserMap : HeldByMaps(r) \/ HeldByThread(r)

\* A request is sent under one message id at a time, waits in toSend only while
\* it is not sent, and what is sent is never mistaken for a container (msDate),
\* as long as onErrorDefault sends nothing again: checkDelayedRequests
\* (mtp_instance.cpp:915) queues a request whose older copy may have been resent.
SentOnce ==
    /\ \A m, n \in MsgIds : haveSent[m] \in Requests /\ haveSent[n] = haveSent[m] => m = n
    /\ \A m \in MsgIds : haveSent[m] \notin toSend
    /\ \A m \in MsgIds : haveSent[m] \notin msDateZero

\* Whatever the maps say of a message id, it is about the request that was sent
\* under that id: an answer never reaches the handler of another request
\* (wasSent in connection.cpp).
MsgIdsMatch ==
    \A m \in MsgIds :
        /\ haveSent[m] \in Requests => carried[m] = haveSent[m]
        /\ toResend[m] # NoRequest => carried[m] = toResend[m]
        /\ wereAcked[m] # NoRequest => carried[m] = wereAcked[m]

\* What the caller of MTP::send relies on (RpcDelivery), implemented: an answer
\* is one the server gave to the message that carried the request, from its
\* arrival to the call of the handler.
Arrived  == IF connAt = "answer" THEN {<<carried[connMsg], connKind>>} ELSE {}
Stored   == {<<r, responses[r]>> : r \in {q \in Requests : responses[q] # "none"}}
Handling == IF mainAt = "handler" THEN {<<mainReq, mainKind>>} ELSE {}
Delivery == INSTANCE RpcDelivery WITH
    arrived <- Arrived, stored <- Stored, handling <- Handling
DeliverySpec == Delivery!Spec

\* The handlers of a request stay registered exactly as long as nobody has been
\* told how the request ended (execCallback, cancel, clearCallbacks).
HandlerOwed(r) == r \in parserMap \/ (mainAt \in {"handler", "reinsert"} /\ mainReq = r)
PendingIsOwed ==
    \A r \in WithHandler : outcome[r] = "pending" <=> HandlerOwed(r)

\* While the connection is up, what waits to be sent is never without a pending
\* wake-up of the connection thread (sendAnything, needToSendAsync).
NoLostWakeUp ==
    connState = "connected" /\ toSend \cup stateRequest # {}
        => sender \/ resumeCall \/ needToSend

\* Every request comes to its end, whatever was lost and resent on the way.
EveryRequestEnds ==
    \A r \in WithHandler : outcome[r] = "pending" ~> outcome[r] # "pending"
=============================================================================
