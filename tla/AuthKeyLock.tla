---------------------------- MODULE AuthKeyLock ----------------------------
(* How the connections of one data center share its authorization key.  Every  *)
(* session of the data center has a copy of the key (SessionData::_authKey)     *)
(* and a connection with a thread of its own; the key itself and the lock that  *)
(* guards it belong to the Dcenter.  A connection that finds no key takes the   *)
(* lock for writing and keeps it through the whole handshake with the server.   *)
(* The copies are brought up to date by slots that the main thread runs, and    *)
(* each of them wakes the connection of its session.                            *)
(*                                                                              *)
(* One action is one handler of a thread, except where a handler blocks in the  *)
(* lock or lets others see the lock taken: there it is split in two.  The code  *)
(* reads and writes both shared pointers without a common lock (dcenter.cpp:53, *)
(* session.cpp:554); each such access is atomic here.                           *)
EXTENDS Integers, FiniteSets

CONSTANTS
    Sessions,   \* the sessions of the data center, each with its connection
    Mishaps,    \* what may go wrong, see MishapKinds
    MaxMishaps, \* how often, together
    MaxSlots,   \* slots of a session in the queue of a main thread that runs
    NoOne       \* nobody holds the lock

MishapKinds == {"fails",    \* a step of the handshake fails
                "dropped",  \* a connection is lost, or told to restart
                "destroyed",\* a CDN server does not know the key any more (-404)
                "noRsaKey", \* the public key of a CDN server is not known yet
                "stopped"}  \* the main thread stops a session

ASSUME ConstantsAssumption ==
    /\ NoOne \notin Sessions
    /\ Mishaps \subseteq MishapKinds
    /\ MaxMishaps \in Nat
    /\ MaxSlots \in Nat

VARIABLES
    dcKey,    \* Dcenter::_key, NoKey or the number of a key
    made,     \* how many keys the server has made with this client
    lock,     \* the owner of Dcenter::keyLock, for writing
    sessKey,  \* SessionData::_authKey
    keyId,    \* ConnectionPrivate::keyId
    pc,       \* where the connection of the session is
    slots,    \* queued calls of Session::authKeyCreatedForDC, on the main thread
    wakes,    \* queued calls of ConnectionPrivate::updateAuthKey
    stopping, \* the session whose stop() the main thread is in
    mishaps,  \* how many mishaps happened so far
    untold    \* history: the sessions that may wait for a signal that is past

keyVars  == <<dcKey, made>>
connVars == <<sessKey, keyId, pc>>
mailVars == <<slots, wakes>>
vars == <<keyVars, lock, connVars, mailVars, stopping, mishaps, untold>>

NoKey    == 0
Recreate == -1 \* kRecreateKeyId
Keys     == 1 .. made

Places == {"absent",       \* the session was not started yet
           "gone",         \* its connection was stopped
           "disconnected", \* no transport; a timer, or a queued call, connects
           "waiting",      \* no key: waits for a signal
           "ready",        \* sends and receives with keyId
           "locking",      \* blocked in lockKey()
           "locked",       \* past it, looks at the key again
           "shaking",      \* the handshake is under way
           "config",       \* the handshake waits for the CDN's public keys
           "releasing",    \* has set the new key, has not unlocked yet
           "destroying",   \* blocked in retryByTimer(), to destroy the key
           "destroyed"}    \* has destroyed it, has not unlocked yet

Blocked == {"locking", "destroying"}
InLock  == {"locked", "shaking", "config", "releasing", "destroyed"}
Handshake == {"shaking", "config"}
\* In the middle of a handler, which holds sessionDataMutex for reading.
Busy    == Blocked \cup {"locked", "releasing", "destroyed"}
Alive   == Places \ {"absent", "gone"}

Init ==
    /\ dcKey = NoKey /\ made = 0
    /\ lock = NoOne
    /\ sessKey = [s \in Sessions |-> NoKey]
    /\ keyId = [s \in Sessions |-> NoKey]
    /\ pc = [s \in Sessions |-> "absent"]
    /\ slots = [s \in Sessions |-> 0]
    /\ wakes = [s \in Sessions |-> 0]
    /\ stopping = NoOne /\ mishaps = 0 /\ untold = {}

Mishap(kind) ==
    /\ kind \in Mishaps
    /\ mishaps < MaxMishaps
    /\ mishaps' = mishaps + 1

Goes(s, place) == pc' = [pc EXCEPT ![s] = place]
\* stop() waits for sessionDataMutex: no handler of the connection begins.
Handles(s)     == stopping # s /\ UNCHANGED stopping
MainIsFree     == stopping = NoOne

\* ReadLockerAttempt does not wait: it fails whoever holds the lock, for however
\* short a time.  Whether it fails while a writer waits for a lock that is free
\* depends on the moment and on the version of QReadWriteLock.
CanRead    == lock = NoOne
CannotRead == lock # NoOne \/ \E d \in Sessions : pc[d] \in Blocked

\* Dcenter::setKey: the signal reaches every session that was started.
SetKey(k) ==
    /\ dcKey' = k
    /\ slots' = [s \in Sessions |-> IF pc[s] = "absent" THEN slots[s] ELSE slots[s] + 1]
    /\ untold' = {}

\* (Variant.)
KeepLocked(s) == lock' = lock
\* unlockKey(): only who holds the lock releases it.
UnlockKey(s) == lock' = IF lock = s THEN NoOne ELSE lock

\* Who waited for a handshake that ends like this is not told.
Abandoned(s) == IF lock = s THEN {d \in Sessions : pc[d] = "waiting"} ELSE {}

\* restart() and doDisconnect(): a timer will connect again.
Restart(s) ==
    /\ UnlockKey(s)
    /\ Goes(s, "disconnected")
    /\ untold' = (untold \cup Abandoned(s)) \ {s}

-----------------------------------------------------------------------------
(* The main thread.                                                            *)

\* Session::start and createDcData.
Start(s) ==
    /\ MainIsFree
    /\ pc[s] = "absent"
    /\ \/ CanRead /\ sessKey' = [sessKey EXCEPT ![s] = dcKey]
       \/ CannotRead /\ UNCHANGED sessKey
    /\ Goes(s, "disconnected")
    /\ UNCHANGED <<keyVars, lock, keyId, mailVars, stopping, mishaps, untold>>

\* needToResumeAndSend() makes a new connection for a session that was stopped.
Resume(s) ==
    /\ MainIsFree
    /\ pc[s] = "gone"
    /\ Goes(s, "disconnected")
    /\ keyId' = [keyId EXCEPT ![s] = NoKey]
    /\ UNCHANGED <<keyVars, lock, sessKey, mailVars, stopping, mishaps, untold>>

WakesConnection(s) ==
    wakes' = IF pc[s] = "gone" THEN wakes ELSE [wakes EXCEPT ![s] = @ + 1]

\* (Variant: the connection is not told.)
LearnsSilently(s) == sessKey' = [sessKey EXCEPT ![s] = dcKey] /\ UNCHANGED wakes
\* (Variant: only a session without a key takes the new one.)
LearnsOnce(s) ==
    IF sessKey[s] = NoKey
    THEN sessKey' = [sessKey EXCEPT ![s] = dcKey] /\ WakesConnection(s)
    ELSE UNCHANGED <<sessKey, wakes>>
Learns(s) == sessKey' = [sessKey EXCEPT ![s] = dcKey] /\ WakesConnection(s)

AuthKeyCreatedForDC(s) ==
    /\ MainIsFree
    /\ slots[s] > 0
    /\ slots' = [slots EXCEPT ![s] = @ - 1]
    /\ Learns(s)
    /\ UNCHANGED <<keyVars, lock, keyId, pc, stopping, mishaps, untold>>

\* Session::stop and kill: the main thread waits for the end of the handler.
StopBegins(s) ==
    /\ MainIsFree
    /\ pc[s] \in Alive
    /\ Mishap("stopped")
    /\ stopping' = s
    /\ UNCHANGED <<keyVars, lock, connVars, mailVars, untold>>

\* (Variant: nobody is told.)
TellsNobody(s) == UNCHANGED <<dcKey, slots, untold>>
\* "release key lock, let someone else create it"
LetsOthersCreate(s) == IF lock = s THEN SetKey(NoKey) ELSE UNCHANGED <<dcKey, slots, untold>>

\* ConnectionPrivate::stop.
StopEnds(s) ==
    /\ stopping = s
    /\ pc[s] \notin Busy
    /\ LetsOthersCreate(s)
    /\ UnlockKey(s)
    /\ Goes(s, "gone")
    /\ wakes' = [wakes EXCEPT ![s] = 0]
    /\ stopping' = NoOne
    /\ UNCHANGED <<made, sessKey, keyId, mishaps>>
-----------------------------------------------------------------------------
(* The thread of a connection.                                                 *)

\* updateAuthKey(): the lock is taken, or there is a key, or one must be made.
\* "Some other connection is getting key" is not true of every lock that is taken.
SeesTheLock(s) ==
    /\ CannotRead
    /\ keyId' = [keyId EXCEPT ![s] = NoKey]
    /\ Goes(s, IF lock = s THEN pc[s] ELSE "waiting")
    /\ untold' = IF lock # NoOne /\ pc[lock] \in Handshake THEN untold ELSE untold \cup {s}

FindsTheKey(s) ==
    /\ CanRead /\ sessKey[s] # NoKey
    /\ keyId' = [keyId EXCEPT ![s] = sessKey[s]]
    /\ Goes(s, "ready")
    /\ untold' = untold \ {s}

FindsNoKey(s) ==
    /\ CanRead /\ sessKey[s] = NoKey
    /\ keyId' = [keyId EXCEPT ![s] = NoKey]
    /\ Goes(s, "locking")
    /\ untold' = untold \ {s}

UpdateAuthKey(s) ==
    /\ SeesTheLock(s) \/ FindsTheKey(s) \/ FindsNoKey(s)
    /\ UNCHANGED <<keyVars, lock, sessKey, slots, mishaps>>

\* The transport is up: confirmBestConnection() calls updateAuthKey().
Connected(s) ==
    /\ Handles(s)
    /\ pc[s] = "disconnected" /\ keyId[s] # Recreate
    /\ UpdateAuthKey(s)
    /\ UNCHANGED wakes

\* The signal of the session arrives.
Wakes(s) ==
    /\ Handles(s)
    /\ wakes[s] > 0 /\ pc[s] \notin Busy
    /\ wakes' = [wakes EXCEPT ![s] = @ - 1]
    /\ IF pc[s] = "disconnected"
       THEN UNCHANGED <<keyVars, lock, connVars, slots, mishaps, untold>>
       ELSE UpdateAuthKey(s)

LockKey(s) ==
    /\ pc[s] = "locking" /\ lock = NoOne
    /\ lock' = s
    /\ Goes(s, "locked")
    /\ UNCHANGED <<keyVars, sessKey, keyId, mailVars, stopping, mishaps, untold>>

FindsTheKeyLocked(s) ==
    /\ pc[s] = "locked" /\ sessKey[s] # NoKey
    /\ keyId' = [keyId EXCEPT ![s] = sessKey[s]]
    /\ UnlockKey(s)
    /\ Goes(s, "ready")
    /\ UNCHANGED <<keyVars, sessKey, mailVars, stopping, mishaps, untold>>

BeginsHandshake(s) ==
    /\ pc[s] = "locked" /\ sessKey[s] = NoKey
    /\ Goes(s, "shaking")
    /\ UNCHANGED <<keyVars, lock, sessKey, keyId, mailVars, stopping, mishaps, untold>>

\* pqAnswered(), for a CDN without a public key.
WaitsForConfig(s) ==
    /\ Handles(s)
    /\ pc[s] = "shaking"
    /\ Mishap("noRsaKey")
    /\ Goes(s, "config")
    /\ UNCHANGED <<keyVars, lock, sessKey, keyId, mailVars, untold>>

\* The main thread has asked for it; onCDNConfigLoaded() restarts.
CDNConfigLoaded(s) ==
    /\ Handles(s) /\ MainIsFree
    /\ pc[s] = "config"
    /\ Restart(s)
    /\ UNCHANGED <<keyVars, sessKey, keyId, mailVars, mishaps>>

\* Any step of the handshake that is refused.
HandshakeFails(s) ==
    /\ Handles(s)
    /\ pc[s] = "shaking"
    /\ Mishap("fails")
    /\ Restart(s)
    /\ UNCHANGED <<keyVars, sessKey, keyId, mailVars>>
\* dh_gen_ok: the new key is announced first ...
DhGenOk(s) ==
    /\ Handles(s)
    /\ pc[s] = "shaking"
    /\ MainIsFree => \A d \in Sessions : slots[d] < MaxSlots
    /\ made' = made + 1
    /\ SetKey(made + 1)
    /\ Goes(s, "releasing")
    /\ UNCHANGED <<lock, sessKey, keyId, wakes, mishaps>>

\* ... and the lock released afterwards; its maker waits for the signal too.
ReleasesKey(s) ==
    /\ pc[s] = "releasing"
    /\ UnlockKey(s)
    /\ Goes(s, "waiting")
    /\ UNCHANGED <<keyVars, sessKey, keyId, mailVars, stopping, mishaps, untold>>
\* The transport fails, a timer expires, the options change; or a connection that
\* sent before it came to wait, or to make a key, has something to send or receive
\* again: it restarts too (sendSecureRequest, handleReceived).
Dropped(s) ==
    /\ Handles(s)
    /\ pc[s] \in {"waiting", "ready", "shaking", "config"}
    /\ Mishap("dropped")
    /\ Restart(s)
    /\ UNCHANGED <<keyVars, sessKey, keyId, mailVars>>

\* sendSecureRequest() and handleReceived() look at the key again; the second
\* forgets the key when the lock is taken.
KeyChanged(s) ==
    /\ Handles(s)
    /\ pc[s] = "ready"
    /\ \/ CannotRead /\ keyId' \in {keyId, [keyId EXCEPT ![s] = NoKey]}
       \/ CanRead /\ sessKey[s] # keyId[s] /\ UNCHANGED keyId
    /\ Restart(s)
    /\ UNCHANGED <<keyVars, sessKey, mailVars, mishaps>>

\* handleError(-404) in a CDN, of any transport that is up or comes up.
KeyIsUnknown(s) ==
    /\ Handles(s)
    /\ pc[s] \in Alive \ Busy
    /\ Mishap("destroyed")
    /\ keyId' = [keyId EXCEPT ![s] = Recreate]
    /\ Restart(s)
    /\ UNCHANGED <<keyVars, sessKey, mailVars>>

\* retryByTimer() for a key to be recreated.
RetryRecreates(s) ==
    /\ Handles(s)
    /\ pc[s] = "disconnected" /\ keyId[s] = Recreate
    /\ IF sessKey[s] # NoKey
       THEN Goes(s, "destroying") /\ UNCHANGED keyId
       ELSE keyId' = [keyId EXCEPT ![s] = NoKey] /\ UNCHANGED pc
    /\ UNCHANGED <<keyVars, lock, sessKey, mailVars, mishaps, untold>>

\* It got the lock; Session::destroyKey spares a key that is not its own ...
DestroyKey(s) ==
    /\ pc[s] = "destroying" /\ lock = NoOne
    /\ lock' = s
    /\ IF sessKey[s] # NoKey /\ sessKey[s] = dcKey
       THEN SetKey(NoKey)
       ELSE UNCHANGED <<dcKey, slots, untold>>
    /\ sessKey' = [sessKey EXCEPT ![s] = NoKey]
    /\ Goes(s, "destroyed")
    /\ UNCHANGED <<made, keyId, wakes, stopping, mishaps>>

\* ... and the QWriteLocker releases it at the end of its block.
LeavesLock(s) ==
    /\ pc[s] = "destroyed"
    /\ UnlockKey(s)
    /\ keyId' = [keyId EXCEPT ![s] = NoKey]
    /\ Goes(s, "disconnected")
    /\ UNCHANGED <<keyVars, sessKey, mailVars, stopping, mishaps, untold>>

-----------------------------------------------------------------------------
MainStep(s) == Start(s) \/ Resume(s) \/ AuthKeyCreatedForDC(s) \/ StopBegins(s) \/ StopEnds(s)

UpdateStep(s) ==
    Connected(s) \/ Wakes(s) \/ LockKey(s) \/ FindsTheKeyLocked(s) \/ BeginsHandshake(s)

HandshakeStep(s) ==
    WaitsForConfig(s) \/ CDNConfigLoaded(s) \/ HandshakeFails(s) \/ DhGenOk(s) \/ ReleasesKey(s)

LossStep(s) ==
    \/ Dropped(s) \/ KeyChanged(s) \/ KeyIsUnknown(s)
    \/ RetryRecreates(s) \/ DestroyKey(s) \/ LeavesLock(s)

Next == \E s \in Sessions : MainStep(s) \/ UpdateStep(s) \/ HandshakeStep(s) \/ LossStep(s)

Spec == Init /\ [][Next]_vars

\* A handler that was split goes on.
GoesOn(s) ==
    LockKey(s) \/ FindsTheKeyLocked(s) \/ BeginsHandshake(s) \/ ReleasesKey(s)
    \/ DestroyKey(s) \/ LeavesLock(s)

(* The event loops run what is queued for them, a lock that stays free is       *)
(* taken, a transport is found in the end, a server answers a handshake that is *)
(* not refused, and the configuration of the CDN arrives.                       *)
Fairness == \A s \in Sessions :
    /\ WF_vars(AuthKeyCreatedForDC(s)) /\ WF_vars(StopEnds(s))
    /\ WF_vars(Connected(s)) /\ WF_vars(Wakes(s)) /\ WF_vars(GoesOn(s))
    /\ WF_vars(DhGenOk(s)) /\ WF_vars(CDNConfigLoaded(s)) /\ WF_vars(RetryRecreates(s))

FairSpec == Spec /\ Fairness

-----------------------------------------------------------------------------
(* What is promised.                                                            *)

TypeOK ==
    /\ made \in Nat /\ dcKey \in 0 .. made
    /\ lock \in Sessions \cup {NoOne}
    /\ sessKey \in [Sessions -> 0 .. made]
    /\ keyId \in [Sessions -> -1 .. made]
    /\ pc \in [Sessions -> Places]
    /\ slots \in [Sessions -> Nat] /\ wakes \in [Sessions -> Nat]
    /\ stopping \in Sessions \cup {NoOne}
    /\ mishaps \in 0 .. MaxMishaps
    /\ untold \subseteq Sessions

\* The lock belongs to the one connection that looks for, or makes, a key: none
\* that restarts, waits, or was stopped by the main thread keeps it (lockKey and
\* unlockKey, connection.cpp:3222; doDisconnect, 1343; stop, 3240).
LockIsUsed == \A s \in Sessions : lock = s <=> pc[s] \in InLock

\* A connection that sends with another key than the data center has will be
\* told, before it can do so for ever: a slot or a wake-up is on its way
\* (setKey, dcenter.cpp:40; authKeyCreatedForDC, session.cpp:552).
StaleKeyIsTold == \A s \in Sessions :
    pc[s] = "ready" /\ keyId[s] # dcKey => slots[s] + wakes[s] > 0

\* A connection that waits for a signal ("could not lock auth_key for read, waiting
\* signal emit", connection.cpp:2511) is forgotten when there is none on its way: a
\* new one sends nothing and has no timer to try again, one that sent before will only
\* notice when it sends (Dropped).  There always is another one that is not forgotten:
\* a signal is lost only by one who saw the lock taken, or who was not told, and the
\* one that had the lock goes on (stopped ones count: stop() may end just that one).
Forgotten(s) == pc[s] = "waiting" /\ slots[s] + wakes[s] = 0
NotAllForgotten ==
    (\E s \in Sessions : Forgotten(s)) =>
        \E d \in Sessions : pc[d] # "absent" /\ ~Forgotten(d)

\* The main thread stays in stop() only while the handler it waits for is blocked
\* behind a handshake that waits for the configuration of the CDN, which the main
\* thread itself would have to ask for (connection.cpp:2529, 3241, 1365).
WaitsForMain == stopping # NoOne /\ \E d \in Sessions : pc[d] = "config"
StopReturns  == stopping # NoOne ~> MainIsFree \/ WaitsForMain

\* Every connection that is not stopped comes to use the key of the data center and
\* stays with it (updateAuthKey, connection.cpp:2502), unless the main thread is stuck
\* as above, and except for the forgotten ones.  These are only the "untold":
\*   - the handshake they waited for ended in a restart (doDisconnect, 1343), or
\*   - they took a lock held for an instant for a handshake: their signal was handled
\*     after the key was announced and before the lock was released (2897, 2899; 1061),
\*     or while another one looked at the key (2529-2535) or waited for the lock.
HasTheKey(s) == pc[s] = "ready" /\ keyId[s] = dcKey
AllGetTheKey ==
    <>[](WaitsForMain \/ \A s \in Sessions : pc[s] \in Alive =>
             HasTheKey(s) \/ (Forgotten(s) /\ s \in untold))
=============================================================================
