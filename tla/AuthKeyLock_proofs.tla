------------------------- MODULE AuthKeyLock_proofs -------------------------
(* Proofs about AuthKeyLock, for every set of sessions and every number of     *)
(* mishaps and of queued slots.                                                *)
EXTENDS AuthKeyLock, TLAPS

(* The number of keys, the keys that are known and the places have their types. *)
LEMMA TypeStep ==
    ASSUME TypeOK, [Next]_vars
    PROVE  TypeOK'
<1> USE ConstantsAssumption DEF TypeOK, Places, NoKey, Recreate
<1>1. ASSUME NEW s \in Sessions, MainStep(s)
      PROVE  TypeOK'
    <2>1. CASE Start(s)
        BY <2>1 DEF Start, Goes, keyVars, mailVars
    <2>2. CASE Resume(s)
        BY <2>2 DEF Resume, Goes, keyVars, mailVars
    <2>3. CASE AuthKeyCreatedForDC(s)
        BY <2>3 DEF AuthKeyCreatedForDC, Learns, WakesConnection, keyVars
    <2>4. CASE StopBegins(s)
        BY <2>4 DEF StopBegins, Mishap, keyVars, connVars, mailVars
    <2>5. CASE StopEnds(s)
        BY <2>5 DEF StopEnds, LetsOthersCreate, SetKey, UnlockKey, Goes
    <2>6. QED
        BY <1>1, <2>1, <2>2, <2>3, <2>4, <2>5 DEF MainStep
<1>2. ASSUME NEW s \in Sessions, UpdateStep(s)
      PROVE  TypeOK'
    <2>1. ASSUME UpdateAuthKey(s)
          PROVE  /\ keyId' \in [Sessions -> -1 .. made] /\ pc' \in [Sessions -> Places]
                 /\ untold' \subseteq Sessions
        BY <2>1 DEF UpdateAuthKey, SeesTheLock, FindsTheKey, FindsNoKey, Goes
    <2>2. CASE Connected(s)
        BY <2>1, <2>2 DEF Connected, UpdateAuthKey, Handles, keyVars
    <2>3. CASE Wakes(s)
        BY <2>1, <2>3 DEF Wakes, UpdateAuthKey, Handles, keyVars, connVars
    <2>4. CASE LockKey(s)
        BY <2>4 DEF LockKey, Goes, keyVars, mailVars
    <2>5. CASE FindsTheKeyLocked(s)
        BY <2>5 DEF FindsTheKeyLocked, UnlockKey, Goes, keyVars, mailVars
    <2>6. CASE BeginsHandshake(s)
        BY <2>6 DEF BeginsHandshake, Goes, keyVars, mailVars
    <2>7. QED
        BY <1>2, <2>2, <2>3, <2>4, <2>5, <2>6 DEF UpdateStep
<1>3. ASSUME NEW s \in Sessions, HandshakeStep(s)
      PROVE  TypeOK'
    <2>1. CASE WaitsForConfig(s)
        BY <2>1 DEF WaitsForConfig, Mishap, Handles, Goes, keyVars, mailVars
    <2>2. CASE CDNConfigLoaded(s)
        BY <2>2 DEF CDNConfigLoaded, Restart, Abandoned, UnlockKey, Handles, Goes, keyVars, mailVars
    <2>3. CASE HandshakeFails(s)
        BY <2>3 DEF HandshakeFails, Restart, Abandoned, UnlockKey, Mishap, Handles, Goes, keyVars, mailVars
    <2>4. CASE DhGenOk(s)
        BY <2>4 DEF DhGenOk, SetKey, Handles, Goes
    <2>5. CASE ReleasesKey(s)
        BY <2>5 DEF ReleasesKey, UnlockKey, Goes, keyVars, mailVars
    <2>6. QED
        BY <1>3, <2>1, <2>2, <2>3, <2>4, <2>5 DEF HandshakeStep
<1>4. ASSUME NEW s \in Sessions, LossStep(s)
      PROVE  TypeOK'
    <2>1. CASE Dropped(s)
        BY <2>1 DEF Dropped, Restart, Abandoned, UnlockKey, Mishap, Handles, Goes, keyVars, mailVars
    <2>2. CASE KeyChanged(s)
        BY <2>2 DEF KeyChanged, Restart, Abandoned, UnlockKey, Handles, Goes, keyVars, mailVars
    <2>3. CASE KeyIsUnknown(s)
        BY <2>3 DEF KeyIsUnknown, Restart, Abandoned, UnlockKey, Mishap, Handles, Goes, keyVars, mailVars
    <2>4. CASE RetryRecreates(s)
        BY <2>4 DEF RetryRecreates, Handles, Goes, keyVars, mailVars
    <2>5. CASE DestroyKey(s)
        BY <2>5 DEF DestroyKey, SetKey, Goes
    <2>6. CASE LeavesLock(s)
        BY <2>6 DEF LeavesLock, UnlockKey, Goes, keyVars, mailVars
    <2>7. QED
        BY <1>4, <2>1, <2>2, <2>3, <2>4, <2>5, <2>6 DEF LossStep
<1>5. CASE UNCHANGED vars
    BY <1>5 DEF vars, keyVars, connVars, mailVars
<1>6. QED
    BY <1>1, <1>2, <1>3, <1>4, <1>5 DEF Next

(* All that the threads share is of its type: in particular nobody uses a key  *)
(* that the server has not made (setKey, dcenter.cpp:40).                      *)
THEOREM TypeCorrect == Spec => []TypeOK
<1>1. Init => TypeOK
    BY ConstantsAssumption DEF Init, TypeOK, Places, NoKey
<1>2. QED
    BY <1>1, TypeStep, PTL DEF Spec
-----------------------------------------------------------------------------
(* The lock.  LockIsUsed is inductive: every handler that leaves a place from   *)
(* which the lock is held releases it, if its connection is the owner.          *)
LEMMA LockStep ==
    ASSUME TypeOK, LockIsUsed, [Next]_vars
    PROVE  LockIsUsed'
<1> USE ConstantsAssumption DEF TypeOK, LockIsUsed, InLock, Places
<1>1. ASSUME NEW s \in Sessions, MainStep(s)
      PROVE  LockIsUsed'
    <2>1. CASE Start(s)
        BY <2>1 DEF Start, Goes
    <2>2. CASE Resume(s)
        BY <2>2 DEF Resume, Goes
    <2>3. CASE AuthKeyCreatedForDC(s)
        BY <2>3 DEF AuthKeyCreatedForDC
    <2>4. CASE StopBegins(s)
        BY <2>4 DEF StopBegins, connVars
    <2>5. CASE StopEnds(s)
        BY <2>5 DEF StopEnds, Goes, UnlockKey, Busy
    <2>6. QED
        BY <1>1, <2>1, <2>2, <2>3, <2>4, <2>5 DEF MainStep
<1>2. ASSUME NEW s \in Sessions, UpdateStep(s)
      PROVE  LockIsUsed'
    <2>1. CASE Connected(s)
        BY <2>1 DEF Connected, UpdateAuthKey, SeesTheLock, FindsTheKey, FindsNoKey, Goes, CanRead
    <2>2. CASE Wakes(s)
        BY <2>2 DEF Wakes, UpdateAuthKey, SeesTheLock, FindsTheKey, FindsNoKey, Goes, CanRead, connVars
    <2>3. CASE LockKey(s)
        BY <2>3 DEF LockKey, Goes
    <2>4. CASE FindsTheKeyLocked(s)
        BY <2>4 DEF FindsTheKeyLocked, Goes, UnlockKey
    <2>5. CASE BeginsHandshake(s)
        BY <2>5 DEF BeginsHandshake, Goes
    <2>6. QED
        BY <1>2, <2>1, <2>2, <2>3, <2>4, <2>5 DEF UpdateStep
<1>3. ASSUME NEW s \in Sessions, HandshakeStep(s)
      PROVE  LockIsUsed'
    <2>1. CASE WaitsForConfig(s)
        BY <2>1 DEF WaitsForConfig, Goes
    <2>2. CASE CDNConfigLoaded(s)
        BY <2>2 DEF CDNConfigLoaded, Restart, UnlockKey, Goes
    <2>3. CASE HandshakeFails(s)
        BY <2>3 DEF HandshakeFails, Restart, UnlockKey, Goes
    <2>4. CASE DhGenOk(s)
        BY <2>4 DEF DhGenOk, Goes
    <2>5. CASE ReleasesKey(s)
        BY <2>5 DEF ReleasesKey, Goes, UnlockKey
    <2>6. QED
        BY <1>3, <2>1, <2>2, <2>3, <2>4, <2>5 DEF HandshakeStep
<1>4. ASSUME NEW s \in Sessions, LossStep(s)
      PROVE  LockIsUsed'
    <2>1. CASE Dropped(s)
        BY <2>1 DEF Dropped, Restart, UnlockKey, Goes
    <2>2. CASE KeyChanged(s)
        BY <2>2 DEF KeyChanged, Restart, UnlockKey, Goes
    <2>3. CASE KeyIsUnknown(s)
        BY <2>3 DEF KeyIsUnknown, Restart, UnlockKey, Goes
    <2>4. CASE RetryRecreates(s)
        BY <2>4 DEF RetryRecreates, Goes
    <2>5. CASE DestroyKey(s)
        BY <2>5 DEF DestroyKey, Goes
    <2>6. CASE LeavesLock(s)
        BY <2>6 DEF LeavesLock, UnlockKey, Goes
    <2>7. QED
        BY <1>4, <2>1, <2>2, <2>3, <2>4, <2>5, <2>6 DEF LossStep
<1>5. CASE UNCHANGED vars
    BY <1>5 DEF vars, connVars
<1>6. QED
    BY <1>1, <1>2, <1>3, <1>4, <1>5 DEF Next

(* Exactly the connection that looks for, or makes, the key owns the lock of    *)
(* the data center: no restart, wait or stop() leaves it taken (lockKey and     *)
(* unlockKey, connection.cpp:3222), and two never make a key at once.           *)
THEOREM LockOwnership == Spec => []LockIsUsed
<1>1. Init => LockIsUsed
    BY ConstantsAssumption DEF Init, LockIsUsed, InLock
<1>2. QED
    BY <1>1, LockStep, TypeCorrect, PTL DEF Spec
-----------------------------------------------------------------------------
(* The key.  A session whose copy is not the key of the data center has a slot  *)
(* queued, and a connection whose key is not its session's copy a wake-up.  A   *)
(* session that was not started hears no signal, and has no copy.               *)
KeysFollow == \A s \in Sessions :
    /\ pc[s] = "absent" => sessKey[s] = NoKey /\ slots[s] = 0
    /\ pc[s] = "ready" => keyId[s] # NoKey
    /\ sessKey[s] # NoKey /\ sessKey[s] # dcKey => slots[s] > 0
    /\ pc[s] = "ready" /\ keyId[s] # sessKey[s] => wakes[s] > 0

LEMMA KeyStep ==
    ASSUME TypeOK, LockIsUsed, KeysFollow, [Next]_vars
    PROVE  KeysFollow'
<1> USE ConstantsAssumption DEF TypeOK, KeysFollow, Places, NoKey, Recreate
<1>1. ASSUME NEW s \in Sessions, MainStep(s)
      PROVE  KeysFollow'
    <2>1. CASE Start(s)
        BY <2>1 DEF Start, Goes, mailVars, keyVars
    <2>2. CASE Resume(s)
        BY <2>2 DEF Resume, Goes, mailVars, keyVars
    <2>3. CASE AuthKeyCreatedForDC(s)
        BY <2>3 DEF AuthKeyCreatedForDC, Learns, WakesConnection, keyVars
    <2>4. CASE StopBegins(s)
        BY <2>4 DEF StopBegins, connVars, mailVars, keyVars
    <2>5. CASE StopEnds(s)
        BY <2>5 DEF StopEnds, LetsOthersCreate, SetKey, Goes
    <2>6. QED
        BY <1>1, <2>1, <2>2, <2>3, <2>4, <2>5 DEF MainStep
<1>2. ASSUME NEW s \in Sessions, UpdateStep(s)
      PROVE  KeysFollow'
    <2>1. CASE Connected(s)
        <3>1. CASE SeesTheLock(s)
            BY <2>1, <3>1 DEF Connected, UpdateAuthKey, SeesTheLock, Goes, keyVars
        <3>2. CASE FindsTheKey(s)
            BY <2>1, <3>2 DEF Connected, UpdateAuthKey, FindsTheKey, Goes, keyVars
        <3>3. CASE FindsNoKey(s)
            BY <2>1, <3>3 DEF Connected, UpdateAuthKey, FindsNoKey, Goes, keyVars
        <3>4. QED
            BY <2>1, <3>1, <3>2, <3>3 DEF Connected, UpdateAuthKey
    <2>2. CASE Wakes(s)
        <3>1. CASE pc[s] = "disconnected"
            BY <2>2, <3>1 DEF Wakes, keyVars, connVars
        <3>2. CASE pc[s] # "disconnected" /\ SeesTheLock(s)
            BY <2>2, <3>2 DEF Wakes, UpdateAuthKey, SeesTheLock, Goes, keyVars, LockIsUsed, InLock
        <3>3. CASE pc[s] # "disconnected" /\ FindsTheKey(s)
            BY <2>2, <3>3 DEF Wakes, UpdateAuthKey, FindsTheKey, Goes, keyVars
        <3>4. CASE pc[s] # "disconnected" /\ FindsNoKey(s)
            BY <2>2, <3>4 DEF Wakes, UpdateAuthKey, FindsNoKey, Goes, keyVars
        <3>5. QED
            BY <2>2, <3>1, <3>2, <3>3, <3>4 DEF Wakes, UpdateAuthKey
    <2>3. CASE LockKey(s)
        BY <2>3 DEF LockKey, Goes, mailVars, keyVars
    <2>4. CASE FindsTheKeyLocked(s)
        BY <2>4 DEF FindsTheKeyLocked, Goes, mailVars, keyVars
    <2>5. CASE BeginsHandshake(s)
        BY <2>5 DEF BeginsHandshake, Goes, mailVars, keyVars
    <2>6. QED
        BY <1>2, <2>1, <2>2, <2>3, <2>4, <2>5 DEF UpdateStep
<1>3. ASSUME NEW s \in Sessions, HandshakeStep(s)
      PROVE  KeysFollow'
    <2>1. CASE WaitsForConfig(s)
        BY <2>1 DEF WaitsForConfig, Goes, mailVars, keyVars
    <2>2. CASE CDNConfigLoaded(s)
        BY <2>2 DEF CDNConfigLoaded, Restart, Goes, mailVars, keyVars
    <2>3. CASE HandshakeFails(s)
        BY <2>3 DEF HandshakeFails, Restart, Goes, mailVars, keyVars
    <2>4. CASE DhGenOk(s)
        BY <2>4 DEF DhGenOk, SetKey, Goes
    <2>5. CASE ReleasesKey(s)
        BY <2>5 DEF ReleasesKey, Goes, mailVars, keyVars
    <2>6. QED
        BY <1>3, <2>1, <2>2, <2>3, <2>4, <2>5 DEF HandshakeStep
<1>4. ASSUME NEW s \in Sessions, LossStep(s)
      PROVE  KeysFollow'
    <2>1. CASE Dropped(s)
        BY <2>1 DEF Dropped, Restart, Goes, mailVars, keyVars
    <2>2. CASE KeyChanged(s)
        BY <2>2 DEF KeyChanged, Restart, Goes, mailVars, keyVars
    <2>3. CASE KeyIsUnknown(s)
        BY <2>3 DEF KeyIsUnknown, Restart, Goes, mailVars, keyVars
    <2>4. CASE RetryRecreates(s)
        BY <2>4 DEF RetryRecreates, Goes, mailVars, keyVars
    <2>5. CASE DestroyKey(s)
        BY <2>5 DEF DestroyKey, SetKey, Goes
    <2>6. CASE LeavesLock(s)
        BY <2>6 DEF LeavesLock, Goes, keyVars, mailVars
    <2>7. QED
        BY <1>4, <2>1, <2>2, <2>3, <2>4, <2>5, <2>6 DEF LossStep
<1>5. CASE UNCHANGED vars
    BY <1>5 DEF vars, connVars, mailVars, keyVars
<1>6. QED
    BY <1>1, <1>2, <1>3, <1>4, <1>5 DEF Next

(* A connection that sends with a key the data center has no more will be told  *)
(* (authKeyCreatedForDC, session.cpp:552), even when the copies are read while  *)
(* others hold the lock.                                                        *)
THEOREM StaleKeysAreTold == Spec => []StaleKeyIsTold
<1>1. Init => KeysFollow
    BY DEF Init, KeysFollow
<1>2. TypeOK /\ KeysFollow => StaleKeyIsTold
    BY DEF TypeOK, KeysFollow, StaleKeyIsTold
<1>3. QED
    BY <1>1, <1>2, KeyStep, TypeCorrect, LockOwnership, PTL DEF Spec

-----------------------------------------------------------------------------
(* The signal.  Not all that wait are forgotten, because who has announced a key *)
(* waits with a signal of its own, and who sees the lock taken sees somebody who  *)
(* holds it, or is about to.                                                      *)
SignalsFollow ==
    /\ NotAllForgotten
    /\ \A s \in Sessions : pc[s] = "releasing" => slots[s] + wakes[s] > 0

LEMMA SignalStep ==
    ASSUME TypeOK, LockIsUsed, SignalsFollow, [Next]_vars
    PROVE  SignalsFollow'
<1> USE ConstantsAssumption DEF TypeOK, SignalsFollow, NotAllForgotten, Forgotten, Places
<1>1. ASSUME NEW s \in Sessions, MainStep(s)
      PROVE  SignalsFollow'
    <2>1. CASE Start(s)
        BY <2>1 DEF Start, Goes, mailVars
    <2>2. CASE Resume(s)
        BY <2>2 DEF Resume, Goes, mailVars
    <2>3. CASE AuthKeyCreatedForDC(s)
        BY <2>3 DEF AuthKeyCreatedForDC, Learns, WakesConnection
    <2>4. CASE StopBegins(s)
        BY <2>4 DEF StopBegins, connVars, mailVars
    <2>5. CASE StopEnds(s)
        BY <2>5 DEF StopEnds, LetsOthersCreate, SetKey, Goes
    <2>6. QED
        BY <1>1, <2>1, <2>2, <2>3, <2>4, <2>5 DEF MainStep
<1>2. ASSUME NEW s \in Sessions, UpdateStep(s)
      PROVE  SignalsFollow'
    <2>1. CASE Connected(s)
        BY <2>1 DEF Connected, UpdateAuthKey, SeesTheLock, FindsTheKey, FindsNoKey, CannotRead,
            Goes, LockIsUsed, InLock, Blocked
    <2>2. CASE Wakes(s)
        BY <2>2 DEF Wakes, UpdateAuthKey, SeesTheLock, FindsTheKey, FindsNoKey, CannotRead,
            Goes, LockIsUsed, InLock, Blocked, Busy, connVars
    <2>3. CASE LockKey(s)
        BY <2>3 DEF LockKey, Goes, mailVars
    <2>4. CASE FindsTheKeyLocked(s)
        BY <2>4 DEF FindsTheKeyLocked, Goes, mailVars
    <2>5. CASE BeginsHandshake(s)
        BY <2>5 DEF BeginsHandshake, Goes, mailVars
    <2>6. QED
        BY <1>2, <2>1, <2>2, <2>3, <2>4, <2>5 DEF UpdateStep
<1>3. ASSUME NEW s \in Sessions, HandshakeStep(s)
      PROVE  SignalsFollow'
    <2>1. CASE WaitsForConfig(s)
        BY <2>1 DEF WaitsForConfig, Goes, mailVars
    <2>2. CASE CDNConfigLoaded(s)
        BY <2>2 DEF CDNConfigLoaded, Restart, Goes, mailVars
    <2>3. CASE HandshakeFails(s)
        BY <2>3 DEF HandshakeFails, Restart, Goes, mailVars
    <2>4. CASE DhGenOk(s)
        BY <2>4 DEF DhGenOk, SetKey, Goes
    <2>5. CASE ReleasesKey(s)
        BY <2>5 DEF ReleasesKey, Goes, mailVars
    <2>6. QED
        BY <1>3, <2>1, <2>2, <2>3, <2>4, <2>5 DEF HandshakeStep
<1>4. ASSUME NEW s \in Sessions, LossStep(s)
      PROVE  SignalsFollow'
    <2>1. CASE Dropped(s)
        BY <2>1 DEF Dropped, Restart, Goes, mailVars
    <2>2. CASE KeyChanged(s)
        BY <2>2 DEF KeyChanged, Restart, Goes, mailVars
    <2>3. CASE KeyIsUnknown(s)
        BY <2>3 DEF KeyIsUnknown, Restart, Goes, mailVars
    <2>4. CASE RetryRecreates(s)
        BY <2>4 DEF RetryRecreates, Goes, mailVars
    <2>5. CASE DestroyKey(s)
        BY <2>5 DEF DestroyKey, SetKey, Goes
    <2>6. CASE LeavesLock(s)
        BY <2>6 DEF LeavesLock, Goes, mailVars
    <2>7. QED
        BY <1>4, <2>1, <2>2, <2>3, <2>4, <2>5, <2>6 DEF LossStep
<1>5. CASE UNCHANGED vars
    BY <1>5 DEF vars, connVars, mailVars
<1>6. QED
    BY <1>1, <1>2, <1>3, <1>4, <1>5 DEF Next

(* Never do all started connections wait for a signal that nobody has emitted    *)
(* (updateAuthKey, connection.cpp:2511), whatever goes wrong and however long    *)
(* the lock is held.                                                             *)
THEOREM NotEveryoneWaits == Spec => []NotAllForgotten
<1>1. Init => SignalsFollow
    BY DEF Init, SignalsFollow, NotAllForgotten, Forgotten
<1>2. SignalsFollow => NotAllForgotten
    BY DEF SignalsFollow
<1>3. QED
    BY <1>1, <1>2, SignalStep, TypeCorrect, LockOwnership, PTL DEF Spec
=============================================================================
