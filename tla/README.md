# A verification project for Telegram Desktop (longchat)

TLA+ modules, TLC models and TLAPS proofs about the parts of the client under
`Telegram/SourceFiles` where threads, the network and the disk meet. All paths
below are relative to `src/Telegram/SourceFiles/`.

Contents: [inventory](#1-the-system), [modules](#2-what-is-modelled),
[runs](#3-what-tlc-checks), [proofs](#4-what-is-proved),
[findings](#5-findings), [deviations](#6-deviations),
[abstractions](#7-what-the-models-leave-out), [not modelled](#8-not-modelled),
[plan](#9-plan).

## 1. The system

The client is one process: a main thread with Qt's event loop, one thread per
MTProto connection, and worker queues (`crl`) for the cache, media and export.
About 370,000 lines, most of them user interface. The parts with a protocol
worth checking:

| Component | State | Operations | What makes it hard |
|---|---|---|---|
| **MTProto instance** (`mtproto/mtp_instance.cpp`) | `_parserMap` (handlers), `_requestMap`, `_requestsByDc`, `_delayedRequests`, `_authWaiters`, sessions by data center | `sendRequest`, `cancel`, `execCallback`, `clearCallbacks`, `onErrorDefault`, export and import of authorizations | locks released between steps of one handler; errors handled by sending again from inside the handler |
| **Session and connection** (`mtproto/session.*`, `connection.*`) | `SessionData`: `toSend`, `haveSent`, `toResend`, `wereAcked`, `stateRequest`, `receivedResponses`, salt, each under a lock of its own | `sendPrepared`, `tryToSend`, `handleReceived` with one case per message of the protocol, `resend`, `restart`, `stop` | two threads move a request between five maps; messages are lost, repeated, answered late; queued signals |
| **Key of a data center** (`mtproto/dcenter.*`, handshake in `connection.cpp`) | the key, its read-write lock, one handshake state per connection | `updateAuthKey`, `lockKey`, `dhClientParamsAnswered`, `destroyKey`, `stop` | a write lock held across an asynchronous handshake, shared by all sessions of the data center |
| **Connections** (`connection_tcp`, `_http`, `_resolving`) | test connections, timers | connect, confirm the best, time out | timers racing with late success |
| **Data-center configuration** (`config_loader`, `special_config_request`, `dc_options`) | enumeration state | enumerate, special requests | mostly I/O |
| **Storage cache** (`storage/cache/*`) | the map of entries, the binlog, data files, a compactor on another queue | put, get, remove, prune, compact, recover | crash between binlog and data file; compaction while writing; failed I/O |
| **Local storage** (`storage/localstorage.cpp`) | two copies of each settings file | safe write, read | crash in the middle of a write |
| **Updates** (`data/data_pts_waiter.cpp`, `mainwidget.cpp`) | `_good`, `_last`, `_count`, skipped queues, difference requests, timers | `updateAndApply`, `getDifference`, gap timers | reordered and missing updates, re-entrancy while applying |
| **File transfer** (`storage/file_download.cpp`, `file_upload.cpp`) | queues of parts, requested bytes per data center | request parts, cancel, stop idle sessions | timers against new requests, retries |
| **Media streaming and clips** (`media/streaming/*`, `media/clip/*`) | ring of frames with a counter, slices of a file | decode, present, paint, load, unload | lock-free hand-over between threads, loads cancelled and resumed |
| **Sparse lists of ids** (`storage/storage_sparse_ids_list.cpp` and users) | slices with known ranges | add, remove, query | interval arithmetic |
| **Calls** (`calls/calls_call.cpp`) | state of a call | start, answer, confirm, hang up | messages crossing, timeouts |
| **API and data** (`apiwrap.cpp`, `data/data_session.cpp`, `history/*`), **export**, **start and update**, **UI** | data of the account | | large, mostly sequential |

How they interact. `MTP::send` registers the handlers of a request in the
instance and gives the request to the session of its data center. The session
queues it and wakes the connection thread by a queued signal. The connection
thread sends it, keeps it in `haveSent` until the server acknowledges or answers
it, and stores answers in `receivedResponses`; the main thread fetches them
(`tryToReceive`), and calls the handler (`execCallback`). In the other direction
the connection thread asks the main thread, again by queued signals, to resend
messages, to clear callbacks and to wake the sender.

What makes each component correct, in a sentence:

- instance and session: every registered handler is called once, with the answer
  to its own request, or told of a failure, or its request was cancelled;
- key: at most one session makes a key, every other one gets it or makes its own;
- cache: a value read is the last one written, across compaction, crash and restart;
- local storage: a crash leaves the old or the new content readable;
- updates: every update is applied once and in order, or covered by a difference;
- sparse lists: the slices are disjoint and hold exactly what was loaded;
- a streamed video: no two threads use one frame, frames come in order, and the
  three threads do not end up waiting for one another.

The places where these can go wrong are listed, with their lines, under
`hazards` in `PROJECT.json`. Lesser ones, not listed there:

- the connection: `replaceMsgId` renames a message in `haveSent` when the clock was set
  back, while the container that lists the old id is being built (connection.cpp:649);
  `resendMany` skips the id that follows a removed ping id (2405); `tryToSend` unlocks
  `toSend` before the request enters `haveSent` (883); a result that cannot be unpacked
  restarts the connection after the message was acknowledged (2050); the sweep of
  `checkRequestsByTimer` writes `msDate` under a read lock (session.cpp:327); an entry of
  `toResend` may outlive its request (496);
- the instance: `clearCallbacksDelayed` runs when the request may have been answered,
  cancelled or repeated (mtp_instance.cpp:1050);
- the cache: the guard of `compactorDone` forgets the delay that `compactorFail` has just
  set (storage_cache_database_object.cpp:703); keys to be cleared are chosen at once and
  removed chunk by chunk (771); `moveIfEmpty` writes the removal of the old key before
  the record of the new one (1047); `start` of the compactor goes on after `fail`
  (storage_cache_compactor.cpp:118); `CatchUp` copies a file that grows (198), and closing
  the second file it opens releases the POSIX lock on the binlog (399);
  `collectTimeStale` does nothing while `_minimalEntryTime` is 0
  (storage_cache_database_object.cpp:417);
- local storage: nobody looks whether a write failed, on a full disk say
  (localstorage.cpp:327);
- transfers and clips: the timer that stops idle download sessions races with new
  requests (file_download.cpp:79); the step counter of the clip reader is read and then
  written by both threads (media_clip_reader.cpp:193).

## 2. What is modelled

| Module | What it is |
|---|---|
| `MtpSession` | one MTProto session with its two threads, the handlers of the instance, and an external server |
| `RpcDelivery` | what the caller of `MTP::send` may rely on: the abstract specification |
| `MCMtpSession` | small instances for TLC |
| `MtpSession_proofs` | theorems and proofs about `MtpSession` |
| `CacheDatabase` | the storage cache: database object, compactor, files, death of the process |
| `MCCacheDatabase` | small instances for TLC |
| `CacheDatabase_proofs` | theorems and proofs about `CacheDatabase`: its types and the bundles |
| `CacheBinlog_proofs` | lemmas about binlogs of whole records: what they replay to, alone, appended and cut |
| `CacheCompaction_proofs` | theorems and proofs about `CacheDatabase`: data files, compactions, crashes |
| `PtsWaiter` | the bookkeeping of one numbered sequence of updates, as operators on a record |
| `Updates` | the two sequences of updates (of the account and of a channel), the numbered containers, differences and timers, with the server and the network |
| `MCUpdates` | small instances for TLC |
| `Updates_proofs` | theorems and proofs about `Updates` |
| `AuthKeyLock` | the sessions of one data center, their shared key and the lock held while it is made |
| `MCAuthKeyLock` | a small instance for TLC |
| `AuthKeyLock_proofs` | theorems and proofs about `AuthKeyLock` |
| `LocalStorage` | the files of the drafts and the map that lists them, with the program killed anywhere |
| `MCLocalStorage` | a small instance for TLC |
| `LocalStorage_proofs` | theorems and proofs about `LocalStorage` |
| `VideoTrack` | a streamed video from its file to the screen: three threads, four frames, one counter |
| `MCVideoTrack` | small instances for TLC |
| `VideoTrack_proofs` | theorems and proofs about `VideoTrack` |

### `MtpSession`

**State.** Each map of the code is a variable with the name of the code
(`parserMap`, `requestMap`, `delayed`, `toSend`, `stateRequest`, `haveSent`,
`toResend`, `wereAcked`, `responses`). `haveSent` maps a message id to the
request sent under it, to `Container` or to `StateRequest`; `inner` is the list of
ids inside one of those. A `SecureRequest` is shared by the maps that hold it, so
its message id (`msgIdOf`) and its `msDate = 0` mark (`msDateZero`) are state of
the request and not of an entry. `outcome` and `carried` are history: what
became of a request, and which request was sent under a message id.

**Threads.** `mainAt` and `connAt` are the points inside a handler where the code
has released one lock and not yet taken the next:

| Value | The code is |
|---|---|
| `mainAt = "erased"` | in `Session::resend`, the message is out of `haveSent` and not yet in `toSend` (session.cpp:484) |
| `mainAt = "queued"` | in `Session::resend`, it is in `toSend` and not yet in `toResend` (session.cpp:494) |
| `mainAt = "handler"` | in `execCallback`, the handler is out of `_parserMap` and being called (mtp_instance.cpp:1105) |
| `mainAt = "reinsert"` | in `execCallback`, `onErrorDefault` has already sent the request again (mtp_instance.cpp:1114) |
| `connAt = "sending"` | in `tryToSend`, `toSend` is empty and unlocked, `haveSent` not yet written (connection.cpp:884) |
| `connAt = "answer"` | in the case of `rpc_result`, after `requestsAcked` and before `wasSent` (connection.cpp:2046) |
| `connAt = "ackMore"` | between two ids of one acknowledgement (connection.cpp:2348) |

A handler of one thread excludes the other handlers of that thread (`MainIdle`,
`ConnIdle`), never those of the other thread. Queued signals are sets of pending
calls or flags: `resendCalls`, `resendAllCall`, `clearCalls`, `resumeCall`,
`needToSend`, `needToPing`; `sender` is the session's timer.

**Actions.** One per operation. The main thread: `SendRequest`, `Cancel`,
`Resend` / `ResendPrepared` / `ResendRecorded`, `ResendAll`,
`CheckRequestsByTimer`, `ExecCallback`, `HandlerCompletes`, `HandlerDelays`,
`HandlerRetries` / `HandlerReinserted`, `CheckDelayed`, `ClearCallbacks`,
`NeedToResumeAndSend`, `Ping`, `Stop`. The connection thread: `TryToSendNothing`,
`TryToSendSingle` / `SingleSent`, `TryToSendContainer`, `OnPingSendForce`,
`RpcResult` / `RpcResultStored` / `RpcResultUnreadable`, `MsgsAck` / `AckMore`,
`MsgsStateInfo`, `ServerWantsResend`, `BadMsgFatal`, `NewSessionCreated`,
`AuthKeyCreated`, `SaltReceived`, `DhGenOk`, `Restart`. External:
`ServerRepeats`. The server reacts only to messages in `server`, those that
reached it and that it has not dealt with; a broken connection loses any subset.

**Mishaps.** What may go wrong is named, so that an instance chooses the kinds it
admits (`Mishaps`) and how many there are in a behaviour (`MaxMishaps`):

`flood` (an error that delays the request), `notInited` (an error that sends it
again at once), `late` (the ten-second timer), `resend` (a rejection that asks for
the message again), `fatal` (one that does not), `newSession`, `repeat` (a message
the server comes back to), `ungzip` (an unreadable result), `restart`, `reset` (a
new session id), `keyLost`, `stop`, `ping`.

The definitions marked *variant* (`EvictedBefore`, `MovesToAckedOnAck`,
`EmitNothing`, `ReadFromHaveSent`, `PreparedAgain`, `DropHandler`,
`OutcomeCleared`, `ConnectedWithoutResend`) are what the neighbouring definition
would be with a plausible slip in the code. Nothing uses them; putting one in the
place of its neighbour makes the property named in `PROJECT.json` fail, which
shows that the property sees that part of the code.

### `RpcDelivery`

An answer arrives for a request that was made, is kept in place of an older one,
and is given to the handler while the request is pending; or it is lost or
discarded; or the request is given up, though never while its handler is
running. `MtpSession` implements it: `arrived` is the answer between
`requestsAcked` and `wasSent`, `stored` is `responses`, `handling` is the answer
in `execCallback`, and `outcome` is the history variable. The request an answer
belongs to is, in the abstract specification, the one the server answered
(`carried[connMsg]`); in the code it is the one `wasSent` finds. That the two
agree is the heart of the refinement.

### `CacheDatabase`

**State.** `map`, `removing` and `stale` are `_map`, `_removing` and `_stale` of
`DatabaseObject`; `binlogOpen` and `offset` are the state of `_binlog`, `offset`
being where the next record goes, which is not always the end of the file. `comp`
is the compactor: the place `till` where its reading ends, what it has read, the
keys it asked for, the entries it got, its temporary file and how far that file
covers the binlog. `binlog`, `ready` and `files` are what is on disk and survives
`Crash`. `mayRead` is history: what a caller who was told the results of the calls
so far may find under each key.

**A record is two blocks**, so that a write can stop in its middle and a copy can
begin in the middle of one. A record says of each key that it is set to an entry,
erased, or not mentioned: that covers `Store`, `MultiStore` and `MultiRemove`.
`Readable` is the reading of `BinlogWrapper` up to the first place that is not a
record, `Replay` the map that results, `Written` the writing of a file at its
current offset, over what is there.

**Points inside a handler**, at which the process may die (and, where the files are
concerned, the compactor may read):

| Value of `step` | The code is |
|---|---|
| `"putting"` | in `put`, the record is written and the data file is not (storage_cache_database_object.cpp:785) |
| `"moving"` | in `moveIfEmpty`, the old key's removal is written and the new key's record is not (:1052) |
| `"clearing"` | in `startStaleClear`, before the first chunk (:358) |
| `"replacing"` | in `compactorDone`, the compacted binlog is complete (:703) |
| `"renaming"` | in `compactorDone`, inside `File::Move`: the old binlog is gone (:707) |
| `"closed"` | no database is open; `OpenDiscards` and `OpenRenames` are the two halves of the `File::Move` of `openBinlog` (:200) |

**Actions.** The database: `PutRecord` / `PutData` / `PutDataFails`, `PutSame`,
`PutNotWritten`, `Get`, `Remove`, `MoveRemoves` / `MoveStores`, `StartStaleClear`,
`ClearStaleChunk`, `WriteBundles`, `DatabaseAnswers`, `CompactorFail`,
`CompactorDone` / `RemoveOldBinlog` / `RenameReady` / `RenameReadyFails`. The
compactor's queue: `CompactorReads`, `CompactorFinishes`, `CompactorCatchesUp`,
`CompactorGivesUp`. The process: `Open` and the two steps before it, `Close`,
`Crash`, `CrashInWrite`. `CheckCompactor` is the call of `checkCompactor` at the end
of the handlers that have it.

**Mishaps**: `writeFails` (of the binlog), `dataFails` (of a data file),
`compactFails` (an error of the compactor), `swapFails` (the compacted binlog cannot
be renamed after the old one was removed), `torn` (the process or the machine dies
in the middle of writing a record). A crash between two writes is not a mishap: it
is always possible.

The definitions marked *Variant* (`CompactedOnly`, `AnyPlace`, `RemoveEntryLater`,
`StillStale`, `StillRemoving`, `OpenRenamesAnyway`) serve the same purpose as those
of `MtpSession`.

### `PtsWaiter` and `Updates`

An update carries the number its sequence has after it (pts) and how many numbers it
takes. `PtsWaiter` is that class: a record of `good` (everything up to here was
applied), `last` (the highest number heard of), `count` (the sum of what was received),
the `queue` of updates held back, and the marks `requesting`, `waiting` and `polling`,
with one operator per operation. `Checked` and `Passes` are `check()`: when `last` and
`count` differ there is a hole.

**State of `Updates`.** `waiter` holds the waiter of the account and that of a channel.
`ptsTimer`, `failTimer`, `minTimer` and `seqTimer` are the timers of `MainWidget`,
`updSeq` and `bySeq` the numbered containers, `shown` says that the channel's chat is on
the screen. The server is `issued`, `ends` and `seqs`; what travels is `pushes`,
`containers` and `asked`, the requests for a difference with their answers. `applied`,
`counted` and `fedSeqs` are history: the numbers whose effects the client shows, those it
has added up, and the containers it has let in.

**Actions.** All of this runs on the main thread, so that an action is a whole handler.
What makes it hard is the network: pushes and answers come in any order, a push may get
lost, an answer holds what the server knew when it was computed. `Server`: a sequence is
extended by an update that is pushed, comes with an answer (`result`), or is applied by
the caller of a request (`affected`); a container is numbered; a push is lost; a request
is answered, in slices or not, or fails. `Receive`: what `updateReceived` and
`feedUpdate` do with each, dropped or let in (`FeedAccountUpdate`, `DropChannelUpdate`,
`ReceiveAffected`, `ReceiveContainer`, ...). `GotAnswer`: `gotDifference`,
`gotChannelDifference` and their failures. `Timers`, and `Window`: the chat of the
channel is shown, hidden or left. `ApplyUpdate` is `updateAndApply` with an update,
`CountAffected` without one.

**Mishaps**: `empty` (an update, or an answer with a pts, that takes no number),
`accountFails`, `channelFails` (a difference fails), `unknownChannel` (the channel's
number is not known at first), `notLoaded` (an update mentions somebody unknown),
`newSession`.

### `AuthKeyLock`

**State.** `dcKey` and `lock` are `_key` and `keyLock` of the `Dcenter` (a key is a
number, `made` counts them); `sessKey` and `keyId` are each session's copy of the key and
the id its connection uses. `pc` is where a connection is: without transport
(`disconnected`), `waiting` for a signal, `ready`, blocked in `lockKey` (`locking`), past
it (`locked`), in the handshake (`shaking`, `config`), between announcing the new key and
unlocking (`releasing`), blocked in `retryByTimer` to destroy a key (`destroying`), or past
that and still in the lock (`destroyed`).
`slots` are queued calls of `authKeyCreatedForDC` on the main thread, `wakes` the queued
signals to the connections, `stopping` the session whose `stop()` the main thread is in.
`untold` is history: the sessions that may wait for a signal that is past, because the
handshake they waited for ended in a restart, or because they took a lock that was held
for something else for a handshake.

**Actions.** The main thread: `Start`, `Resume`, `AuthKeyCreatedForDC`, `StopBegins` and
`StopEnds` (it waits in between until no handler of the connection runs). A connection:
`Connected` and `Wakes` (both call `updateAuthKey`), `LockKey`, `FindsTheKeyLocked`,
`BeginsHandshake`, `WaitsForConfig`, `CDNConfigLoaded`, `HandshakeFails`, `DhGenOk`,
`ReleasesKey`, `Dropped`, `KeyChanged`, `KeyIsUnknown`, `RetryRecreates`, `DestroyKey`,
`LeavesLock`. The try-lock (`CanRead`, `CannotRead`) never waits: it fails whoever holds
the lock, for however short a time.

**Mishaps**: `fails`, `dropped`, `destroyed` (a CDN server does not know the key),
`noRsaKey` (the CDN's public keys must be fetched first), `stopped`.

### `LocalStorage`

**State.** `disk` gives each file the sequence of its copies, the older one first, each
good or torn; which of the two names a copy has does not matter beyond that. The running
program has `draftsMap`, `notRead`, `mapChanged` and `mapTimer`, the `job` the main
thread is in the middle of, and the `cleaner`, the thread that removes files nothing
refers to. `wanted` and `recent` are history: the draft the user left, and the drafts
there were since nothing was left to write.

**Actions.** `Start` is `_readMap` with what follows it, `Crash` kills the program between
any two steps. `ReadDraft`, `WriteDraft`, `WriteNewDraft`, `RemoveDraft` and
`MapWriteTimeout` begin a job; a write opens the file (the older of two copies is
overwritten), `Completes` its content with the signature, and `Closes` it, which removes
the other copy; a removal is `Clears` and `ClearsAll`. The cleaner lists the files
(`CleanerLists`), has the main thread say which are in use (`CollectGoodNames`) and
removes the others one by one (`CleanerRemoves`).

### `VideoTrack`

**State.** A video is the order its frames are decoded in and how it is played (`loop`,
`late`, how often the user may pause). `counter` is `Shared::_counter`, from -1
(uninitialized) to 7, and `frames` the four frames with their position, the position of
the picture that was converted, and whether a time of display is set. The queue of the
track is `tasks` with `at`, where its handler stands, and `track`, what it knows. The
thread of the file is `file` with `reads` (not `_pauseReading`) and `semaphore`. The main
thread is `mail` with `mainAt` and `player`. Positions are numbers of frames; time is
left out: a timer may fire at any moment, a frame may be found stale or not if the
decoder may be `late`.

**Steps.** No step makes more than one access to the counter, so that the two threads
interleave wherever the code lets them. `FileThread`: `ReadPacket`, `FileReadsMore`,
`FileWakes`, `RoundEnds`. `TrackQueue`: the tasks (`FirstPacket`, `NextPacket`,
`FrameDisplayed`, `Resume`, `Pause`, `Subscribe`, `ReadFrames`), then `prepareState` with
the counter it read (`PrepareState`; `ReadNeeded`, `NoneNeeded`, `StaleDropped`), the
decoding of one frame (`ReadFrame`, `ReadWaits`, `ReadFinishes`, `ReadLoops`), and
`presentFrame` (`PresentFrame`, `ShowFrame`, `Tell`, ...). `MainThread`: what the player
does with its events (`StreamReady`, `VideoReceivedTill`, `WaitingForData`, `TrackDone`,
`CheckNextFrame`), `RenderTimerFires`, the painting of a frame in two steps (`Paint`,
`Painted`), and the notification of the frame that was displayed (`PlayedTill`).

In these modules too, definitions marked *Variant* are the slips of their neighbours that
`PROJECT.json` lists, and nothing uses them.

## 3. What TLC checks

| Run | Instance | Properties | Distinct states |
|---|---|---|---|
| `session_single` | one request, 3 mishaps of 9 kinds | `NoRequestLost`, `NoLostWakeUp`, `SentOnce` | 2,226,000 |
| `session_pair` | two requests, one without handlers, 1 mishap of 6 kinds | `TypeOK`, `MsgIdsMatch`, `PendingIsOwed`, `DeliverySpec` | 910,000 |
| `session_live` | one request, 1 mishap of 9 kinds, fair | `EveryRequestEnds` | 75,000 |
| `cache_crash` | two keys, two values, three file names, 6 blocks; crashes, `dataFails`, `compactFails` | `TypeOK`, `ReadsWhatWasPut`, `KeepsWhatWasPut`, `CompactionFaithful`, `BundleFits` | 793,000 |
| `cache_broken` | the same with 4 blocks and all mishaps | `PlacesDistinct` | 99,500 |
| `cache_torn` | the same with 6 blocks and `torn` | `KeepsWhatWasPut` (fails) | |
| `updates_live` | three updates of the account, 1 mishap of 3 kinds, fair | `TypeOK`, `NothingSkipped`, `RequestEnds`, `GapIsWatched`, `ShownChannelIsPolled`, `InOrder`, `HolesClose` | 299,000 |
| `updates_any` | two updates of a channel and three containers, 1 mishap of all 6 kinds | `NothingSkipped`, `NoContainerSkipped`, `HeldContainersAreWatched`, `NeverBack` | 1,700,000 |
| `updates_channel` | two updates of a channel, `channelFails` | `RequestEnds` (fails) | |
| `keys` | two sessions, 2 mishaps of 5 kinds, fair | `LockIsUsed`, `StaleKeyIsTold`, `NotAllForgotten`, `StopReturns`, `AllGetTheKey` | 547,000 |
| `drafts` | two chats, two texts, three files, three starts, crashes anywhere | `SettledIsDurable`, `FindsRecent`, `MapIsNeverLost` | 299,000 |
| `video` | four videos, fair | `TypeOK`, `FramesNotShared`, `PaintsItsPicture`, `NextIsThere`, `SleeperIsWoken`, `ShownInOrder`, `PlaysToTheEnd` | 653,000 |

The session:

- `NoRequestLost`: while a handler is registered, its request is in `toSend`, in
  `haveSent`, answered, delayed, in the hands of a thread, or about to have its
  callbacks cleared. A request that is nowhere would never be answered.
  It does not hold with `notInited` and `ungzip`, which are not in the run, see
  [deviations](#6-deviations).
- `SentOnce`: a request is under one message id in `haveSent`, not in `toSend` at
  the same time, and never has `msDate = 0` there (`requestsAcked` would take it
  for a container and drop it). No error that has the request sent again is in the run
  (`flood`, `notInited`): with these it fails, see [deviations](#6-deviations).
- `MsgIdsMatch`: the three maps by message id agree with what was sent.
- `PendingIsOwed`: handlers stay registered, or are being called, exactly as long
  as nobody was told how the request ended. It rules out both a handler that was
  forgotten and one that is called a second time.
- `DeliverySpec`: the refinement above, as a property.
- `NoLostWakeUp`: while connected, a non-empty queue has a timer, a queued call or
  a queued signal that will lead to `tryToSend`.
- `EveryRequestEnds`: the liveness property.

The cache:

- `ReadsWhatWasPut`: `get` returns the value of the last `put` that was reported as
  stored, or nothing where something removed, cleared or moved it or a `put` failed;
  never an older value and never another key's.
- `KeepsWhatWasPut`: the same of what the next process would read if this one died
  now. It covers the order of record and data file, the lazy removals, the two moves
  of a compaction and the recovery in `openBinlog`.
- `CompactionFaithful`: from the moment the compactor has written the entries it
  collected, its file and the part of the binlog it has not copied yet replay to the
  same contents as the whole binlog, although the entries were collected at different
  moments.
- `PlacesDistinct`: no two keys own one data file, also with everything failing. With
  `torn` the run shows it for binlogs of two records only, and it does not hold for
  much longer ones ([deviations](#6-deviations)).
- `BundleFits`: the next bundle of removed keys has room for one more.

The updates:

- `NothingSkipped`: the client never counts a number as received whose update it does not
  show, however updates were dropped, held back, counted twice or covered by a
  difference. A number counted and not shown is a message missing until the chat is
  loaded again.
- `NoContainerSkipped`: the same of the numbered containers.
- `InOrder`: while nothing is requested, an update shows only after all before it (what
  the caller of a request applies by itself excepted).
- `NeverBack`: the number the client goes by never decreases, although an answer carries
  the state of the time it was computed at.
- `RequestEnds`: a sequence marked as requesting has a request on its way or the timer of
  a failed one. The mark drops or lets through everything else, so that one without an
  end stops the sequence.
- `GapIsWatched`, `HeldContainersAreWatched`, `ShownChannelIsPolled`: while updates or
  containers are held back, or the chat is on the screen, the timer that will ask is
  armed. One timer serves two purposes, and several handlers cancel it.
- `HolesClose`: liveness: a hole is filled, by the late update or a difference.

The key:

- `LockIsUsed`: the lock is held exactly while its owner looks for a key or makes one.
- `StaleKeyIsTold`: a connection that sends with another key than that of the data center
  has a slot or a signal on its way that will tell it.
- `NotAllForgotten`: a connection that "waits for the signal" with none on its way is
  never the last one: some other session has a signal or a slot queued, looks for a key,
  makes one, uses one, or was stopped.
- `StopReturns`: the main thread comes out of `stop()`. It excepts `WaitsForMain`, the main
  thread waiting for a handler that waits for it.
- `AllGetTheKey`: in the end all connections use the data center's key and go on using it,
  but for `WaitsForMain` and the connections that are forgotten *and* `untold`. That a
  connection can be forgotten, in ordinary scheduling too, is among the
  [deviations](#6-deviations); the property says that there is no other way to it.

Local storage:

- `MapIsNeverLost`: once there is a map that can be read, there is one after any step,
  crashes in the middle of a write included. Without a map the program starts with an
  empty one and the cleaner removes everything else.
- `SettledIsDurable`: when no file is being written and the map is up to date, a start
  after a crash finds every draft as the user left it.
- `FindsRecent`: at any moment a start after a crash finds for each chat one of the drafts
  there were since nothing was left to write: not an older one, not another chat's, and
  none only if there was none. The map is written with a delay, the files at once.

The video:

- `FramesNotShared`: a frame that is painted or awaits its time is not the one the track
  decodes into, converts or exchanges, although it goes by a counter it read before.
- `PaintsItsPicture`: the frame on the screen and the one released after it hold the
  picture of their own position.
- `NextIsThere`: the player takes a frame only when there is one; otherwise the code ends
  the program ("Unexpected").
- `ShownInOrder`: each frame shown is the next one, also when two were decoded in the
  wrong order; if decoding may be late, a later one.
- `SleeperIsWoken`: the thread of the file does not sleep while it should read.
- `PlaysToTheEnd`: liveness: a video that neither loops nor is decoded late is shown to
  its last frame, unless the user leaves it paused.

**Bounds of the session, and why they suffice.** *Message ids*: three. `FreshId` may give an id
again once nothing refers to it, so that three ids never run out of new ones for
long; a request and its container, or a request, its resent copy and a state
request, are three. *Requests*: one where the races are between the maps of one
request, two where it matters that requests are not exchanged or share a
container. *`AckedLimit`* stands for `kIdsBufferSize` (400): 1 makes the
eviction happen. *`MaxMishaps`*: one to three. More than one allow a mishap in the
middle of the recovery from another one, which is where the interleavings of interest
are.
`VIEW LiveState` identifies states that differ only in data nothing reads (the
ids in a container that is gone, the history of an id that is free), and ids are
interchangeable, hence the symmetry; the liveness run uses neither.
`CHECK_DEADLOCK FALSE` everywhere: a session whose requests have all ended and
whose mishaps are used up has nothing to do.

**Bounds of the cache.** *Keys and values*: two; a key whose entry is disturbed by
another one, and a new value that may be confused with the old one. *Places*: three
names, one more than keys, so that a fresh name exists while an old file lingers;
when none is free, a `put` of a new key has to wait, where the code draws again.
*`MaxBlocks`* is the length of the binlog: six blocks are three records, which is
enough for excess (two records about a key), a compaction and a record written while
it runs; compactions shorten the log again and the history goes on. A handler
that would write beyond it does not run. *`MaxBundledRecords`* = 2: one removal
waits, the second one is written. Keys, values and places are interchangeable, hence
the symmetry. `CHECK_DEADLOCK FALSE`: with the log full and nothing to compact the
bounded model may stop.

**Bounds of the updates.** *`MaxPts`*: numbers start at 1, so that 4 for the account are
three updates (or one that takes two numbers and one that takes one), enough for a hole,
an update held back behind it and one after that; 3 for the channel are two. *`MaxSeq`* = 3
containers: one missing, one held, one after it. *`MaxNumbers`* = 3 bounds the three
sequences together. *`MaxFlight`* = 2 pushes on their way can arrive in either order, and
more are sent later. In `updates_live` the account's sequence moves and the channel is only shown and
polled; `updates_any` has the rest, with all the mishaps, without fairness. `empty`
is not among the mishaps of `updates_live`, nor `unknownChannel` or `channelFails`; see
[deviations](#6-deviations).

**Bounds of the key.** Two sessions are one that makes a key and one that waits, meets the lock or holds the
old key; two mishaps let a second one hit the recovery from the first. *`MaxSlots`* = 1:
a new key is not made while a slot of the previous one is still queued and the main thread is
free to run it; while it is in `stop()` slots pile up. The try-lock that fails is no mishap:
it may fail at any time the lock is taken.

**Bounds of the drafts.** Two chats and texts, so that one draft may be found in the place
of another; three files, so that one is made after one was removed; three starts, so that
a crash comes upon what another crash left. Peers and texts are
interchangeable. `WritesUnread` = FALSE: see below.

**Bounds of the video.** The ring has the code's four frames. One video of five frames
goes round it, with two of them exchanged; three frames suffice for two pauses by the
user; four with late decoding; a looping one of two frames is followed for *`MaxItems`* = 7
packets, which is past two rounds. *`Advance`* = 3 and *`Buffer`* = 1 make reading pause and
the player wait; *`MaxQueue`* = 2 holds back the thread of the file while that many
letters are unread, where the code has no bound.

`CHECK_DEADLOCK FALSE` in these runs too: with all numbers given out, all starts used up,
or the video at its end, nothing needs to happen.

**Fairness of the session** (`FairSpec`): each event loop runs on (weak fairness of `MainStep` and
`ConnStep`: handlers finish and queued calls are delivered), a connection is made
in the end (`Connects`: the retry timer of `restart` tries for ever), and the
server answers what reached it and what it was not made to forget. Nothing
obliges the user to send or cancel, the server to acknowledge or reject, or a
mishap to happen. `EveryRequestEnds` leaves out `ping` and `ungzip` for the
reasons given [below](#6-deviations), and `stop`: a connection made after `Session::stop` starts with
`restarted = false`, so what was in flight is resent only by
`checkRequestsByTimer` (ten seconds later, by asking for its state). The timer
itself (`late`) is left out of the liveness run because its containers of state
requests use up the three ids.

**Fairness of the updates**: a timer that is armed fires, a request for a difference is
answered (or fails), and the answer is handled. The server need not push, and no push
need arrive. **Of the key**: each thread runs what is queued for it, a lock that stays
free is taken, a transport is found and a handshake is answered; no mishap need
happen, and nobody need be resumed. **Of the video**: weak fairness of each thread and timer; strong fairness of
the main thread's letters and of its timer, because painting, which may come at any
moment, disables them time and again, while Qt's loop gets to each event. Nobody has to
repaint the window.

## 4. What is proved

`MtpSession_proofs` proves, for any sets of requests and message ids, any
`AckedLimit` and any number of mishaps, under `SessionAssumption` (the sentinels
are distinct from the requests and ids, the limit is positive):

| Theorem | States | Assumes besides |
|---|---|---|
| `TypeCorrect` | `Spec => []TypeOK` | |
| `MsgIdsCorrect` | `Spec => []MsgIdsMatch` | |
| `HandlersOwed` | `Spec => []PendingIsOwed` | |
| `DeliveryImplemented` | `Spec => DeliverySpec` | |
| `WakeUpsKept` | `Spec => []NoLostWakeUp` | no `ping` |
| `NothingLost` | `Spec => []NoRequestLost` | no `notInited`, no `ungzip` |
| `SentUnderOneId` | `Spec => []SentOnce` | no `flood`, no `notInited` |

Each rests on an inductive invariant and a lemma that every step keeps it, with
one proof step per action:

- `IdsInv` adds to `MsgIdsMatch` that the id written in a request, and the id a
  resend holds between its two locks, belong to that request. Without it a resent
  request could be entered in `haveSent` under a foreign id. A new id is in none
  of the maps (`FreshId`), which is the only place where ids are given out.
- `OwedInv` adds to `PendingIsOwed` that only requests sent with handlers have
  them, and that a handler being called is out of `parserMap`, so that
  `execCallback` cannot start it twice.
- `UsedInv`: whatever is queued, delayed, sent, stored or handled was registered.
  With `IdsInv` and `OwedInv` every step maps to a step of `RpcDelivery` or to a
  stutter (`DeliveryStep`).
- `NoRetryInv`: without `notInited` no request is resent from inside its own error
  handling, and registered handlers belong to requests still in `requestMap`, so
  that `checkDelayedRequests` finds them.
- `HeldInv` strengthens `NoRequestLost`: an entry of `haveSent` that holds a request
  must have `msDate > 0` or the request must be in `toSend` as well, because
  `requestsAcked` drops entries with `msDate = 0`. `RequestsAckedHolds` is the lemma
  about the hand-over between the maps.
- `OnceInv` strengthens `SentOnce`, which says nothing of a request while it is in no map: a
  request is in one place only, `toSend`, the hands of `tryToSend` between its two
  critical sections, `haveSent`, or the hands of `resend` between its first two; and the id
  under which `haveSent` has it is the one written in it, so that there is one. Who fills `toSend`
  is `sendRequest`, for a request that no map has heard of (`UsedInv`, `IdsInv`), and `resend`,
  for one it has taken out of `haveSent`; `NoSecondTryInv` says that with neither mishap
  `onErrorDefault` is never the third.

The inductive invariants were checked with TLC on the instances of `session_single`
and `session_pair` before they were proved.

`CacheDatabase_proofs` proves, for any keys, values and file names, any
`MaxBundledRecords` > 0, any `MaxBlocks` and any of the mishaps, under
`BundleAssumption`, `BoundAssumption` and `SentinelAssumption` (`None` and `Same` are
no values, entries or files):

| Theorem | States |
|---|---|
| `BundlesFit` | `Spec => []BundleFits` |
| `TypeCorrect` | `Spec => []TypeOK` |

- `BundleInv` adds to `BundleFits` that the bundle is finite, which makes cardinalities
  numbers. `moveIfEmpty` adds a key to the bundle without the test that `remove`
  makes; because a bundle that reaches the limit is written at once
  (`BundleGrows`), there is always room for it.
- `TypeInv` adds `StepInv` to `TypeOK`: an interrupted `put` or move has its entry,
  an interrupted `compactorDone` its compacted binlog; nothing compacts a binlog that
  is not open; and neither the writer nor the compactor stands beyond the end of the
  binlog. The last part is what the recovery after a torn write depends on: without
  it a record would be written with a hole before it. Its lemmas say what the
  operators on logs return for *any* log, the misaligned ones of `cache_torn` included
  (`ReadableFacts`, `ReplayType`, `WrittenType`).

`CacheCompaction_proofs` proves, under the same assumptions on the constants and with
the lemmas of `CacheBinlog_proofs`:

| Theorem | States | Assumes besides |
|---|---|---|
| `PlacesAreDistinct` | `Spec => []PlacesDistinct` | no `torn` |
| `CallersReadWhatWasPut` | `Spec => []ReadsWhatWasPut` | `Calm`: no mishaps but `dataFails` and `compactFails` |
| `CrashesLoseNothing` | `Spec => []KeepsWhatWasPut` | `Calm` |
| `CompactionsAreFaithful` | `Spec => []CompactionFaithful` | `Calm` |

The process may die between any two steps in all of them; `cache_torn` and the
[deviations](#6-deviations) show why each excluded mishap is excluded.

- The map, the binlog, the list the compactor collects and the binlog it writes say the
  same of a key at different moments. `PlacesInv` relates them. `DiskInv`: binlogs consist
  of whole records and no two keys have one place in what they replay to. `MapInv`: the map
  follows the binlog, but may have lost a key whose removal is still in the bundle.
  `MovingInv`: while a move has written its `MultiRemove` and not yet its `Store`, nobody has the
  place it carries. `ReadingInv`: a key that is not mentioned beyond the point up to which
  the compactor reads is in the list as in the binlog, or gone from the map, or still to be
  asked for. `CopyInv`: the compacted binlog with the rest appended replays to what the
  binlog does, except for keys the database has dropped. That exception is what makes
  compaction delicate: `processValues` drops entries whose removal no record tells yet,
  and the place is free for another key from then on, so that both binlogs have to be
  `Apart`, now and after each record that either will take.
- `KeptInv` adds the data files. `DeadInv`: where a binlog still has an entry that the map
  lost, the data file is gone, so that a process that replays the binlog finds nothing
  either. It is here that the order in `remove` (the file before the record) matters.
  `HandlerInv`: an interrupted `put` finds its entry in the map, and is not of a key that is
  still to be cleared. `ToldInv`: what the database finds now is what callers may be told,
  and so is what the next process will find if there is none. `NextFindsTheSame` concludes that from
  any other state the death of the process changes nothing.
- `CacheBinlog_proofs` says what `Replay` gives for a log that has a record appended
  (`RecordAppended`), that is cut between two records (`WholeSplit`), or that is put together from
  two logs (`WholeConcat`): the place of a key comes from the last record that mentions
  it (`MentionedLast`).

`AuthKeyLock_proofs` proves, for any sessions, mishaps and `MaxSlots`, under
`ConstantsAssumption`:

| Theorem | States | Assumes besides |
|---|---|---|
| `TypeCorrect` | `Spec => []TypeOK` | |
| `LockOwnership` | `Spec => []LockIsUsed` | |
| `StaleKeysAreTold` | `Spec => []StaleKeyIsTold` | |
| `NotEveryoneWaits` | `Spec => []NotAllForgotten` | |

- `LockIsUsed` and `TypeOK` are inductive; two connections making a key at once, or a lock
  left behind by a restart or a `stop()`, would break the first.
- `KeysFollow` adds to `StaleKeyIsTold` that a session with a copy other than the
  data center's key has a slot queued, and a connection with a key other than its
  session's copy a signal: two hops, neither of which may be dropped.
- `SignalsFollow` gives `NotAllForgotten` its reason: who has announced a key and not yet
  unlocked has a slot or a signal of its own on its way.

`LocalStorage_proofs` proves, for any chats, texts, number of files and of starts, under
`ConstantsAssumption`:

| Theorem | States | Assumes besides |
|---|---|---|
| `MapSurvives` | `Spec => MapIsNeverLost` | |
| `RecentIsFound` | `Spec => []FindsRecent` | no `WritesUnread` |
| `SettledDraftsAreDurable` | `Spec => []SettledIsDurable` | no `WritesUnread` |

- `StoreInv` says which files there are, that what is being written belongs to the map or
  to one draft, that a running program has one good copy of the map unless it is writing it,
  and that the cleaner has no file on its list that a draft uses or ever will: a file made after
  the list has a key that is not on it. With this `MapIsNeverLost` follows step by step.
- `DraftsInv` adds, for each chat, what its file, the map in memory and the map on disk
  must have to do with one another (`WantedOK`, `FileOK`, `SavedOK`, `UnsavedOK`). It
  is needed because a start reads the map on disk, which is older than the one
  in memory: a file that only the old map lists must be empty, or about to be, and a file
  that only the new map lists belongs to a draft whose absence is still recent. A file that was read has one copy,
  or the second crash in a row would find a torn one and an outdated one: hence
  `WritesUnread`.

`VideoTrack_proofs` proves, for any videos, any `Advance` and `Buffer`, and queues of any
length, under `ConstantsAssumption`:

| Theorem | States | Assumes besides |
|---|---|---|
| `TypeCorrect` | `Spec => []TypeOK` | |
| `FramesAreNotShared` | `Spec => []FramesNotShared` | |
| `PicturesAreReady` | `Spec => []PaintsItsPicture` | |
| `NextFrameIsThere` | `Spec => []NextIsThere` | |
| `SleepersAreWoken` | `Spec => []SleeperIsWoken` | |
| `FramesShowInOrder` | `Spec => ShownInOrder` | each video is `IsSortable` |

- `Inv` (`InvHolds`) adds to `TypeOK`, `PaintsItsPicture` and `NextIsThere`: until the first frame nothing but packets is
  queued (`NotYet`); the frames that the track chose with an old value of the counter are still
  its own (`TrackOwns`), because the main thread can take one frame beyond that value and no
  more; and what is being painted is the current frame (`MainPaints`), because only the
  main thread itself goes on. The lemmas about the eight values of the counter
  (`TwoOfFour`, `MainGoesOn`, `TrackGivesOne`) say which frames are whose.
- `IsSortable` is what two places can set in order: each position comes once, the first
  frame first, and no two frames are decoded before one that precedes both (a video that
  ends is also shorter than `kFinishedPosition`). The ring of the code allows no more:
  with two frames ahead of an earlier one, `prepareState` has given the first of them away
  before the third is decoded. All the videos of `video` are of this kind.
- `OrderInv` follows the frames to the screen. `TrackTurns` (`InTurn`) is about the two places
  of the track: what they hold was taken from the packets so far and is later than the
  last frame given away (`LastGiven`); what is still to be decoded is later, too; and what
  was decoded and is in neither was given away, unless it was dropped as stale. The step
  that matters is `GiveInTurn`: with two frames decoded, the earlier one is the next in
  order, because an undecoded frame before it would precede both. `MainTurns` is about
  the main thread: the frame on the screen, the one released to follow it and the position
  the player was told differ by one each, and nothing is shown before `streamReady`
  (`ReadyComes`: its letter is opened before any letter that would show a frame).
- `SleeperIsWoken` is inductive by itself with the type of the semaphore: the flag
  is cleared and the semaphore released in one handler of the main thread.

`Updates_proofs` proves, for sequences and containers of any length, any number of pushes on
their way and any number of mishaps, under `ConstantsAssumption`:

| Theorem | States | Assumes besides |
|---|---|---|
| `TypeCorrect` | `Spec => []TypeOK` | |
| `NoUpdateIsSkipped` | `Spec => []NothingSkipped` | |
| `NumbersNeverFall` | `Spec => NeverBack` | |
| `RequestsCanEnd` | `Spec => []RequestEnds` | no `channelFails` |
| `ContainersAreWatched` | `Spec => []HeldContainersAreWatched` | |
| `NoContainerIsSkipped` | `Spec => []NoContainerSkipped` | |
| `GapsAreWatched` | `Spec => []GapIsWatched` | no `empty` |
| `ShownChannelsArePolled` | `Spec => []ShownChannelIsPolled` | no `unknownChannel` |
| `UpdatesShowInOrder` | `Spec => InOrder` | no `empty` |

- `NumbersInv` strengthens `NothingSkipped`, which says nothing of a waiter with a hole in it.
  `PtsWaiter` only adds up how many numbers it received (`_count`) and compares the sum
  with the highest (`_last`), without looking which numbers they were. Four parts are needed
  to conclude from their being equal that nothing is missing. `Steady`: `_count` is the
  number of elements of `counted`, which lie between 1 and `_last` and have all up to
  `_good` among them, and each of which is shown or waits in the queue. `PushesFit`: the updates
  on their way take disjoint ranges of numbers. `Fresh`: those beyond `_good` are not
  counted yet. `AskedFit`: an answer ends where an update ends, so that it covers each
  update on its way wholly or not at all. An update counted twice would close a hole by
  arithmetic alone.
- `RequestsInv` adds to it that a sequence has at most one request on its way, only while it is marked as
  requesting, and that the request starts at `_good`, which stands still meanwhile. An answer
  computed earlier and handled later can therefore not take the client back (`NeverBack`).
- `RequestsCanEnd` needs that a channel's request does not fail: with `channelFails` the
  property is false, as the finding `updates_channel` shows.
- `HeldInv` is stronger than `HeldContainersAreWatched`: while the account waits for a
  difference, no container is held back at all. `SeqInv` is `NoContainerSkipped` with the types.
- `TimerTurn` says what a step can do to the one timer of a sequence. `Watched` adds to
  `GapIsWatched` that `_waitingForSkipped` is set while the timer is armed for a hole: leaving the chat
  cancels the timer unless it is. An `empty` update ends the wait though the hole stays, and the
  timer of an `unknownChannel` fires without asking; both are [deviations](#6-deviations).
- `InOrder` needs `OrderInv`: what is held back ends at `_last` or before (`QueueBelow`), and
  every update on its way counts something. When the sum closes the hole, `_good` jumps to
  `_last`, above all that `applySkippedUpdates` lets go at once (`CheckedOrder`), whichever part of
  the queue that is; an update without a count passes without closing anything, so that
  what was held shows before the hole is filled.

The inductive invariants of these modules were checked with TLC too before they were proved.

Left to TLC: the liveness properties (`EveryRequestEnds`, `HolesClose`, `StopReturns`,
`AllGetTheKey`, `PlaysToTheEnd`), because fairness and ENABLED are outside the prover.
Every other property of the passing runs is the conclusion of a theorem, under the
assumptions the tables name. Of the cache, `PlacesDistinct` with torn writes is only
checked, for short binlogs, and is false for long ones.

## 5. Findings

- **A torn record and a compaction lose what is put later** (`cache_torn`). After a
  crash in the middle of a write, `readBinlog` returns to the last whole record, and
  the next one is written over the torn bytes, but `checkCompactor`
  (storage_cache_database_object.cpp:1194) takes the size of the file for the place
  where the records end. The compactor then reads up to a place in the middle of the
  record that is written meanwhile, and `CatchUp` copies from there: the compacted
  binlog contains half a record, at which the next start stops reading. All that was
  put after it is lost then; the code may still be using it until it stops. The
  compactor may also stumble over the torn bytes and give up, which is harmless.
- **A channel's difference that failed is never asked for again** (`updates_channel`).
  `failChannelDifference` (mainwidget.cpp:2963) leaves the channel marked as requesting and
  starts a timer whose delay grows, "if it fails" (mainwidget.h:524).
  `getDifferenceAfterFail` takes the mark back for the account (3148) and not for a
  channel (3157), so that `getChannelDifference` returns at once (3202). From
  then on `feedUpdate` drops every update of the channel (3916), until the
  program is started again.

## 6. Deviations

Where the code, as modelled, does less than one might expect of it, besides the findings.
Each is something TLC showed, with the property and the mishap named, or was met while reading; the
runs leave these cases out.

The session:

- *`SentOnce` fails with `flood` and `notInited`*: a request sent again after an
  error has its message id zeroed in the shared object (session.cpp:537), also
  when an older resend of it is under way; it may then be in the queue and sent: the answer
  with the error arrives and the request is delayed (mtp_instance.cpp:915), a resend that began
  before puts the first copy into `haveSent` again, and the delayed one joins `toSend`. What
  `session_pair` and `session_live` check with these errors is that the handler stays
  registered and is called once, with the right answer.
- *`NoRequestLost` fails with `notInited`*: during the error handling the handler is
  out of `_parserMap`, an acknowledgement of the new copy arrives, `hasCallbacks`
  says nobody waits, and the request moves to `wereAcked` (connection.cpp:2284).
  It fails with *`ungzip`*: `requestsAcked` has moved the message to `wereAcked`
  before the result turned out to be unreadable (connection.cpp:2050).
- *`NoLostWakeUp` fails with `ping`*: `Session::ping` goes through `sendAnything(0)`,
  which stops the timer, and the signal it emits in place of `needToSend` may do
  nothing (`onPingSendForce`). The request waits for the next signal.
- *`toResend` does not keep its word.* session.h:297 says that the request of an entry
  "lies in toSend and is waiting to be resent". `Session::cancel` (session.cpp:382)
  empties `toSend` and `haveSent` and leaves the entry. It is harmless as long as
  ids are not given again, and stays until the key changes.
- *A fatal notification clears request 1 too.* connection.cpp:1782 passes
  `{ 1, RPCCallbackClear(requestId, -errorCode) }` where a vector is expected. It reads
  like "one element"; because `RPCCallbackClear` converts from an `int`
  (rpc_sender.h:258), it is a list of two, the first being `RPCCallbackClear(1)`. Request
  ids start at 1 (core/utils.cpp:452), so the handlers of the first request are
  forgotten if it is still waiting. `BadMsgFatal` models this (`FirstRequest`).

The cache:

- *`put` reports success when the binlog cannot be written* (`ReadsWhatWasPut` fails with
  `writeFails`). `writeKeyPlaceGeneric` returns an empty `QString`
  (storage_cache_database_object.cpp:848), which `put` takes for "Nothing changed" (779);
  its branch for errors (775) is unreachable.
- *`KeepsWhatWasPut` fails with `swapFails`*: `File::Move` removes the destination
  first, and when only the renaming fails `compactorFail` removes the compacted binlog
  as well.

- *`PlacesDistinct` fails with `torn`* once the binlog is long enough (a dozen blocks, six
  records, against the four blocks of `cache_broken`). A compaction after a torn write
  leaves a binlog with half a record in it, as in `cache_torn`; the next start reads up to
  that place and writes there, over what it did not read. If a compaction is then reading
  this file up to its former end, and the record of a move (`moveIfEmpty`) is among those that
  it does not see whole, the compacted binlog still has the old key beside the new one. (TLC shows it
  from such a binlog; from an empty one the history is too long for it.)
  `PlacesAreDistinct` therefore excludes `torn`.

The updates:

- *A gap is left unwatched* (`GapIsWatched` fails with `empty`). An update, or an answer, with a
  number and a count of zero passes `check()` while there is a hole
  (data_pts_waiter.cpp:139) and ends the wait, and with it cancels the timer that `check()` has just
  asked for; what was held back is applied, the hole stays until something else is
  missing. Such answers are counted in apiwrap.cpp:584, 3188, 3853 and history.cpp:2425.
- *The poll of the chat on the screen may end* (`ShownChannelIsPolled` fails with
  `unknownChannel`): its timer fires, `getChannelDifference` cannot ask for a channel whose
  number is unknown (mainwidget.cpp:1725), and nothing arms it again.

The key:

- *A connection may be forgotten*: a plain "who waits does not wait for ever" is false, with no
  mishap at all. Only the end of a handshake with a key, the destruction of a key, or `stop()`
  tells the others. There are two ways to miss it, which `untold` records:
  - `dh_gen_ok` announces the key (connection.cpp:2897) and unlocks afterwards (2899). In
    between the main thread may run the slot of another session, and its connection
    `updateAuthKey`: the try-lock fails (2509), the connection "waits for the signal" that it
    has just used up, and the maker of the key goes on. The same goes for a lock held
    while its owner looks at the key again (2529-2535), for the block of `retryByTimer`
    (1061), and for a lock that another one waits for. (TLC's shortest history: the first
    session waits, the second one announces the key, the slot and the signal of the first
    run, and then the second unlocks.)
  - A handshake fails or its connection drops. Whoever waits counts on the next key; if the
    session that restarts has a key in its copy by then, it makes none.

  A connection that is new has sent nothing, so that no timer runs for it, and while it is not
  `ConnectedState` its requests stay in `toSend` (733): it waits until the next key, until
  its transport drops, or until the options change. One that was ready before it came to wait
  notices at its next request, ping or answer and restarts (3114, 1389); `Dropped` stands for it.
- *The main thread may wait for itself* (`WaitsForMain`): a CDN's handshake that needs the
  configuration keeps the lock (connection.cpp:1365), another connection blocks in `lockKey` in
  the middle of a handler (2529), and `stop()` of that one waits for the
  handler (3240) on the main thread, which would have to ask for the configuration.
- Two keys may be made one after the other: the second connection gets the lock before the
  slot that brings its copy up to date has run (2531). `stop()` of a session in that
  second handshake sets the key of the data center to none, a good one included.

Local storage:

- *A draft written before the old one was read* (`WritesUnread`; `FindsRecent` fails). A
  crash in a write leaves an old copy and a torn one. If the next run writes the file
  without having read it, it overwrites the older copy, the good one
  (localstorage.cpp:252), and a crash in that write leaves none. Drafts are read when
  their chat is shown (history_widget.cpp:1709); `draftSavedToCloud` (history.cpp:328)
  writes them without asking for that.

The video:

- *A looping video may come to stand still.* `handleEndOfFile` goes on with the next round
  only if reading is not paused at that moment (media_streaming_file.cpp:281); else the
  thread ends. And a round that ends in `readFrames` leaves the loop with nothing
  queued (media_streaming_video_track.cpp:205).
- *One that is decoded late, too*: everything that was read in advance is found stale
  and dropped, nobody reads on, and no frame is shown that would make reading resume.
- *Presenting takes two decoded frames, reading pauses `loadInAdvanceFor` ahead*: frames
  further apart than that, or reordered more deeply, would stall (in the model with
  `Advance` = 2 and exchanged frames; the run has 3).
- `currentFramePosition` (447) does not make positions "monotonic", as the comment at 76
  has it, it only clamps them; the end is announced before the last frame is shown.

## 7. What the models leave out

The session:

- *Messages without content* (acks, pings, pongs, `http_wait`, state replies) are
  left out of the maps; that they ride along in a container is the reason why one
  request alone may be sent in one. Whether a ping is in flight when
  `onPingSendForce` runs is a free choice.
- *Clock set back*: message ids never run backwards, so the renaming in
  `replaceMsgId` and `resetSession` does not happen.
- *Requests that need no acknowledgement* go straight to `wereAcked` in the code;
  every API request needs one.
- *Merged critical sections*: those of `SessionData::clear`, of
  `checkRequestsByTimer` and of `Cancel` are one step each. The connection thread
  runs `clear` with the key locked and nothing being sent.
- *Nested resends*: `resend` of a container and `resendMany` / `resendAll` call
  `resend` in a loop; here the calls are queued. That allows more interleavings
  than the code, not fewer.
- *Queues as sets*: signals and calls are delivered in any order; an acknowledgement
  of several ids is several acknowledgements; the evicted entry of `wereAcked` is
  any one, where the code takes the oldest. All of these only add behaviours.
- *Updates* (`haveReceivedUpdates`), *killed and paused sessions*, *destruction of
  keys*; the key is created in one step here, `AuthKeyLock` shows how.

The cache:

- *Values* stand for the bytes of an entry with their tag, size and checksum;
  encryption is left out, and a checksum never agrees by accident.
- *`MultiAccess`* and the times of use decide what `prune` removes: here `prune` and
  `clearByTag` remove any keys. *`StaleRemoveChunk`* is 1.
- *Thresholds of `checkCompactor`*: any excess may or may not start a compaction, and
  the delay after a failure may be over at any time.
- *The lists of the compactor* are written in one step at its end; the code writes
  each when it has `maxBundledRecords` entries. Nothing reads the temporary file
  before.
- *A compactor that outlives its database* (closed while it works) has no effect.
- `putIfEmpty` and `copyIfEmpty` are `put` under a condition and `get` followed by
  `put`, run on the same queue.
- *A missing binlog* is an empty one; the header is not shown.
- *Left out*: `clear`, the versions of a database and their cleaner, failures to open,
  wrong keys, statistics.

The updates:

- *What an update does* is left out, and with it that applying one may feed others; an
  update shows or it does not.
- *`differenceTooLong`* is only logged by the code; *`qts`* and the date are left out; so is
  the ping after a minute without updates.
- *`getState`* has no handler for failure in the code, and does not fail here.
- *Duplicates*: the network does not repeat a push, which the code would count twice
  while it is held back.
- *One channel*; any two would only share the account's mark and the timers' code.

The key:

- *The messages of the handshake* are one step that succeeds, fails or waits for the configuration.
- *Unlocked accesses*: `getKey` and `setKey` copy a shared pointer without a lock
  (dcenter.cpp:53, session.cpp:554); each is one atomic step here.
- *`createDcData`* copies the key and then connects the signal of a new one (session.cpp:162,
  168); here it is one step, so that no key is announced in between.
- *The instance that destroys keys* (`isKeysDestroyer`) is left out.

Local storage:

- *A write either completes or the program is killed*: errors of the disk, which the code
  does not look at, are left out.
- *Times of modification* order the two copies; a tie, or a clock set back, would exchange them.
- *Draft cursors*, and the other files that the map lists, use the same operations.
- *The cleaner* takes its files in parts of 10,000; here there is one. A key is not
  made twice, where the code draws one at random and looks whether its file exists.

The video:

- *Sound*, *seeking*, speed, requests for another size (the `prepared` pictures),
  failures, `stop` and destruction are left out; and how the reader gets its bytes: packets are always there.
- *The codec* gives one frame for each packet, at once.
- *`firstPresentHappened`* ends the program if the counter is 2 or more; that does not
  happen, because the subscription is queued before the resumption.

## 8. Not modelled

Code that has a protocol of its own, and no module:

- *The instance's authorizations* (mtp_instance.cpp:1267): requests wait for an export and
  import between data centers and are forgotten when it fails; *requests that wait for
  another one* (1471); migration between data centers.
- *Lists of message ids* (storage_sparse_ids_list.cpp:68): a pure algorithm over slices.
- *Animation clips* (media_clip_reader.cpp:193): three frames handed over by a step that
  both threads write, as the four of `VideoTrack` are by a counter.
- *File transfer* (file_download.cpp:79): parts, their timers and sessions.
- *Calls*: the state machine of calls_call.cpp; sound and encryption belong to a library.
- *The reader of a stream* and its loaders: slices of a file loaded and unloaded around
  the place that is read.
- *Connections and configuration*: choosing among several transports, proxies and
  special endpoints. `MtpSession` and `AuthKeyLock` see a transport that is found in the end.
- *`clear`, versions and wrong keys of the cache*.

The order of `crl` queues is taken as first in, first out, and Qt's queued signals as
delivered once. The rest (chats and messages, export, start and update, user interface,
languages, platform) is large and mostly sequential: data and presentation, with no
protocol to check.

## 9. Plan

In the order of importance; each module gets an MC module, a run, variants and a
proof of its main invariant.

1. *Done*: `MtpSession`, `RpcDelivery`, and their proofs, of every invariant the runs check.
2. *Done*: `CacheDatabase`, with every invariant the runs check proved, without the mishaps
   `torn`, `writeFails` and `swapFails` where they break it. Left: `clear`, versions and their cleaner; an abstract
   key-value store it implements.
3. *Done*: `PtsWaiter` and `Updates` with their invariants and `InOrder` proved. Left: a
   second channel.
4. *Done*: `AuthKeyLock`, `LocalStorage` and `VideoTrack` with their proofs, of every
   safety property the runs check.
5. `MtpInstance`: export and import of authorizations, requests that wait for others,
   migration; composed with `MtpSession`.
6. `SparseIds`: the algorithm against a reference definition.
7. `ClipReader`: the three frames of a clip; `FileTransfer`; the reader of a stream.
