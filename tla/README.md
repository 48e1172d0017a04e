# A verification project for mediasoupdemo

mediasoupdemo is an Android client for mediasoup video rooms: a Java application
(`mediasoupdemo/`), its signalling library (`protoo-client/`), and
libmediasoupclient with its JNI bindings (`mediasoup-client/`). The repository
also carries an RTMP publisher (`library/` and `app/`, yasea) and the avs audio
manager (`audioeffect/`). `settings.gradle` includes only `:mediasoupdemo` at this
commit and has the other modules commented out; all of them are in the tree. This directory holds TLA+ models of the parts in which
threads, callbacks, failures and long sequences of calls decide whether the
client works, the TLC runs that check them on small instances, and TLAPS proofs.

Run `tlc -config X.cfg M` for the runs in `PROJECT.json`, `tlapm M.tla` for the
proofs.

## The system

```
 MediasoupLoaderUtils      the current conversation, call messages of the chat
        | calls            ^ closing, established
        v                  |
 RoomActivity / MediasoupService / RoomManagement     main thread, timers, service life
        | calls            ^ MediasoupConnectCallback, observed room state
        v                  |
 RoomClient                worker thread: one task after the other
   |  ^  requests, peerListener                  | produce / consume / close
   v  |                                          v
 Protoo / Peer             mSends, timers     SendTransport, RecvTransport (C++)
   |  ^  messages, Listener callbacks            | Handler, RemoteSdp
   v  |                                          v
 WebSocketTransport        handler thread     libwebrtc PeerConnection
   |  ^  okhttp threads
   v  |
 the mediasoup server

 MainActivity (app) -> SrsPublisher -> SrsEncoder -> libenc.cc -> libyuv, x264
                          |  SrsCameraView worker, audio worker
                          v
                       SrsFlvMuxer worker -> RtmpConnection, its receiver -> RTMP server
```

| Component | State | Operations | What is hard | What makes it correct |
|---|---|---|---|---|
| `WebSocketTransport.java`, `AbsWebSocketTransport.java` | `mClosed`, `mConnected`, `mWebSocket`, the retry strategy, the handler's tasks | connect, sendMessage, close, reconnect jobs, onOpen/onClosing/onClosed/onFailure | caller, handler thread and okhttp's threads share unsynchronised fields; failures at any moment; close() waits on a latch | one connection at a time, bounded retries, messages in order, nothing written after close(), callbacks in the order the listener relies on |
| `Peer.java`, `Protoo.java` | `mSends`, timers, closed flag | request, syncRequest, responses, timeouts, close | a HashMap used by three threads; a response races the registration, a timer races the response; a blocked worker | a request is settled once and not forgotten, the blocked thread gets its answer |
| `RemoteSdp.cpp`, `MediaSection.cpp` | m= sections, `midToIndex`, `firstMid`, the SDP object | add, replace, close sections, ICE and DTLS updates | two copies of each section; reuse of closed sections; `operator[]` on an unknown mid | the map indexes the sections, the SDP object is current, the bundled section stays |
| `SendTransport`, `SendHandler`, `Producer` | producers, transceivers by mid, RemoteSdp | Produce, Close, OnClose, RestartIce | every step of the negotiation may throw, the position is chosen before the offer that must agree with it | each producer has its own section, the SDP stays in step with the PeerConnection, close reaches every producer |
| `RecvTransport`, `RecvHandler`, `Consumer` | consumers, transceivers, RemoteSdp, probation flag | Consume, Close, OnClose, RestartIce | the section is in the SDP before anything can throw; default mids from the size of a map | mids do not repeat, each consumer has its own section |
| `RoomClient.java` | closed flag, room state and its observed copy, transports, producers, consumers, tasks of two loopers | joinRoom, joinImpl, close, reactions to the link, mic, consumers | the state is written by two threads and read through an observer; tasks outlive what they were posted for | no native transport leaks, producers and consumers belong to the current transports, close ends the worker, a connection leads into the room |
| `MediasoupLoaderUtils.java`, `RoomManagement.java`, `MediasoupService.java`, `RoomActivity.java` | the current conversation and what the host was told, the room, the timers, the service and what is bound to it | call messages of the chat, start, answer, hang up, timers, callbacks of rooms, start/finish/destruction of the service | timers race answers and cancels; rooms outlive their service; one handler cleared for the sake of one timer | a call that rings or waits ends, hanging up destroys the room, nobody closes a call that was not theirs |
| `ortc.cpp`, `Device.cpp` | none / loaded capabilities | matching of codecs, header extensions, parameters | pure functions with many cases | matching agrees with a reference definition |
| yasea: `SrsFlvMuxer`, `RtmpConnection` | frame cache and its counter, sequence headers, connection flags, socket, receiver thread | start, write, stop, connect, publish, close, receiver loop | encoder threads, worker, receiver and a thread per disconnect() share one connection object without a lock; interrupts | the counter is exact, a session sends its own frames headers first, it is not torn down by the thread of the last one, stop ends |
| yasea: `SrsPublisher`, `SrsEncoder`, `SrsCameraView`, `libenc.cc` | encoders, camera, picture cache, worker threads, static native buffers | publish, pause, resume, stop, switch camera and encoder, rotate, encode | the main thread frees and resizes what a worker uses; joins of workers that wait; buttons out of step with the encoder | no two threads in the native code, pictures fit their buffers, the encoder is open when used, nothing runs once stopped |
| avs `mediamgr.c` | routing and sound categories | enter, leave, route changes | messages to a queue thread | later in the plan |
| JNI bindings, PeerConnection wrapper, RoomStore, views, PeerConnectionUtils, P2P | | | forwarding, data containers, user interface | not modelled |

## Modules

| Module | Models | Notes |
|---|---|---|
| `SignalLink` | the contract of `AbsWebSocketTransport.Listener` | abstract: which callback may follow which |
| `WebSocketTransport` | `WebSocketTransport.java` | implements `SignalLink` (property `ListenerContract`) |
| `ProtooPeer` | `Peer.java`, `Protoo.java` | built on `SignalLink`: the actions `OnOpen`, `OnFail`, ... are conjoined with it |
| `RemoteSdp` | `RemoteSdp.cpp`, `MediaSection.cpp` | operators on a record, one for each method |
| `SendTransport` | `Transport.cpp`, `Handler.cpp`, `Producer.cpp` | composes `RemoteSdp` with an external PeerConnection |
| `RecvTransport` | `Transport.cpp`, `Handler.cpp`, `Consumer.cpp` | composes `RemoteSdp` with an external PeerConnection |
| `RoomClient` | `RoomClient.java`, `RoomMessageHandler.java` | takes the link in the order `SignalLink` allows and the transports as numbers; of `RoomManagement.java` only what a room meets |
| `MediasoupCall` | `MediasoupLoaderUtils.java`, `RoomManagement.java`, `MediasoupService.java`, `RoomActivity.java` | rooms are `RoomClient` reduced to state, link and mClosed |
| `RtmpConnection` | `RtmpConnection.java` | the connection object and its threads |
| `SrsFlvMuxer` | `SrsFlvMuxer.java` | EXTENDS and composes `RtmpConnection`: its worker and its cache |
| `LibEnc` | `libenc.cc` | buffers and encoder by their sizes; checked alone and EXTENDed |
| `SrsPublisher` | `SrsPublisher.java`, `SrsEncoder.java`, `SrsCameraView.java`, `MainActivity.java` of `app/` | EXTENDS and composes `LibEnc` |
| `WebSocketTransport_proofs`, `ProtooPeer_proofs`, `SendTransport_proofs`, `RecvTransport_proofs`, `RoomClient_proofs`, `SrsFlvMuxer_proofs`, `SrsPublisher_proofs` | | inductive invariants and theorems of the module each is named after; `SrsPublisher_proofs` also those of `LibEnc` |
| `RemoteSdp_proofs` | | lemmas about the operators of `RemoteSdp`, shared by the two transports |

The definitions and the lines they translate are listed under "map" in
`PROJECT.json`. The modules are checked as they are: a .cfg gives the constants
and nothing else. Definitions commented "A plausible slip",
"Mutation" or "Mutant" are bugs the code does
not have, and are used by no specification: each property has one that it catches.

### How state and actions correspond to the code

**WebSocketTransport.** A task posted to `mHandler` is an element of `queue`; the
handler thread takes the first one. A callback that tests `mClosed` and then acts
is two steps (`Happens`, then `OnOpen`, `OnClosed`, `OnFailureRetry` or
`OnFailureGiveUp`), and so are the send and reconnect tasks, so that close() can
come in between; close() itself is `Close` (set the flag, post) and the wait for
the latch. The body of onFailure is one step after its test: what it posts comes
due a second later at the earliest. okhttp is external: `Accept`, `Break`,
`ServerClose`, `ServerAnswer`, `cancelAll`. Callbacks of one socket come one after
the other. A close frame of the server leads to onClosing(), which only logs: okhttp
4.3.0 gives onClosed() only once both sides have closed, so the socket is "ending"
until the client closes it or a write fails ("stale" from the first write on).
onClosed() follows the server's answer to close() of the client.

**ProtooPeer.** `Send` and `Register` are the two halves of request(), with the
response possible in between; `TakeResponse`/`Answer` and `TimerDue`/`TimerRun`
are the halves of handling a response and of a timeout. `mSends` is a HashMap
without a lock: a put that meets another thread may be lost, and the loop in
close() may throw; both are nondeterministic outcomes. Request ids are random
numbers in the code and distinct here.

**RemoteSdp, SendTransport, RecvTransport.** Of a section the model keeps its mid,
whether it is active or closed, its ICE parameters and setup attribute; codecs,
header extensions and candidates are left out, and so is the session version.
Positions start at 1. Each C++ operation runs to its end on the worker thread and
is one step, with one action for each place where it can fail: `Faults` names
what may fail. `pc` is libwebrtc's side: the transceiver of each m= line and the
lines rejected in the last negotiation. At most one transceiver that a failed
offer left behind is remembered; with one, every later answer is refused, so a
second one would change nothing.

**RoomClient.** `work` and `main` are the queues of the two loopers, a task is
one step. The worker blocks in requests, but what other threads do meanwhile
(set `mClosed`, post tasks, write the observed state) commutes with the task: it
is the same behaviour with that step before or after it. `seen` is RoomManagement's
copy of the room state, which an observer updates on the main thread; every
`isConnecting()` reads it. A transport is the number of the joinImpl() that made
it, so that stale producers and consumers can be told from current ones. Consumers
remember whether `isConnecting()` held when they were made: one made before the
observer has ever run is not forgotten when its transport closes. `links` has one
entry for each joinRoom(): the method has no guard and its caller looks at the
observed state only, so a second call before the observer has run makes a second
link that reports to the same listener. The properties about transports are said
of a room with one link (`Single`).
`gone` says that RoomManagement has forgotten the room. Audio stands for
the camera and share, which run the same code. `disableMic()` has no caller.

**MediasoupCall.** Each handler of the main thread is one action: a call of the
host, a message of the chat, a click, a timer, `onStartCommand` and then
`onRegisterRoom` (the activity's registration with the service), an observer.
`rooms` is one record for each RoomClient ever made, `client` the room of each service's RoomManagement; a room that was not closed when its service ended
stays and goes on calling the RoomManagement of that service, which calls the one
MediasoupLoaderUtils. `seen` is the observed state; `posted` holds the rooms whose
news wait for the observer, in order, and postValue() merges news of the same
room. CONNECTING, CONNECTED and DISCONNECTED are one value, "ALIVE", since no
handler here tells them apart; Rejected, Ended and Missed messages are handled
alike and are one kind. `timers` is the bag of what is due on `mMainHandler`, from
which the code removes everything at once. The permission may be refused. Where a
callback of a room closes the call, on the room's own worker, telling the host, the
test of mediasoupClose(), its reset and the closing of the room are steps of their
own (`Closes`, `Tests`, `Resets`, `ClosesRoom`; `todo` is what the callback has yet
to do), so that handlers and the observer come in between; the assignments of the
reset are one step. Abstractions: a second joinRoom() of the same room is one link
here (`RoomClient` has both), and the link of a room whose join failed does not
open again before the close() that was posted. Sending messages
(onSend) is left out; `own` says that a message is of another device of this user.
`lost` remembers rooms whose destroyRoom() was removed.

**RtmpConnection, SrsFlvMuxer.** `pc` says where each thread is: the worker, and
one thread per stop() that runs disconnect(), also for a stop() that finds no worker
(`StopAgain`: handleException() of the application calls it for each error); `rxpc` the same of the
receivers. A call is cut where another thread can see the difference. Sockets,
session infos and receivers carry the number of the session that made them, so
that a thread of one session working on what another made is visible. A
NullPointerException ends the process: `crash`. The exceptions to the properties
are states of the code's own faults, each a variable: `overlap` (a session was
started, or stop() called, while a disconnect() still ran), `skipped` and `headless`
(tags given back for a negative time stamp, without being counted down), `orphan` (a join() was interrupted and a
receiver outlived its connection), `swallowed` (a wait() or join() caught the
interrupt that was to end the worker). Time stamps are not modelled: any tag may be
given back for its time. The server answers or never does.

**LibEnc, SrsPublisher.** A picture is its size. `rotated` is
i420_rotated_frame: the size it remembers, and the bytes malloc gave it, which are
not the same thing. `es` is the last output of the encoder, "failed" when the one
call of x264_encoder_headers() failed: its flag was cleared before, so it is not
asked again. What such a call leaves in its result variables, which the code reads
all the same, is left out: it counts as no output. A handler of the main thread is the sequence `todo` of steps
that other threads can come between; two of them wait for a thread. The native
methods take effect at the end of an encode step of a worker, which holds the
buffers from its begin. `stray` is set when the Pause button resumes what was not
paused or the camera is switched during a pause: the code then has two workers and
forgets one, and the properties say what holds as long as that did not happen.

## Runs

Bounds are the constants `Max...`, `Retries`, `VGOP`, `Lengths` and `Threads`.
In `room` a second joinRoom() takes one ask and one drop of the bounds, in `rtmp`
`MaxSessions` counts starts and further stops. All
runs but `libenc` say `CHECK_DEADLOCK FALSE`: a client that is closed, or has used
up its bounds, stops.

| Run | Bounds | Shows |
|---|---|---|
| `transport` | 2 retries, 2 messages, 2 accepted connections: enough to fail, retry, connect, lose the connection, give up, and send in between | `OneConnection`: at most one attempt is alive and `mWebSocket` is the newest socket or null (`CurrentSocket`); `RetryBound`; `InOrder`; `SilentAfterClose`: nothing is written once close() has returned; `ListenerContract`: refinement of `SignalLink`; `CloseReturns`; `UpOrClosed`: without a connection the transport ends up connected or closed, unless the server closed its connection (`Ended`) |
| `peer` | 2 requests, one synchronous | `NeverForgotten`; `SettledOnce`: twice only when the timer already runs; `EveryRequestSettles`, which includes that a synchronous request gives its thread back |
| `send` | 4 Produce() calls, 1 ICE restart, every fault: two sections closed, one reused while another is open, a failure anywhere | `SdpConsistent` (`SectionsIndexed`, `BundleKept`, `SdpWritten`): RemoteSdp is consistent; `Aligned`: RemoteSdp and the PeerConnection agree on lines and reuse, until an offer or a renegotiation failed; `OwnSection`; `NoOrphanSection`; `ProducersWithIdClosed` |
| `recv` | 4 Consume() calls, audio and video, with and without mids from the server, 1 ICE restart, every fault | `SdpConsistent` (`BundleKept`, `SdpWritten`), `OwnSection`, `NoOrphanSection`; `MidsDistinct`: an offer never has a mid twice unless a Receive() threw |
| `room` | 2 connections, 2 lost ones, 1 consumer or unmuteMic(): join, lose, rejoin, lose again, with close and the end of the service at any moment | with one link: `NoLeak`, `MediaCurrent` (`MicCurrent`, `ConsumersCurrent`), `JoinSettles`; with any number: `CloseQuits` |
| `mic_safe` | 1 connection | violated: in a room that was joined, enableMicImpl() after the lost link dereferences the device that was disposed |
| `call` | 2 conversations (a one-on-one and a group), 2 rooms, 2 services, 3 inputs: a call, its end, and another one that meets what the first left | `CallKept`: while the room is in use no message, timer or callback takes the conversation away, only the host does, and a callback that had made its test before; `HangUpDestroys`: a hang-up closes the room unless its timer was removed; `UnansweredEnds` (`RingEnds`, `WaitEnds`): a call that rings, or waits for the other side, does not do so forever |
| `hang_up_ends` | as `call` | violated: the delayed destroyRoom() of a hang-up is removed with the other callbacks of the handler, the room goes on |
| `closes_named_call` | as `call` | violated: closing one conversation resets whatever conversation is current |
| `rtmp` | 2 sessions (or one and a further stop), video, a cache of 1, 2 tags each: stop and start meet at every step | `CountExact`: the counter is the number of video frames that wait and of those given back for their time, which are never counted down; `WireOwnTags`: only frames of this session, header first unless it was given back; `Released`: socket and receiver end with their session; `NoForeignReset`: sessions that do not overlap start on a clean object and meet no field that another set to null; `StopEnds`: stop() returns unless the worker sits for good in the handshake or a write, or swallowed its interrupt; `CacheDrains`, unless the worker sits in a write |
| `libenc` | 3 lengths: a box smaller than its source, a next source that equals the box, is larger, or is the box turned | `WithinBuffer`: no call writes past the rotated frame; `HeaderFirst`: no frame before the headers, or before the one call for them failed |
| `publisher` | 5 handlers, 2 lengths, 1 cached picture, 2 threads of a kind: publish, three handlers that meet, stop | `NativeExclusive`: main thread and workers are never in the native code together; `PictureFits`; `EncoderThere`; `Quiet`: once stopped, no thread, codec or microphone is left; `HandlersEnd` |

The findings in `PROJECT.json` quote the line of the repository that each violated
property states, and the line that breaks it.

Faults met while modelling for which no run is kept; the models contain them, and
the properties above take them as exceptions:

- `WebSocketTransport.java:206`: close() during a connection attempt finds no
  socket to close, and the socket opens afterwards.
- `Peer.java:226`: a response can come before the request is in `mSends`, which
  then only the timeout settles. `Peer.java:186`: close() after the transport
  closed by itself leaves the pending requests to their timers.
- `WebSocketTransport.java:279`: onClosing() does not answer the close frame of the
  server, so that neither onClosed() nor onFailure() follows: the listener is not told
  that the connection is lost (`AbsWebSocketTransport.java:21`), and messages still go
  to the dead socket, until a write fails (`Ended` in `UpOrClosed`).
- `Transport.cpp:247`: two producers with the empty id collide in the map, and
  one is not closed with the transport.
- `RoomClient.java:733`: a task queued before close() overwrites the CLOSED state,
  and the observer then believes the room is connecting.
- `RoomClient.java:198`: joinRoom() called again before the observer has shown the room
  connecting makes a second link, whose joinImpl() overwrites the transports of the
  first: nothing disposes those any more, also not close() ("dispose all transport and
  device", line 702).
- `MediasoupLoaderUtils.java:96`: a callback that found the room not connecting resets
  the call on its worker thread although the observer has shown the room connecting
  since ("connecting, cannot be reset", line 112; `Resetting` in `CallKept`).
- `SrsFlvMuxer.java:177`: the cache may be cleared between isEmpty() and poll() of
  the worker, whose exception ends the process; `SrsCameraView.java:293` does the
  same to the encoding thread. `SrsFlvMuxer.java:181`: an interrupt that a wait()
  inside connect() swallows leaves the main thread in join(), and so does a worker
  that is blocked in the handshake or in a write: the socket has no timeout, and is
  closed only after the join.
- `SrsFlvMuxer.java:195`: disconnect() runs on a thread of its own for each stop(). A
  session that starts, or a stop() that comes again, before it has ended meets fields
  that it sets to null. The properties say nothing of that case (`overlap`) but that
  it is the only one.
- `RtmpConnection.java:429`: a frame with a negative time stamp, which a pause ended in
  a later session gives (`SrsEncoder.java:177`), is never counted down; with `VGOP` of
  them the encoder stops for the rest of the session. `SrsEncoder` sends its headers
  once, so a header that meets this is missing.
- `libenc.cc:438`: headers that x264 failed to give are not asked for again.
- `MediasoupLoaderUtils.java:96`: the field `roomManagement` is read twice while the
  main thread may set it to null (not modelled; the test is one step).
- `services/MediasoupService.java:243`: a second invitation replaces the conversation while
  the room of the first is kept, so that answering joins the first one's room.
- `SrsEncoder.java:174`: frames encoded while a pause begins lie after its time,
  so that time stamps go back after the resume (time stamps are not modelled).

`MaxQueue` bounds the queue only for what the user and the server ask for
(consumers, unmuting); callbacks of the link, close and the observer are free.

### Fairness

- transport: the handler thread runs its tasks, delayed jobs come due, callbacks
  that have started finish, and okhttp decides every attempt by accepting it or
  failing. Android loopers and okhttp's connect timeout give this. Nothing is
  assumed of the server or of connections that are open.
- peer: the timers of the main looper come due and run, a thread inside request(),
  handleResponse() or close() goes on. No response is ever assumed to come.
- room: the worker and main loopers run what is posted, the observer runs, and
  the delayed destroyRoom() comes due. The network owes nothing. A task of the
  worker ends because syncRequest() returns, which is part of `EveryRequestSettles`.
- call: as long as timers are due one of them runs, the observer takes what is
  posted, and a service that is stopping is destroyed. Nothing is assumed of users, the chat, the network, or of
  the workers of the rooms.
- rtmp: the threads run: the worker, receivers, disconnect() threads, and encoders
  between adding a frame and counting it, except in the handshake and in a write to a
  socket that is open (`WorkerBlocked`, `CloseBlocked`, `ReceiverBlocked`), which need
  never return. Waits have timeouts in the code, so a server that never answers a
  command does not block the worker. No frame need ever come.
- publisher: the main thread goes on with its handler, each worker with its loop.

`TypeOK` is proved of `WebSocketTransport`, `ProtooPeer`, `LibEnc` (`EncTypeOK`),
`SrsPublisher` and `SrsFlvMuxer`. The proofs of the other modules
carry the types they need in their own invariants.

## Proofs

The theorems hold for every value of the constants that the named assumptions
allow: the bounds of the runs are arbitrary naturals there. Every safety property
of the runs but `CallKept` has its theorem. None of the properties is inductive by
itself; each module states an inductive invariant in named layers, proves that
every action keeps each layer, and derives the properties. The invariants were
checked with TLC, under the constants of the run, before they were proved.

**WebSocketTransport_proofs**, from `RetriesAssumption` and `BoundsAssumption`
(`Retries` in Nat \ {0}, bounds in Nat): `TypeCorrect`, `SingleConnection`
(`OneConnection`, with `CurrentSocket`), `RetriesBounded`, `MessagesInOrder`,
`NothingAfterClose` (an action property), and `ContractKept`: the transport
implements `SignalLink`. The layers:

1. `Data`: types, and that `callback` has an entry for each socket.
2. `Marked`: a close task or a closing socket means `mClosed`.
3. `Chain`: the connect task, a live socket with its callback, and a delayed
   reconnect job are links of one chain of which only one exists at a time. This
   is what makes two concurrent connections impossible: no single handler knows
   it, it follows from each link consuming its predecessor.
4. `Budget`: `retryCount`, plus the increment the handler thread still owes between
   asking for a socket and calling retried(), covers the attempts since the last
   accepted one.
5. `Ordered`: wire, then queue, is increasing.
6. `Quiet`: once close() has returned no send task is queued that could reach a
   usable socket; a transport that closed by itself has only finished sockets.
7. `Listened`, for the refinement: after onClose no callback is left to run, after
   onOpen no second one is on its way, and `mConnected` tells whether the listener
   was ever told of a connection. With it every callback is a step of `SignalLink`
   and every other action a stutter.

**ProtooPeer_proofs**, for every set of requests (`SyncAssumption`: the synchronous
ones are among them): `TypeCorrect`, `RequestsRemembered` (`NeverForgotten`),
`RequestsSettledOnce` (`SettledOnce`). The layer `Tokens` follows the right to
settle a request: `Fresh` (a request that is registered or has its timer on the
looper has not been settled), `Exclusive` (timer and answer of a request are never
both in flight once it has been settled), `Settled` (at most two outcomes, and a
second one only in `raced`). `SettledOnce` alone does not say why a third outcome
is impossible.

**RoomClient_proofs**, for any number of connections, losses, offered consumers
and queued tasks (`BoundsAssumption`): `TransportsDisposed` (`NoLeak`) and
`MediaFollowsTransport` (`MediaCurrent`), both as long as joinRoom() has made one
link: a second one breaks them. joinImpl() overwrites the transports
without looking, so the proof is about the order of the worker's tasks:
`Sequenced` says that two queued joins of a link have a "disconnected" between them, that
one comes before any join while transports are there, and that a link which is
down has queued the disposal of all there is, before it can open again. `Watched`
says that the observed state is connecting as long as there is media to be
forgotten, which is what the closing of consumers tests.

**RemoteSdp_proofs** has the lemmas: for each operation, which fields it leaves
alone and that `Whole` (map, sections, SDP object and first section in step) is
kept.

**SendTransport_proofs**, for any number of calls and any set of faults
(`FaultsAssumption`, `BoundsAssumption`, `NoneAssumption`): `SdpStaysConsistent`,
`LinesAligned` (`Aligned`), `ProducersKeepSections` (`OwnSection`),
`NoSectionOrphaned`, `ProducersClosed` (`ProducersWithIdClosed`). The code never
compares RemoteSdp with the local description. `Lined` says what relates them
however operations fail: an open section is at the line of its transceiver, a
closed one may lag behind, and only closed ones are reused; `Spare` does so of the
transceiver a failed offer left behind. `InStep` says that the two agree exactly
while no offer or renegotiation has failed; `Transceivers`, `Owned` and `Numbered`
which producer a section and a map entry belong to.

**RecvTransport_proofs**, from the same assumptions: `SdpStaysConsistent`,
`ConsumersKeepSections` (`OwnSection`), `NoSectionOrphaned`, `OfferAcceptable`
(`MidsDistinct`). A mid may be there twice after a Receive() that threw, and the
map then forgets the first section. `Offering` says that this happens to such mids
only, and that no mid in the map exceeds the size of the map, which is why the
size is a good next mid; `Served` that the map leads from each open consumer to an
active section; `Needed` whom each active section serves.

**SrsPublisher_proofs**, first of `LibEnc` for every set of even lengths
(`LengthsAssumption`): `EncTypeCorrect`, `BufferRespected` (`WithinBuffer`),
`HeadersComeFirst` (an action property; a header call that failed counts as made).
`Room` is the reason: the remembered luma
size covers the picture and two thirds of the allocation cover it, so a smaller
size in a reused buffer stays inside. Then of the publisher, for any number of
threads, clicks and cached pictures (`PublisherAssumption`): `TypeCorrect`,
`NativeCodeExclusive`, `PicturesFit`, `EncodersThere` and `QuietAfterStop`.
`Plan` is what all handlers have in common (what stops comes before what starts,
start() before what it enables), and survives taking their steps one by one.
`Prepared` says that a step which needs the threads gone, or the encoders open or
closed, finds them so or comes after the step that sees to it; `Known`, `Matched`,
`Labelled` and `Halted` relate threads, encoders, buttons and pauses. All but the
types, the room and the plan are said of behaviours that have not strayed.

**SrsFlvMuxer_proofs**, for any number of sessions and tags, every VGOP, with or
without audio (`SessionsAssumption`, `MuxerAssumption`): `TypeCorrect`,
`CounterExact` (`CountExact`), `WireInOrder` (`WireOwnTags`), `SessionsReleased`
(`Released`), `ResetStaysOwn` (`NoForeignReset`). `Control` says which thread of
which session runs when; `Flow` that tags go in order from the cache through the
worker's hand to the wire. The rest is said of a session that is `Sole`, that is
without overlap and orphan: `Connection` gives for each place of the thread that
holds the connection the fields it may find (`Blank`, `Dialed`, `Linked`), and why
the receiver can always look up what it is told; `Counted` is the counter, with the
frames given back for their time; `Headed` that each track is announced in the
cache, in the hand, on the wire, was given back, or lost with the connection. A
stop() without a session is a further thread of `Control`: without overlap it
finds the object blank. `CountExact` needs `Connection`: the counter is exact
because the connection is reset before the next session starts.

Only model-checked:

- liveness (`CloseReturns`, `UpOrClosed`, `EveryRequestSettles`, `CloseQuits`,
  `JoinSettles`, `HangUpDestroys`, `UnansweredEnds`, `StopEnds`, `CacheDrains`,
  `HandlersEnd`), which needs fairness and ENABLED;
- `CallKept` of `MediasoupCall`, whose timers are a bag and whose queue uses
  operators that are defined with RECURSIVE, which the SMT backend cannot take.

## Not modelled

The TLS set-up, JSON and SDP text, ICE and DTLS themselves, pause/resume and
statistics of producers and consumers (they forward to the track), data consumers,
the stores for the views, the views. JNI bindings forward calls; the order of
close() and dispose() is in `RoomClient`. `ortc.cpp` is pure functions over JSON
and `mediamgr.c` a table of categories behind a message queue: both are left for
later. Recording (`SrsMp4Muxer`), time stamps, bit rates and statistics of the
publisher are data no property is about.

Of the C and C++ files outside `deps/` nearly all lines are vendored x264 and
libyuv below `library/src/main/cpp`: third-party codecs, of which only success or
failure of a call matters here. They are external definitions of `LibEnc`, so the
share of all lines in the repository that the map covers stays small; the Java and
C++ of the program's own control is what it covers.

## Plan

1. Done: the signalling transport, the peer, RemoteSdp with both transports, the
   room, the call above it, the RTMP publisher from the buttons to the socket; the
   theorems above.
2. Left to model: `Ortc` (capability matching as operators against a reference
   definition); RoomStore as seen by `RoomClient` (consumers that a lost link
   leaves in it); `MediaMgr` (categories and routing).
3. Left to prove: `CallKept`, for which `MediasoupCall` has to do without bags and
   recursive operators.
4. An abstract room (disconnected, joining, joined, closed) that `RoomClient`
   implements and of which the rooms of `MediasoupCall` are instances.
