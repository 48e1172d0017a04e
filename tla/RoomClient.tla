------------------------------ MODULE RoomClient ------------------------------
(***************************************************************************)
(* RoomClient.java with RoomManagement.java as its MediasoupConnectCallback:*)
(* the life of a room over joining, losing and regaining the signalling    *)
(* connection, and closing.                                                *)
(*                                                                         *)
(* Three kinds of threads meet here.  The worker thread runs the tasks in  *)
(* `work', one after the other; the main thread runs the user's calls, the *)
(* tasks in `main' and the observer that copies the room state into        *)
(* RoomManagement; okhttp's threads deliver the callbacks of the           *)
(* signalling link in the order that SignalLink allows.  A task is one     *)
(* step: while it blocks in a request the worker runs nothing else, and    *)
(* what the other threads do meanwhile commutes with it.                   *)
(*                                                                         *)
(* The room produces audio and consumes; video is produced by the same     *)
(* code as audio and is left out, and so are mute, share and statistics.   *)
(* disableMic() has no caller.                                             *)
(* A transport is the number of the joinImpl() that created it, 0 is null. *)
(*                                                                         *)
(* Nothing keeps joinRoom() from being called again before the observer    *)
(* has shown the room connecting.  Each call makes a link of its own, all  *)
(* report to the same peerListener, and mProtoo holds the last one.        *)
(***************************************************************************)
EXTENDS Integers, Sequences

CONSTANTS
  MaxOpens,       \* bound: connections of the signalling links
  MaxDrops,       \* bound: onFail() and onDisconnected() callbacks
  MaxAsks,        \* bound: consumers that the server offers and unmuteMic() calls
                  \* (a further joinRoom() takes one of each)
  MaxQueue        \* bound: tasks waiting when the user or the server asks for more

ASSUME BoundsAssumption ==
  MaxOpens \in Nat /\ MaxDrops \in Nat /\ MaxAsks \in Nat /\ MaxQueue \in Nat

VARIABLES
  mClosed,        \* RoomClient.mClosed
  state,          \* RoomStore: the room's ConnectionState
  seen,           \* RoomManagement.connectionState
  calling,        \* RoomManagement.isMediasoupCalling
  ending,         \* a delayed destroyRoom() is due
  gone,           \* RoomManagement.mRoomClient is null again
  work, main,     \* the tasks of the worker and of the main thread
  quit,           \* the worker's looper has quit
  crashed,        \* an exception left the worker: the process ends
  links,          \* the signalling links made so far
  device, send, recv,    \* mMediasoupDevice, mSendTransport, mRecvTransport
  mic,            \* mMicProducer: the transport it was produced on
  mConsumers,     \* consumers with the transport they were made on
  live,           \* native transports that have not been disposed
  joins, calls, opens, drops, offered, mics    \* counters

manager == <<seen, calling, ending, gone>>
media == <<device, send, recv, mic, mConsumers, live, joins>>
counts == <<calls, opens, drops, offered, mics>>
vars == <<mClosed, state, work, main, quit, crashed, links, manager, media, counts>>

Init ==
  /\ mClosed = FALSE /\ state = "NEW"
  /\ seen = "NEW" /\ calling = TRUE /\ ending = FALSE /\ gone = FALSE
  /\ work = <<>> /\ main = <<>> /\ quit = FALSE /\ crashed = FALSE
  /\ links = <<>>
  /\ device = 0 /\ send = 0 /\ recv = 0 /\ mic = 0
  /\ mConsumers = {} /\ live = {}
  /\ joins = 0 /\ calls = 0 /\ opens = 0 /\ drops = 0 /\ offered = 0 /\ mics = 0

(* mProtoo: the link that was made last *)
link == IF links = <<>> THEN "none" ELSE links[Len(links)]

(* RoomManagement.isRoomConnecting() *)
isConnecting == calling /\ seen \in {"CONNECTING", "CONNECTED", "DISCONNECTED"}

(* What is left of the bounds, of which each further joinRoom() takes one. *)
further == IF calls = 0 THEN 0 ELSE calls - 1
canAsk == offered + mics + further < MaxAsks
canDrop == drops + further < MaxDrops

(* mWorkHandler.post(): dropped once the looper has quit. *)
Posted(queue, task) == IF quit THEN queue ELSE Append(queue, task)
Post(task) == work' = Posted(work, task)

-------------------------------------------------------------------------------
(* The main thread *)

(* joinRoom(): MediasoupService only asks isRoomConnecting() before it, and *)
(* RoomManagement whether there is a room.                                  *)
JoinRoom ==
  /\ ~isConnecting /\ calling /\ ~gone
  /\ calls = 0 \/ (canAsk /\ canDrop)
  /\ calls' = calls + 1
  /\ state' = "CONNECTING"
  /\ Post([do |-> "protoo"])
  /\ UNCHANGED <<mClosed, manager, main, quit, crashed, links, media, opens, drops, offered, mics>>

(* close(), called with the rest `queue' of the worker's tasks. *)
closeRoom(queue) ==
  IF mClosed THEN work' = queue /\ UNCHANGED <<mClosed, state>>
  ELSE /\ mClosed' = TRUE
       /\ work' = Posted(queue, [do |-> "close"])
       /\ state' = "CLOSED"

(* A room that is in use is muted before it is destroyed. *)
closeVideoAndAudio == ~mClosed /\ isConnecting

(* closeWebSocketDestroyRoom(), which every way to end a call leads to: a    *)
(* room that was muted is destroyed 200 ms later.                            *)
HangUp ==
  /\ calling /\ ~gone
  /\ IF closeVideoAndAudio THEN ending' = TRUE /\ UNCHANGED <<mClosed, state, work, gone>>
     ELSE closeRoom(work) /\ gone' = TRUE /\ UNCHANGED ending
  /\ UNCHANGED <<seen, calling, main, quit, crashed, links, media, counts>>

DestroyRoom ==
  /\ ending
  /\ ending' = FALSE /\ gone' = TRUE
  /\ closeRoom(work)
  /\ UNCHANGED <<seen, calling, main, quit, crashed, links, media, counts>>

(* destroy(), when the service ends: it removes all that is due on the      *)
(* handler, a delayed destroyRoom() included.                               *)
Destroy ==
  /\ calling
  /\ calling' = FALSE /\ ending' = FALSE
  /\ IF closeVideoAndAudio THEN UNCHANGED <<mClosed, state, work, gone>>
     ELSE closeRoom(work) /\ gone' = TRUE
  /\ UNCHANGED <<seen, main, quit, crashed, links, media, counts>>

UnmuteMic ==
  /\ canAsk /\ ~mClosed /\ Len(work) < MaxQueue
  /\ mics' = mics + 1
  /\ Post([do |-> "unmuteMic"])
  /\ UNCHANGED <<mClosed, state, manager, main, quit, crashed, links, media, calls, opens, drops, offered>>

(* A task that joinImpl() left for the main thread. *)
RunMain ==
  /\ main # <<>>
  /\ main' = Tail(main)
  /\ IF Head(main) = "close" THEN closeRoom(work)
     ELSE Post([do |-> "enableMic"]) /\ UNCHANGED <<mClosed, state>>
  /\ UNCHANGED <<manager, quit, crashed, links, media, counts>>

(* The observer of the store's room state, which the service owns. *)
Observe ==
  /\ calling /\ seen # state
  /\ seen' = state
  /\ UNCHANGED <<calling, ending, gone, mClosed, state, work, main, quit, crashed, links, media, counts>>

-------------------------------------------------------------------------------
(* okhttp's threads: peerListener *)

LinkOpens(i) ==
  /\ links[i] \in {"connecting", "down"} /\ opens < MaxOpens
  /\ links' = [links EXCEPT ![i] = "open"]
  /\ opens' = opens + 1
  /\ Post([do |-> "join"])
  /\ UNCHANGED <<mClosed, state, manager, main, quit, crashed, media, calls, drops, offered, mics>>

(* onFail() before the first connection, onDisconnected() after it, also    *)
(* when a reconnection fails.                                               *)
LinkFails(i) ==
  /\ links[i] \in {"connecting", "open", "down"} /\ canDrop
  /\ drops' = drops + 1
  /\ IF links[i] = "connecting" THEN links' = links /\ Post([do |-> "fail"])
     ELSE links' = [links EXCEPT ![i] = "down"] /\ Post([do |-> "disconnected"])
  /\ UNCHANGED <<mClosed, state, manager, main, quit, crashed, media, calls, opens, offered, mics>>

(* The transport gives up: onClose(). *)
LinkEnds(i) ==
  /\ links[i] \in {"connecting", "open", "down"}
  /\ links' = [links EXCEPT ![i] = "closed"]
  /\ IF mClosed THEN UNCHANGED work ELSE Post([do |-> "ended"])
  /\ UNCHANGED <<mClosed, state, manager, main, quit, crashed, media, counts>>

(* onRequest(): the server offers a consumer. *)
OfferConsumer(i) ==
  /\ links[i] = "open" /\ ~mClosed /\ canAsk /\ Len(work) < MaxQueue
  /\ offered' = offered + 1
  /\ Post([do |-> "newConsumer", id |-> offered + 1])
  /\ UNCHANGED <<mClosed, state, manager, main, quit, crashed, links, media, calls, opens, drops, mics>>

(* onNotification(): the server closed a consumer. *)
CloseConsumer(i, id) ==
  /\ links[i] = "open" /\ ~mClosed /\ Len(work) < MaxQueue
  /\ \A k \in DOMAIN work : work[k].do # "consumerClosed"
  /\ Post([do |-> "consumerClosed", id |-> id])
  /\ UNCHANGED <<mClosed, state, manager, main, quit, crashed, links, media, counts>>

-------------------------------------------------------------------------------
(* The worker thread *)

Run(task) ==
  /\ ~quit /\ work # <<>>
  /\ Head(work).do = task

RunProtoo ==
  /\ Run("protoo")
  /\ work' = Tail(work)
  /\ links' = Append(links, "connecting")
  /\ UNCHANGED <<mClosed, state, manager, main, quit, crashed, media, counts>>

(* Mutant: a failed join is only logged. *)
RunJoinLogs(steps) ==
  /\ Run("join")
  /\ steps < 4
  /\ work' = Tail(work)
  /\ joins' = joins + 1
  /\ UNCHANGED <<mClosed, state, manager, main, quit, crashed, links, device, send, recv,
                 mic, mConsumers, live, counts>>

(* The transports that a joinImpl() with that many successful steps creates. *)
createSendTransport(steps) == IF steps >= 2 THEN joins + 1 ELSE send
createRecvTransport(steps) == IF steps >= 3 THEN joins + 1 ELSE recv

(* joinImpl(), with the number of steps that succeed: the router's          *)
(* capabilities, createSendTransport(), createRecvTransport() and join.     *)
RunJoin(steps) ==
  /\ Run("join")
  /\ steps > 0 => link # "connecting"
  /\ steps = 4 => link = "open"
  /\ work' = Tail(work)
  /\ joins' = joins + 1
  /\ device' = joins'
  /\ send' = createSendTransport(steps)
  /\ recv' = createRecvTransport(steps)
  /\ live' = live \cup ({<<"send", send'>>, <<"recv", recv'>>} \ {<<"send", 0>>, <<"recv", 0>>})
  /\ state' = IF steps = 4 THEN "CONNECTED" ELSE state
  /\ main' = Append(main, IF steps = 4 THEN "enableMic" ELSE "close")
  /\ UNCHANGED <<mClosed, manager, quit, crashed, links, mic, mConsumers, counts>>

(* Mutant: the producers' listeners are not told. *)
disposeForgetsMic ==
  /\ mConsumers' = IF isConnecting THEN {c \in mConsumers : c.on # recv} ELSE mConsumers
  /\ live' = live \ {<<"send", send>>, <<"recv", recv>>}
  /\ send' = 0 /\ recv' = 0 /\ device' = 0
  /\ UNCHANGED <<mic, joins>>

(* disposeTransportDevice(): closing a transport calls the listeners of its *)
(* producers and consumers, which only act while isConnecting().            *)
disposeTransportDevice ==
  /\ mic' = IF isConnecting /\ mic = send THEN 0 ELSE mic
  /\ mConsumers' = IF isConnecting THEN {c \in mConsumers : c.on # recv} ELSE mConsumers
  /\ live' = live \ {<<"send", send>>, <<"recv", recv>>}
  /\ send' = 0 /\ recv' = 0 /\ device' = 0
  /\ UNCHANGED joins

(* RoomManagement.onConnectFail() closes the room. *)
onConnectFail(queue) == closeRoom(queue)

(* onFail() shows the room as connecting and tells RoomManagement. *)
RunFail ==
  /\ Run("fail")
  /\ IF mClosed
     THEN work' = Tail(work) /\ state' = "CONNECTING" /\ UNCHANGED mClosed
     ELSE onConnectFail(Tail(work))
  /\ UNCHANGED <<manager, main, quit, crashed, links, media, counts>>

(* Mutant: the transports are kept until the next join. *)
RunDisconnectedKeeps ==
  /\ Run("disconnected")
  /\ work' = Tail(work)
  /\ state' = "DISCONNECTED"
  /\ UNCHANGED <<mClosed, manager, main, quit, crashed, links, media, counts>>

RunDisconnected ==
  /\ Run("disconnected")
  /\ work' = Tail(work)
  /\ state' = "DISCONNECTED"
  /\ disposeTransportDevice
  /\ UNCHANGED <<mClosed, manager, main, quit, crashed, links, counts>>

RunEnded ==
  /\ Run("ended")
  /\ closeRoom(Tail(work))
  /\ UNCHANGED <<manager, main, quit, crashed, links, media, counts>>

(* Protoo.close() of the link of mProtoo, if there is one. *)
closeLink == [i \in DOMAIN links |-> IF i = Len(links) THEN "closed" ELSE links[i]]

(* Mutant: the looper is not told to quit. *)
RunCloseKeepsLooper ==
  /\ Run("close")
  /\ links' = closeLink
  /\ disposeTransportDevice
  /\ work' = Tail(work)
  /\ UNCHANGED <<mClosed, state, manager, main, quit, crashed, counts>>

(* The task of close(); what is still queued is dropped with the looper. *)
RunClose ==
  /\ Run("close")
  /\ links' = closeLink
  /\ disposeTransportDevice
  /\ quit' = TRUE /\ work' = <<>>
  /\ UNCHANGED <<mClosed, state, manager, main, crashed, counts>>

(* enableMicImpl(); produce() may throw, which is caught. *)
RunEnableMic(ok) ==
  /\ Run("enableMic")
  /\ work' = Tail(work)
  /\ crashed' = (isConnecting /\ mic = 0 /\ device = 0)
  /\ mic' = IF isConnecting /\ mic = 0 /\ device # 0 /\ send # 0 /\ ok THEN send ELSE mic
  /\ UNCHANGED <<mClosed, state, manager, main, quit, links, device, send, recv,
                 mConsumers, live, joins, counts>>

(* unmuteMicImpl(): without a producer it asks for one. *)
RunUnmuteMic ==
  /\ Run("unmuteMic")
  /\ work' = IF isConnecting /\ mic = 0 THEN Append(Tail(work), [do |-> "enableMic"])
             ELSE Tail(work)
  /\ UNCHANGED <<mClosed, state, manager, main, quit, crashed, links, media, counts>>

(* onNewConsumer(): without transport, or when consume() throws, nothing is *)
(* left but a notice.                                                       *)
RunNewConsumer(ok) ==
  /\ Run("newConsumer")
  /\ work' = Tail(work)
  /\ mConsumers' = IF ok /\ recv # 0
                   THEN mConsumers \cup {[id |-> Head(work).id, on |-> recv,
                                          known |-> isConnecting]}
                   ELSE mConsumers
  /\ UNCHANGED <<mClosed, state, manager, main, quit, crashed, links, device, send,
                 recv, mic, live, joins, counts>>

RunConsumerClosed ==
  /\ Run("consumerClosed")
  /\ work' = Tail(work)
  /\ mConsumers' = {c \in mConsumers : c.id # Head(work).id}
  /\ UNCHANGED <<mClosed, state, manager, main, quit, crashed, links, device, send,
                 recv, mic, live, joins, counts>>

Worker ==
  \/ RunProtoo
  \/ \E steps \in 0 .. 4 : RunJoin(steps)
  \/ RunFail \/ RunDisconnected \/ RunEnded \/ RunClose
  \/ \E ok \in BOOLEAN : RunEnableMic(ok) \/ RunNewConsumer(ok)
  \/ RunUnmuteMic
  \/ RunConsumerClosed

Main ==
  \/ JoinRoom \/ HangUp \/ DestroyRoom \/ Destroy
  \/ UnmuteMic
  \/ RunMain \/ Observe

Link ==
  \E i \in DOMAIN links :
    \/ LinkOpens(i) \/ LinkFails(i) \/ LinkEnds(i)
    \/ OfferConsumer(i)
    \/ \E c \in mConsumers : CloseConsumer(i, c.id)

Next == ~crashed /\ (Worker \/ Main \/ Link)

Spec == Init /\ [][Next]_vars

(* The loopers run what is posted to them; the network owes nothing. *)
FairSpec == Spec /\ WF_vars(~crashed /\ Worker) /\ WF_vars(~crashed /\ RunMain)
                 /\ WF_vars(~crashed /\ Observe) /\ WF_vars(~crashed /\ DestroyRoom)
-------------------------------------------------------------------------------
(* Types and bounds; a connection is joined at most once. *)
States == {"NEW", "CONNECTING", "CONNECTED", "DISCONNECTED", "CLOSED"}
Joins == 0 .. MaxOpens
TypeOK ==
  /\ mClosed \in BOOLEAN /\ quit \in BOOLEAN /\ crashed \in BOOLEAN
  /\ state \in States /\ seen \in States /\ calling \in BOOLEAN /\ ending \in BOOLEAN /\ gone \in BOOLEAN
  /\ links \in Seq({"connecting", "open", "down", "closed"}) /\ Len(links) <= MaxAsks + 1
  /\ \A i \in DOMAIN work :
       work[i].do \in {"protoo", "join", "fail", "disconnected", "ended", "close",
                       "enableMic", "unmuteMic", "newConsumer", "consumerClosed"}
  /\ main \in Seq({"enableMic", "close"})
  /\ device \in Joins /\ send \in Joins /\ recv \in Joins /\ mic \in Joins
  /\ mConsumers \subseteq [id : 1 .. MaxAsks, on : Joins, known : BOOLEAN]
  /\ live \subseteq {"send", "recv"} \X Joins
  /\ joins \in Joins /\ calls \in 0 .. MaxAsks + 1 /\ opens \in 0 .. MaxOpens /\ drops \in 0 .. MaxDrops
  /\ offered \in 0 .. MaxAsks /\ mics \in 0 .. MaxAsks

(* joinRoom() has made no second link beside the first. *)
Single == Len(links) <= 1

(* However often the link is lost and regained, joinImpl() never overwrites *)
(* a transport that was not disposed, and none outlives the worker.  Only a *)
(* second link, of a joinRoom() that found the room not yet seen            *)
(* connecting, joins while the transports of the first are there.           *)
NoLeak ==
  Single => /\ live = {t \in {<<"send", send>>, <<"recv", recv>>} : t[2] # 0}
            /\ quit => live = {}

(* During a call the microphone producer is one of the current send         *)
(* transport: a stale one would make enableMicImpl() return early after     *)
(* each rejoin.                                                             *)
MicCurrent == calling /\ ~mClosed /\ mic # 0 => mic = send

(* During a call the consumers that were made when RoomManagement had seen  *)
(* the room connecting belong to the current receive transport.             *)
ConsumersCurrent == calling /\ ~mClosed => \A c \in mConsumers : c.known => c.on = recv

(* Through lost links and rejoins of one link no producer or consumer of a  *)
(* transport that was disposed is taken for one of the current transport    *)
(* (disposeTransportDevice(), onTransportClose()).                          *)
MediaCurrent == Single => MicCurrent /\ ConsumersCurrent

(* close() ends the worker thread whatever is queued before its task. *)
CloseQuits == mClosed ~> (quit \/ crashed)

(* A connection that stays up leads into the room or closes it: joinImpl()  *)
(* never leaves the room connecting.  With a second link the loss of the    *)
(* other one disposes what the connected one has joined with.               *)
JoinSettles ==
  Single /\ link = "open" ~>
    (state \in {"CONNECTED", "CLOSED"} \/ link # "open" \/ ~Single \/ crashed)

(* enableMicImpl() answers a room that is not ready with a warning          *)
(* ("enableMic() | not loaded") and never with an exception, also when the  *)
(* device it was loaded with is gone.                                       *)
MicSafe == crashed => joins = 0
===============================================================================
