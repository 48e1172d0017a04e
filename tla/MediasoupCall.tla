----------------------------- MODULE MediasoupCall -----------------------------
(***************************************************************************)
(* The life of a call above RoomClient: MediasoupLoaderUtils keeps the     *)
(* current conversation and handles the call messages of the chat,         *)
(* RoomManagement owns the room and the timers, MediasoupService owns      *)
(* RoomManagement, and RoomActivity binds the service, shows the buttons   *)
(* and asks for the permissions before the room is joined.                 *)
(*                                                                         *)
(* The main thread runs one handler at a time; the workers of the rooms    *)
(* call back from their own threads, where closing the call is several     *)
(* steps: the main thread may come between the test that the room is not   *)
(* connecting and the reset.  The state of a room reaches RoomManagement   *)
(* through an observer (Observe), so `seen' lags behind.                   *)
(* A room is what RoomClient.tla says of it, reduced to its store, its     *)
(* link and mClosed.  A service that ends leaves its RoomManagement to     *)
(* the rooms that were not closed: they still call it, and it calls the    *)
(* one MediasoupLoaderUtils, which may be in another call by then.         *)
(*                                                                         *)
(* The host has called mediasoupCreate(); it opens RoomActivity for a call *)
(* that it started or that rings.  Participants' video states are left out.*)
(***************************************************************************)
EXTENDS Integers, Sequences, FiniteSets, Bags, SequencesExt

CONSTANTS
  Convs,          \* conversations
  OneOnOne,       \* those that are one-on-one, the others are groups
  None,           \* no conversation
  MaxRooms,       \* bound: RoomClients created
  MaxServices,    \* bound: times the service is created
  MaxInputs       \* bound: calls of the host, messages and clicks

ASSUME CallAssumption ==
  /\ OneOnOne \subseteq Convs /\ None \notin Convs
  /\ MaxRooms \in Nat /\ MaxServices \in Nat /\ MaxInputs \in Nat

VARIABLES
  conv, start,    \* MediasoupLoaderUtils: curRConvId, meidasoupStart
  app,            \* what the host was last told of each conversation
  service,        \* MediasoupService: "none", "up" or "stopping"
  opening,        \* what RoomActivity asked of the service and is not handled
  bound,          \* RoomActivity is registered with the service
  shown,          \* the buttons RoomActivity shows
  asking,         \* the permission dialog is open
  gen,            \* services created, the last one's RoomManagement is gen
  client,         \* mRoomClient of each RoomManagement, 0 is null
  seen,           \* connectionState of the current RoomManagement
  isOtherJoin, timers,  \* its isOtherJoin and what is due on its mMainHandler
  rooms,          \* the RoomClients, with what a callback of theirs has yet to do
  posted,         \* rooms whose news wait for the observer, in this order
  lost,           \* rooms whose delayed destroyRoom() was removed
  inputs

loader == <<conv, start, app>>
activity == <<bound, shown, asking>>
manager == <<client, seen, isOtherJoin, timers, lost>>
vars == <<loader, service, opening, activity, gen, manager, rooms, posted, inputs>>

(* A Started is "Late" when it is older than the time to answer, "Bad" is a *)
(* message that does not parse; Rejected, Ended and Missed are handled alike. *)
Kinds == {"Started", "Late", "Accepted", "Ended", "Canceled", "Bad"}

Init ==
  /\ conv = None /\ start = "none" /\ app = [c \in Convs |-> "idle"]
  /\ service = "none" /\ opening = "none"
  /\ bound = FALSE /\ shown = "none" /\ asking = FALSE
  /\ gen = 0 /\ client = [g \in 1 .. MaxServices |-> 0]
  /\ seen = "null" /\ isOtherJoin = FALSE /\ timers = EmptyBag /\ lost = {}
  /\ rooms = <<>> /\ posted = <<>> /\ inputs = 0

-------------------------------------------------------------------------------
(* RoomManagement *)

alive == service # "none"
mRoomClient == IF alive THEN client[gen] ELSE 0

(* connectionState is CONNECTING, CONNECTED or DISCONNECTED, which nothing   *)
(* here tells apart.                                                        *)
isRoomConnecting == alive /\ seen = "ALIVE"

isRoomClosed ==
  /\ seen # "null"
  /\ seen = "CLOSED" \/ mRoomClient = 0 \/ rooms[mRoomClient].closed

isOneOnOneCall == conv = None \/ conv \in OneOnOne

(* mStore.setRoomState(): news for the observer, which ends with the service. *)
Own(r) == alive /\ rooms[r].gen = gen
News(r, state) == IF Own(r) THEN state ELSE "none"

(* RoomClient.close() of room r, in the rooms rs. *)
Closed(rs, r) ==
  IF r = 0 \/ (r # 0 /\ rs[r].closed) THEN rs
  ELSE [rs EXCEPT ![r].closed = TRUE, ![r].news = News(r, "CLOSED")]

Due(kind) == BagIn(kind, timers)
Delayed == {"destroyRoom", "destroyFinish"}
DestroyDue == \E kind \in Delayed : Due(kind)
postDelayed(kind) == timers' = timers (+) SetToBag({kind})

(* mMainHandler.removeCallbacksAndMessages(null) *)
removeCallbacks ==
  /\ timers' = EmptyBag
  /\ lost' = IF DestroyDue /\ mRoomClient # 0 /\ ~rooms[mRoomClient].closed
             THEN lost \cup {mRoomClient} ELSE lost

(* onFinishServiceActivity(): RoomActivity unbinds and stops the service;   *)
(* without it the service stops itself, unless a bind is under way.         *)
onFinishServiceActivity ==
  /\ service' = IF bound \/ opening = "none" THEN "stopping" ELSE service
  /\ bound' = FALSE /\ shown' = "none"
  /\ UNCHANGED asking

(* Mutant: the room is only forgotten. *)
destroyRoomForgets ==
  /\ isOtherJoin' = FALSE
  /\ client' = [client EXCEPT ![gen] = 0]
  /\ UNCHANGED rooms

destroyRoom ==
  /\ isOtherJoin' = FALSE
  /\ rooms' = Closed(rooms, mRoomClient)
  /\ client' = [client EXCEPT ![gen] = 0]

closeVideoAndAudio == mRoomClient # 0 /\ ~isRoomClosed /\ isRoomConnecting

(* closeWebSocketDestroyRoom(finish): a room in use is muted and destroyed  *)
(* 200 ms later.                                                            *)
closeWebSocketDestroyRoom(finish) ==
  /\ IF closeVideoAndAudio
     THEN /\ postDelayed(IF finish THEN "destroyFinish" ELSE "destroyRoom")
          /\ UNCHANGED <<client, isOtherJoin, rooms>>
     ELSE /\ destroyRoom
          /\ UNCHANGED timers
  /\ UNCHANGED <<seen, lost>>

-------------------------------------------------------------------------------
(* MediasoupLoaderUtils *)

Told(c, what) == IF c \in Convs THEN [app EXCEPT ![c] = what] ELSE app

(* mediasoupClose(): the call is kept while its room is connecting.  On the *)
(* main thread, which also runs the observer, this is one step.             *)
mediasoupClose ==
  IF isRoomConnecting THEN UNCHANGED <<conv, start>> ELSE conv' = None /\ start' = "none"

(* closedMediasoup() of conversation c *)
closedMediasoup(c) == app' = Told(c, "idle") /\ mediasoupClose

establishedJoinMediasoup ==
  /\ app' = Told(conv, "established")
  /\ UNCHANGED <<conv, start>>

(* What ends call c when there is a RoomManagement: the service is finished *)
(* with the room or, without `finish', at once.                             *)
EndCall(c, finish) ==
  /\ closedMediasoup(c)
  /\ closeWebSocketDestroyRoom(finish)
  /\ IF finish /\ closeVideoAndAudio THEN UNCHANGED <<service, activity>>
     ELSE onFinishServiceActivity
  /\ UNCHANGED <<opening, gen>>

OnlyLoader == UNCHANGED <<service, opening, activity, gen, manager, rooms>>

(* An invitation *)
receiveStarted(c, own, late) ==
  /\ IF isRoomConnecting
     THEN IF c = conv THEN UNCHANGED loader ELSE closedMediasoup(c)
     ELSE IF late
     THEN /\ app' = [d \in Convs |-> IF d \in {c, conv} THEN "idle" ELSE app[d]]
          /\ mediasoupClose
     ELSE IF own THEN closedMediasoup(c)
     ELSE conv' = c /\ start' = "OtherCalling" /\ app' = Told(c, "ringing")
  /\ OnlyLoader

(* The other side accepts, or another device of this user. *)
receiveAccepted(c, own) ==
  IF own
  THEN IF alive THEN EndCall(c, TRUE) ELSE closedMediasoup(c) /\ OnlyLoader
  ELSE IF alive /\ start = "SelfCalling"
  THEN /\ removeCallbacks
       /\ establishedJoinMediasoup
       /\ UNCHANGED <<service, opening, activity, gen, client, seen, isOtherJoin, rooms>>
  ELSE /\ IF ~alive /\ isOneOnOneCall THEN closedMediasoup(c) ELSE UNCHANGED loader
       /\ OnlyLoader

(* The other side rejects, ends or misses the call: a group goes on. *)
receiveEnd(c, own) ==
  IF own \/ ~isOneOnOneCall THEN UNCHANGED loader /\ OnlyLoader
  ELSE IF alive THEN EndCall(c, TRUE)
  ELSE closedMediasoup(c) /\ OnlyLoader

receiveCanceled(c, own) ==
  IF own THEN UNCHANGED loader /\ OnlyLoader
  ELSE IF alive THEN EndCall(c, FALSE)
  ELSE closedMediasoup(c) /\ OnlyLoader

Input == inputs < MaxInputs /\ inputs' = inputs + 1

(* receiveCallMessage(), from another user or another device of this one. *)
receiveCallMessage(kind, c, own) ==
  /\ Input
  /\ CASE kind \in {"Started", "Late"} -> receiveStarted(c, own, kind = "Late")
       [] kind = "Bad" \/ c # conv -> closedMediasoup(c) /\ OnlyLoader
       [] kind = "Accepted" -> receiveAccepted(c, own)
       [] kind = "Canceled" -> receiveCanceled(c, own)
       [] OTHER -> receiveEnd(c, own)

startCall(c) ==
  /\ Input
  /\ conv' = c /\ start' = "SelfCalling" /\ app' = Told(c, "ringing")

mediasoupStartCall(c) == startCall(c) /\ OnlyLoader

(* MediasoupMainActivity.joinClick() with the service bound: it joins by    *)
(* the room that is there.                                                  *)
joinClick(c) ==
  /\ bound
  /\ startCall(c)
  /\ asking' = (asking \/ ~isRoomConnecting)
  /\ UNCHANGED <<service, opening, bound, shown, gen, manager, rooms>>

(* mediasoupAnswerCall(): answers in the activity that shows the call; the  *)
(* host opens one otherwise.                                                *)
mediasoupAnswerCall(c) ==
  /\ Input
  /\ start' = "OtherCalling" /\ conv' = c
  /\ asking' = (asking \/ (bound /\ c = conv))
  /\ UNCHANGED <<app, service, opening, bound, shown, gen, manager, rooms>>

-------------------------------------------------------------------------------
(* MediasoupService and RoomActivity *)

(* rejectViewData(): the buttons for the state of the call. *)
Buttons ==
  IF isRoomConnecting THEN "end" ELSE IF start = "OtherCalling" THEN "answer" ELSE "cancel"

(* RoomActivity.onCreate() binds and starts the service; Android delivers   *)
(* the start before the connection.  An activity that is bound stays as it  *)
(* is (singleTask, onNewIntent()).                                          *)
OpenActivity ==
  /\ conv # None /\ ~bound /\ opening = "none" /\ service # "stopping"
  /\ service = "none" => gen < MaxServices
  /\ opening' = "start"
  /\ service' = "up"
  /\ gen' = IF service = "none" THEN gen + 1 ELSE gen
  /\ UNCHANGED <<loader, activity, manager, rooms, inputs>>

isMediasoupReady == conv # None /\ \E r \in DOMAIN rooms : rooms[r].gen = gen

(* createMediasoupRoom() has nothing to create. *)
RoomReady == isRoomConnecting \/ (isMediasoupReady /\ ~isRoomClosed)

acceptAnsweredTime ==
  IF ~isRoomConnecting /\ start = "OtherCalling"
  THEN postDelayed("accept") /\ UNCHANGED lost
  ELSE removeCallbacks

(* createMediasoupRoom() with createInitRoom(), whose observer sees the     *)
(* store of the new room at once.                                           *)
createMediasoupRoom ==
  IF RoomReady THEN UNCHANGED <<manager, rooms>>
  ELSE /\ Len(rooms) < MaxRooms
       /\ acceptAnsweredTime
       /\ rooms' = Append(rooms, [gen |-> gen, news |-> "none", closed |-> FALSE, link |-> "none",
                               todo |-> <<>>])
       /\ client' = [client EXCEPT ![gen] = Len(rooms) + 1]
       /\ seen' = "NEW"
       /\ UNCHANGED isOtherJoin

(* RoomActivity.onMediasoupReady(): an unanswered call waits for the user. *)
onMediasoupReady ==
  /\ shown' = Buttons
  /\ asking' = (asking \/ start # "OtherCalling" \/ isRoomConnecting)

onStartCommand ==
  /\ service = "up" /\ opening = "start"
  /\ opening' = "register"
  /\ createMediasoupRoom
  /\ IF bound /\ ~RoomReady THEN onMediasoupReady ELSE UNCHANGED <<shown, asking>>
  /\ UNCHANGED <<loader, service, bound, gen, inputs>>

onRegisterRoom ==
  /\ service = "up" /\ opening = "register"
  /\ opening' = "none"
  /\ bound' = TRUE
  /\ createMediasoupRoom
  /\ onMediasoupReady
  /\ UNCHANGED <<loader, service, gen, inputs>>

(* The permissions are granted, which the user need not do:                 *)
(* joinMediasoupRoom() and waitAnsweredTime().                              *)
joinMediasoupRoom ==
  /\ asking
  /\ asking' = FALSE
  /\ IF isRoomConnecting \/ mRoomClient = 0 THEN UNCHANGED <<timers, rooms>>
     ELSE /\ rooms' = [rooms EXCEPT
               ![mRoomClient].news = "ALIVE",
               ![mRoomClient].link = IF @ = "none" /\ ~rooms[mRoomClient].closed
                                     THEN "trying" ELSE @]
          /\ IF start = "SelfCalling" THEN postDelayed("wait") ELSE UNCHANGED timers
  /\ UNCHANGED <<loader, service, opening, bound, shown, gen, client, seen, isOtherJoin,
                 lost, inputs>>

callSelfAccept ==
  /\ Input /\ bound /\ shown = "answer"
  /\ asking' = TRUE
  /\ shown' = Buttons
  /\ UNCHANGED <<loader, service, opening, bound, gen, manager, rooms>>

callSelfEnd == Input /\ bound /\ shown = "end" /\ EndCall(conv, TRUE)
callSelfCancel == Input /\ bound /\ shown = "cancel" /\ EndCall(conv, TRUE)
callSelfReject == Input /\ bound /\ shown = "answer" /\ EndCall(conv, FALSE)

(* RoomActivity.onDestroy(): the user leaves. *)
LeaveActivity ==
  /\ Input /\ bound
  /\ onFinishServiceActivity
  /\ UNCHANGED <<loader, opening, gen, manager, rooms>>

Unobserved(rs) == [r \in DOMAIN rs |-> [rs[r] EXCEPT !.news = "none"]]

(* MediasoupService.onDestroy(): RoomManagement.destroy() removes what is   *)
(* due, the delayed destroyRoom() that it just posted included, and         *)
(* isMediasoupCalling is false when the loader is closed.                   *)
onDestroy ==
  /\ service = "stopping"
  /\ service' = "none" /\ opening' = "none" /\ asking' = FALSE
  /\ timers' = EmptyBag
  /\ IF closeVideoAndAudio
     THEN /\ lost' = lost \cup {mRoomClient}
          /\ rooms' = Unobserved(rooms)
          /\ UNCHANGED client
     ELSE /\ rooms' = Unobserved(Closed(rooms, mRoomClient))
          /\ client' = [client EXCEPT ![gen] = 0]
          /\ UNCHANGED lost
  /\ app' = Told(conv, "idle") /\ conv' = None /\ start' = "none"
  /\ seen' = "null" /\ isOtherJoin' = FALSE
  /\ UNCHANGED <<bound, shown, gen, inputs>>

-------------------------------------------------------------------------------
(* What is due on mMainHandler, and the observers of the service *)

Fire(kind) == Due(kind) /\ alive

(* Nobody answered for a minute. *)
AcceptTimer ==
  /\ Fire("accept")
  /\ timers' = timers (-) SetToBag({"accept"})
  /\ IF isRoomConnecting THEN UNCHANGED loader ELSE closedMediasoup(conv)
  /\ UNCHANGED <<service, opening, activity, gen, client, seen, isOtherJoin, lost, rooms, inputs>>

(* Mutant: only a room that is connecting is given up. *)
WaitTimerNotJoined ==
  /\ Fire("wait")
  /\ IF ~isRoomConnecting \/ isOtherJoin
     THEN /\ timers' = timers (-) SetToBag({"wait"})
          /\ UNCHANGED <<loader, service, activity, client, isOtherJoin, rooms>>
     ELSE /\ closedMediasoup(conv)
          /\ IF closeVideoAndAudio
             THEN /\ timers' = (timers (-) SetToBag({"wait"})) (+) SetToBag({"destroyFinish"})
                  /\ UNCHANGED <<service, activity, client, isOtherJoin, rooms>>
             ELSE /\ timers' = timers (-) SetToBag({"wait"})
                  /\ destroyRoom
                  /\ onFinishServiceActivity
  /\ UNCHANGED <<opening, gen, seen, lost, inputs>>

(* Nobody joined the call that this side started: its room is destroyed, at *)
(* once or by a callback that takes the place of this one.                  *)
WaitTimer ==
  /\ Fire("wait")
  /\ IF isRoomConnecting /\ isOtherJoin
     THEN /\ timers' = timers (-) SetToBag({"wait"})
          /\ UNCHANGED <<loader, service, activity, client, isOtherJoin, rooms>>
     ELSE /\ closedMediasoup(conv)
          /\ IF closeVideoAndAudio
             THEN /\ timers' = (timers (-) SetToBag({"wait"})) (+) SetToBag({"destroyFinish"})
                  /\ UNCHANGED <<service, activity, client, isOtherJoin, rooms>>
             ELSE /\ timers' = timers (-) SetToBag({"wait"})
                  /\ destroyRoom
                  /\ onFinishServiceActivity
  /\ UNCHANGED <<opening, gen, seen, lost, inputs>>

DestroyTimer(kind) ==
  /\ Fire(kind)
  /\ timers' = timers (-) SetToBag({kind})
  /\ destroyRoom
  /\ IF kind = "destroyFinish" THEN onFinishServiceActivity ELSE UNCHANGED <<service, activity>>
  /\ UNCHANGED <<loader, opening, gen, seen, lost, inputs>>

(* The observer of the store's room state *)
Observe(r) ==
  /\ posted # <<>> /\ r = Head(posted)
  /\ seen' = rooms[r].news
  /\ rooms' = [rooms EXCEPT ![r].news = "none"]
  /\ UNCHANGED <<loader, service, opening, activity, gen, client, isOtherJoin, timers, lost, inputs>>

(* curConnectPeers(): the observer of the peers, when the first one is in. *)
OtherJoins(r) ==
  /\ Own(r) /\ rooms[r].link = "open"
  /\ isRoomConnecting /\ ~isOtherJoin
  /\ isOtherJoin' = TRUE
  /\ removeCallbacks
  /\ establishedJoinMediasoup
  /\ shown' = IF bound THEN Buttons ELSE shown
  /\ UNCHANGED <<service, opening, bound, asking, gen, client, seen, rooms, inputs>>

(* A failed RoomClient.joinImpl() left close() to the main thread. *)
CloseFailed(r) ==
  /\ rooms[r].link = "failed" /\ ~rooms[r].closed
  /\ rooms' = Closed(rooms, r)
  /\ UNCHANGED <<loader, service, opening, activity, gen, manager, inputs>>

-------------------------------------------------------------------------------
(* The workers of the rooms and their connectCallback, the RoomManagement   *)
(* that created them                                                        *)

OtherGone(r) == isOtherJoin' = (isOtherJoin /\ ~Own(r))
Shows(r) == [rooms EXCEPT ![r].news = News(r, "ALIVE")]

(* onOpen(): joinImpl() succeeds, then onJoinSuc() and onConnectSuc(). *)
JoinSucceeds(r) ==
  /\ rooms[r].link \in {"trying", "down"}
  /\ rooms' = [Shows(r) EXCEPT ![r].link = "open"]
  /\ IF start = "OtherCalling"
     THEN /\ establishedJoinMediasoup
          /\ IF Own(r) THEN removeCallbacks ELSE UNCHANGED <<timers, lost>>
     ELSE UNCHANGED <<loader, timers, lost>>
  /\ OtherGone(r)
  /\ UNCHANGED <<service, opening, activity, gen, client, seen, inputs>>

(* The test of mediasoupClose() *)
Test == IF isRoomConnecting THEN <<>> ELSE <<"reset">>

(* closedMediasoup() on the thread of room r, which has come to `then': the *)
(* host is told, then mediasoupClose() makes its test, then it resets.      *)
Closes(r, then) ==
  /\ app' = Told(conv, "idle")
  /\ OtherGone(r)
  /\ rooms' = then
  /\ UNCHANGED <<conv, start, service, opening, activity, gen, client, seen, timers, lost, inputs>>

OnlyRooms == UNCHANGED <<service, opening, activity, gen, manager, inputs>>
Doing(r, what) == rooms[r].todo # <<>> /\ Head(rooms[r].todo) = what

(* Mutant: the callback resets a call in progress as well. *)
TestsNothing(r) ==
  /\ Doing(r, "test")
  /\ rooms' = [rooms EXCEPT ![r].todo = <<"reset">> \o Tail(@)]
  /\ UNCHANGED loader /\ OnlyRooms

(* mediasoupClose(): its test *)
Tests(r) ==
  /\ Doing(r, "test")
  /\ rooms' = [rooms EXCEPT ![r].todo = Test \o Tail(@)]
  /\ UNCHANGED loader /\ OnlyRooms

(* mediasoupClose(): what it assigns, whatever the room is by now *)
Resets(r) ==
  /\ Doing(r, "reset")
  /\ rooms' = [rooms EXCEPT ![r].todo = Tail(@)]
  /\ conv' = None /\ start' = "none"
  /\ UNCHANGED app /\ OnlyRooms

(* webSocketConnectFail(): the room that is mRoomClient by now is closed. *)
ClosesRoom(r) ==
  /\ Doing(r, "close")
  /\ rooms' = [Closed(rooms, client[rooms[r].gen]) EXCEPT ![r].todo = Tail(@)]
  /\ UNCHANGED loader /\ OnlyRooms

(* onOpen(): joinImpl() fails; it has told nobody a new state of the room. *)
JoinFails(r) ==
  /\ rooms[r].link \in {"trying", "down"}
  /\ Closes(r, [rooms EXCEPT ![r].link = "failed", ![r].todo = Test])

(* onFail(), and RoomManagement.webSocketConnectFail() *)
LinkFails(r) ==
  /\ rooms[r].link = "trying"
  /\ Closes(r, [Shows(r) EXCEPT ![r].todo = <<"test", "close">>])

(* onDisconnected(), also behind the join that failed for it *)
LinkLost(r) ==
  /\ rooms[r].link \in {"open", "down", "failed"}
  /\ rooms' = [Shows(r) EXCEPT ![r].link = IF @ = "open" THEN "down" ELSE @]
  /\ OtherGone(r)
  /\ UNCHANGED <<loader, service, opening, activity, gen, client, seen, timers, lost, inputs>>

(* onClose(), the last callback of the link *)
LinkEnds(r) ==
  /\ rooms[r].link \in {"trying", "open", "down", "failed"} /\ ~rooms[r].closed
  /\ Closes(r, [Closed(rooms, r) EXCEPT ![r].link = "off", ![r].todo = <<"test">>])

(* The task of close(), behind all that was queued before it. *)
WorkerQuits(r) ==
  /\ rooms[r].closed /\ rooms[r].link # "off"
  /\ rooms' = [rooms EXCEPT ![r].link = "off"]
  /\ UNCHANGED <<loader, service, opening, activity, gen, manager, inputs>>

Host ==
  \E c \in Convs :
    \/ mediasoupStartCall(c) \/ joinClick(c) \/ mediasoupAnswerCall(c)
    \/ \E kind \in Kinds, own \in BOOLEAN : receiveCallMessage(kind, c, own)

User ==
  \/ OpenActivity \/ LeaveActivity
  \/ callSelfAccept \/ callSelfEnd \/ callSelfCancel \/ callSelfReject
  \/ joinMediasoupRoom

Timers == AcceptTimer \/ WaitTimer \/ \E kind \in Delayed : DestroyTimer(kind)

(* A worker takes its next task when its callback has returned. *)
Worker(r) ==
  \/ /\ rooms[r].todo = <<>>
     /\ \/ JoinSucceeds(r) \/ JoinFails(r) \/ LinkFails(r) \/ LinkLost(r) \/ LinkEnds(r)
        \/ WorkerQuits(r)
  \/ Tests(r) \/ Resets(r) \/ ClosesRoom(r)

(* postValue() queues a room's news once; a later state replaces it there. *)
PostNews ==
  LET due == {r \in DOMAIN rooms' : rooms'[r].news # "none"}
  IN  posted' = SelectSeq(posted, LAMBDA r : r \in due) \o SetToSeq(due \ ToSet(posted))

Step ==
  \/ Host \/ User \/ onStartCommand \/ onRegisterRoom \/ onDestroy \/ Timers
  \/ \E r \in DOMAIN rooms : Observe(r) \/ OtherJoins(r) \/ CloseFailed(r) \/ Worker(r)

Next == Step /\ PostNews

Spec == Init /\ [][Next]_vars

(* What is due on the main thread runs in the end. *)
FairSpec ==
  /\ Spec
  /\ WF_vars(Timers /\ PostNews) /\ WF_vars(onDestroy /\ PostNews)
  /\ WF_vars((\E r \in DOMAIN rooms : Observe(r)) /\ PostNews)

-------------------------------------------------------------------------------
(* The types, and that nothing is due and nobody is bound without service.  *)
TypeOK ==
  /\ conv \in Convs \cup {None}
  /\ start \in {"none", "SelfCalling", "OtherCalling"}
  /\ app \in [Convs -> {"idle", "ringing", "established"}]
  /\ service \in {"none", "up", "stopping"}
  /\ opening \in {"none", "start", "register"}
  /\ bound \in BOOLEAN /\ asking \in BOOLEAN
  /\ shown \in {"none", "answer", "cancel", "end"}
  /\ gen \in 0 .. MaxServices /\ client \in [1 .. MaxServices -> 0 .. Len(rooms)]
  /\ seen \in {"null", "NEW", "ALIVE", "CLOSED"}
  /\ isOtherJoin \in BOOLEAN /\ IsABag(timers)
  /\ BagToSet(timers) \subseteq {"accept", "wait"} \cup Delayed
  /\ service = "none" => timers = EmptyBag /\ ~bound
  /\ lost \subseteq DOMAIN rooms
  /\ posted \in Seq(DOMAIN rooms)
  /\ inputs \in 0 .. MaxInputs

RoomOpen == mRoomClient # 0 /\ ~rooms[mRoomClient].closed
RoomClosed(r) == r \in DOMAIN rooms /\ rooms[r].closed

(* The workers about to reset the call, having found no room connecting. *)
Resetting == {r \in DOMAIN rooms : Doing(r, "reset")}

(* The room of a call in progress belongs to it: while the room counts as   *)
(* connecting, no message, timer or callback takes the current conversation *)
(* away and no callback decides to; only the host, by a call of its own,    *)
(* the end of the service, and a callback that had decided before the room  *)
(* was seen to connect do (mediasoupClose(), receiveCallMessage()).         *)
CallKept ==
  [][isRoomConnecting /\ service' # "none" =>
       /\ Resetting' \subseteq Resetting
       /\ conv' # conv => \/ Resetting' # Resetting
                         \/ \E c \in Convs : startCall(c) \/ mediasoupAnswerCall(c)]_vars

(* A hang-up closes the room in the end, unless its delayed destroyRoom()   *)
(* was removed from the handler (closeWebSocketDestroyRoom()).              *)
HangUpDestroys ==
  \A r \in 1 .. MaxRooms :
    (DestroyDue /\ mRoomClient = r) ~> (RoomClosed(r) \/ r \in lost)

Ringing == conv # None /\ app[conv] = "ringing"

(* An incoming call that nobody answers stops ringing, while its timer is   *)
(* set, even if another one has taken its place (acceptAnsweredTime()).     *)
RingEnds ==
  Due("accept") /\ start = "OtherCalling" /\ Ringing
    ~> ~Ringing \/ start # "OtherCalling" \/ isRoomConnecting

(* The caller's side of it: a call whose room was joined is established,    *)
(* ends or loses its room (waitAnsweredTime()).                             *)
WaitEnds == Due("wait") /\ Ringing /\ RoomOpen ~> ~Ringing \/ ~RoomOpen

(* No call is left unanswered for good on either side, whatever cancels,    *)
(* invitations and joins race the timers of RoomManagement.                 *)
UnansweredEnds == RingEnds /\ WaitEnds

(* What closeWebSocketDestroyRoom() says it does, "close the WebSocket,       *)
(* destroy the room": after a hang-up the room is closed in the end.        *)
HangUpEnds ==
  \A r \in 1 .. MaxRooms : (DestroyDue /\ mRoomClient = r) ~> RoomClosed(r)

(* What closedMediasoup() says it does, "close the given call": a     *)
(* message about one conversation does not end the call of another.         *)
ClosesNamedCall ==
  [][\A kind \in Kinds, c \in Convs, own \in BOOLEAN :
       receiveCallMessage(kind, c, own) /\ conv \notin {None, c} => conv' # None]_vars

===============================================================================
