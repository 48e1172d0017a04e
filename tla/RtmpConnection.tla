---------------------------- MODULE RtmpConnection ----------------------------
(***************************************************************************)
(* RtmpConnection.java: the connection to an RTMP server that SrsFlvMuxer  *)
(* opens, writes to and closes, session after session, on ONE object.      *)
(*                                                                         *)
(* The threads are the muxer's worker (thread 0), which connects and       *)
(* publishes, one thread per stop(), which runs close(), and one           *)
(* receiver (rxPacketHandler) per connection.  They share the fields of    *)
(* the object with no lock, so a call is cut into steps wherever another   *)
(* thread can see the difference; reset() is one step.                     *)
(*                                                                         *)
(* A socket, a session info and a receiver are named by the session that   *)
(* created them, 0 is null.  An exception that no catch clause names       *)
(* (a NullPointerException) ends the process: `crash' tells which one.     *)
(* The server answers a command or never does, and may close.              *)
(***************************************************************************)
EXTENDS Integers, Sequences, FiniteSets

CONSTANT MaxSessions    \* bound: calls of start() and further calls of stop()

ASSUME SessionsAssumption == MaxSessions \in Nat \ {0}

Sessions == 1..MaxSessions
Refs == 0..MaxSessions
Threads == Refs
Worker == 0

(* The commands whose answers the client waits for; "publish" is answered   *)
(* by an onStatus, which names no transaction.                              *)
Invocations == {"connect", "createStream"}
Commands == Invocations \cup {"publish"}

VARIABLES
  session,      \* the session the worker runs
  pc,           \* where each thread is
  intr,         \* the worker's interrupt flag
  from,         \* the call of the worker that shutdown() returns to
  frame,        \* the frame the worker has in hand: <<>> or <<f>>
  socket, sess, rx,                  \* socket, rtmpSessionInfo, rxPacketHandler
  connected, publishPermitted, currentStreamId,
  videoFrameCacheNumber,
  skipped,      \* the video frames that were given back since that was 0, for their time
  headless,     \* the tracks whose sequence header was given back so in this session
  sock,         \* the state of each session's socket
  invoked,      \* RtmpSessionInfo.invokedMethods
  asked,        \* the commands that reached the server and are not answered
  wire,         \* the frames written to the socket of this session
  rxpc, rxintr, \* where each receiver is, its interrupt flag
  joining,      \* the receiver that a thread waits for in shutdown()
  swallowed,    \* a wait() or join() of the worker caught its interrupt in this session
  orphan,       \* a join() was interrupted: a receiver outlived its connection
  crash         \* the exception that ended the process

fields == <<socket, sess, rx, connected, publishPermitted, currentStreamId>>
cast == <<skipped, headless>>
ends == <<sock, invoked, asked>>
receiver == <<rxpc, rxintr>>
connVars == <<session, pc, intr, from, frame, fields, videoFrameCacheNumber, cast, ends, wire,
              receiver, joining, swallowed, orphan, crash>>

ConnInit ==
  /\ session = 0 /\ pc = [t \in Threads |-> "none"]
  /\ intr = FALSE /\ from = "connect" /\ frame = <<>>
  /\ socket = 0 /\ sess = 0 /\ rx = 0
  /\ connected = FALSE /\ publishPermitted = FALSE /\ currentStreamId = 0
  /\ videoFrameCacheNumber = 0 /\ skipped = 0 /\ headless = {}
  /\ sock = [s \in Sessions |-> "none"]
  /\ invoked = [s \in Sessions |-> {}] /\ asked = [s \in Sessions |-> {}]
  /\ wire = <<>>
  /\ rxpc = [s \in Sessions |-> "none"] /\ rxintr = [s \in Sessions |-> FALSE]
  /\ joining = [t \in Threads |-> 0]
  /\ swallowed = FALSE /\ orphan = FALSE /\ crash = "none"

Goto(t, place) == pc' = [pc EXCEPT ![t] = place]

(* An exception that nothing catches: nothing else happens any more. *)
Dies(why) ==
  /\ crash' = why
  /\ UNCHANGED <<session, cast, pc, intr, swallowed, from, frame, fields, videoFrameCacheNumber, ends, wire,
                 receiver, joining, orphan>>

(* sendRtmpPacket() of a command: it is noted in the session info, and      *)
(* reaches the server unless the socket is gone, which is caught.           *)
Send(s, cmd) ==
  /\ invoked' = [invoked EXCEPT ![sess] = @ \cup ({cmd} \cap Invocations)]
  /\ asked' = [asked EXCEPT ![s] = IF sock[s] = "open" THEN @ \cup {cmd} ELSE @]

-------------------------------------------------------------------------------
(* connect() and publish(), on the worker *)

(* An illegal URL ends connect() here; otherwise a socket is made. *)
OpenSocket ==
  /\ pc[Worker] = "open"
  /\ \/ Goto(Worker, "refused") /\ UNCHANGED <<fields, sock>>
     \/ /\ socket' = session /\ sess' = session
        /\ sock' = [sock EXCEPT ![session] = "connecting"]
        /\ Goto(Worker, "tcp")
        /\ UNCHANGED <<rx, connected, publishPermitted, currentStreamId>>
  /\ UNCHANGED <<session, cast, intr, swallowed, from, frame, videoFrameCacheNumber, invoked, asked, wire,
                 receiver, joining, orphan, crash>>

(* socket.connect() succeeds, or fails within three seconds; the streams of  *)
(* the field `socket' are taken afterwards.                                 *)
TcpConnects ==
  /\ pc[Worker] = "tcp"
  /\ \/ /\ sock[session] = "connecting" /\ socket # 0
        /\ sock' = [sock EXCEPT ![session] = "open"]
        /\ Goto(Worker, "handshake")
        /\ UNCHANGED crash
     \/ Goto(Worker, "refused") /\ UNCHANGED <<sock, crash>>
     \/ socket = 0 /\ crash' = "socket" /\ UNCHANGED <<pc, sock>>
  /\ UNCHANGED <<session, cast, intr, swallowed, from, frame, fields, videoFrameCacheNumber, invoked, asked, wire,
                 receiver, joining, orphan>>

(* The server answers the handshake: the receiver starts. *)
HandshakeDone ==
  /\ pc[Worker] = "handshake" /\ sock[session] = "open"
  /\ rx' = session
  /\ rxpc' = [rxpc EXCEPT ![session] = "read"]
  /\ Goto(Worker, "rtmpConnect")
  /\ UNCHANGED <<session, cast, intr, swallowed, from, frame, socket, sess, connected, publishPermitted,
                 currentStreamId, videoFrameCacheNumber, ends, wire, rxintr, joining, orphan, crash>>

(* The connection ends, or the server answers with another version; the    *)
(* handshake reads from a socket that has no timeout.                       *)
HandshakeFails ==
  /\ pc[Worker] = "handshake"
  /\ Goto(Worker, "refused")
  /\ UNCHANGED <<session, cast, intr, swallowed, from, frame, fields, videoFrameCacheNumber, ends, wire,
                 receiver, joining, orphan, crash>>

RtmpConnect ==
  /\ pc[Worker] = "rtmpConnect"
  /\ IF connected THEN Goto(Worker, "refused") /\ UNCHANGED <<ends, crash>>
     ELSE IF sess = 0 THEN crash' = "session" /\ UNCHANGED <<pc, ends>>
     ELSE Send(session, "connect") /\ Goto(Worker, "waitConnected") /\ UNCHANGED <<sock, crash>>
  /\ UNCHANGED <<session, cast, intr, swallowed, from, frame, fields, videoFrameCacheNumber, wire,
                 receiver, joining, orphan>>

(* connectingLock.wait(5000) and publishLock.wait(5000) end with a notify,  *)
(* the timeout or an interrupt, which they swallow.                         *)
WaitConnected ==
  /\ pc[Worker] = "waitConnected"
  /\ intr' = FALSE /\ swallowed' = (swallowed \/ intr)
  /\ Goto(Worker, IF connected THEN "createStream" ELSE "shutdown")
  /\ from' = "connect"
  /\ UNCHANGED <<session, cast, frame, fields, videoFrameCacheNumber, ends, wire, receiver,
                 joining, orphan, crash>>

CreateStream ==
  /\ pc[Worker] = "createStream"
  /\ IF ~connected \/ currentStreamId # 0
     THEN Goto(Worker, "refused") /\ UNCHANGED <<ends, crash>>
     ELSE IF sess = 0 THEN crash' = "session" /\ UNCHANGED <<pc, ends>>
     ELSE /\ Send(session, "createStream")
          /\ Goto(Worker, "waitPublish") /\ UNCHANGED <<sock, crash>>
  /\ UNCHANGED <<session, cast, intr, swallowed, from, frame, fields, videoFrameCacheNumber, wire, receiver,
                 joining, orphan>>

WaitPublish ==
  /\ pc[Worker] = "waitPublish"
  /\ intr' = FALSE /\ swallowed' = (swallowed \/ intr)
  /\ Goto(Worker, IF publishPermitted THEN "accepted" ELSE "shutdown")
  /\ from' = IF publishPermitted THEN from ELSE "publish"
  /\ UNCHANGED <<session, cast, frame, fields, videoFrameCacheNumber, ends, wire, receiver,
                 joining, orphan, crash>>

-------------------------------------------------------------------------------
(* publishVideoData() and publishAudioData(), on the worker *)

(* The checks; a frame that fails one is given back uncounted.  The first   *)
(* is on the time stamp, which resumePublish() makes negative when it ends  *)
(* a pause of an earlier session.                                           *)
PublishChecks ==
  /\ pc[Worker] = "publish"
  /\ \/ /\ Goto(Worker, "drain") /\ frame' = <<>>
        /\ skipped' = skipped + (IF frame[1].track = "video" THEN 1 ELSE 0)
        /\ headless' = headless \cup (IF frame[1].hdr THEN {frame[1].track} ELSE {})
     \/ /\ IF connected /\ currentStreamId # 0 /\ publishPermitted
           THEN Goto(Worker, "send") /\ UNCHANGED frame
           ELSE Goto(Worker, "drain") /\ frame' = <<>>
        /\ UNCHANGED cast
  /\ UNCHANGED <<session, intr, swallowed, from, fields, videoFrameCacheNumber, ends, wire, receiver,
                 joining, orphan, crash>>

(* A plausible slip: a write that seemed to fail is made again. *)
PublishTwice ==
  /\ pc[Worker] = "send"
  /\ IF sess = 0 THEN Dies("session")
     ELSE /\ wire' = IF sock[session] = "open" THEN wire \o frame \o frame ELSE wire
          /\ videoFrameCacheNumber' =
               videoFrameCacheNumber - (IF frame[1].track = "video" THEN 1 ELSE 0)
          /\ frame' = <<>>
          /\ Goto(Worker, "drain")
          /\ UNCHANGED <<session, cast, intr, swallowed, from, fields, ends, receiver, joining, orphan, crash>>

(* The write; a SocketException is caught, the frame is counted all the same. *)
PublishSends ==
  /\ pc[Worker] = "send"
  /\ IF sess = 0 THEN Dies("session")
     ELSE /\ wire' = IF sock[session] = "open" THEN wire \o frame ELSE wire
          /\ videoFrameCacheNumber' =
               videoFrameCacheNumber - (IF frame[1].track = "video" THEN 1 ELSE 0)
          /\ frame' = <<>>
          /\ Goto(Worker, "drain")
          /\ UNCHANGED <<session, cast, intr, swallowed, from, fields, ends, receiver, joining, orphan, crash>>

-------------------------------------------------------------------------------
(* close() and shutdown(), on the worker or on the thread t of a stop() *)

(* closeStream() of close() tells the server, who does not answer; both      *)
(* directions of the socket are shut and the receiver is interrupted.       *)
Shutdown(t) ==
  /\ pc[t] = "shutdown"
  /\ IF socket = 0 THEN Goto(t, "reset") /\ UNCHANGED <<sock, asked, rxintr, joining>>
     ELSE /\ sock' = [sock EXCEPT ![socket] = IF @ \in {"open", "eof"} THEN "shut" ELSE @]
          /\ joining' = [joining EXCEPT ![t] = rx]
          /\ rxintr' = [s \in Sessions |-> rxintr[s] \/ (s = rx /\ rxpc[s] # "done")]
          /\ asked' = [asked EXCEPT ![socket] = {}]
          /\ Goto(t, IF rx = 0 THEN "closeSocket" ELSE "join")
  /\ UNCHANGED <<session, cast, intr, swallowed, from, frame, fields, videoFrameCacheNumber, invoked, wire,
                 rxpc, orphan, crash>>

(* rxPacketHandler.join(): an interrupt of the worker ends it early. *)
JoinReceiver(t) ==
  /\ pc[t] = "join"
  /\ \/ rxpc[joining[t]] = "done" /\ UNCHANGED <<intr, swallowed, orphan>>
     \/ t = Worker /\ intr /\ intr' = FALSE /\ swallowed' = TRUE /\ orphan' = TRUE
  /\ rx' = 0
  /\ joining' = [joining EXCEPT ![t] = 0]
  /\ Goto(t, "closeSocket")
  /\ UNCHANGED <<session, cast, from, frame, socket, sess, connected, publishPermitted, currentStreamId,
                 videoFrameCacheNumber, ends, wire, receiver, crash>>

(* A plausible slip: the socket is given up and not closed. *)
CloseSocketForgets(t) ==
  /\ pc[t] = "closeSocket"
  /\ Goto(t, "reset")
  /\ UNCHANGED <<session, cast, intr, swallowed, from, frame, fields, videoFrameCacheNumber, ends,
                 wire, receiver, joining, orphan, crash>>

CloseSocket(t) ==
  /\ pc[t] = "closeSocket"
  /\ IF socket = 0 THEN Dies("socket")
     ELSE /\ sock' = [sock EXCEPT ![socket] = "closed"]
          /\ Goto(t, "reset")
          /\ UNCHANGED <<session, cast, intr, swallowed, from, frame, fields, videoFrameCacheNumber, invoked, asked,
                         wire, receiver, joining, orphan, crash>>

(* A plausible slip: reset() leaves `connected' set. *)
ResetKeepsConnected(t) ==
  /\ pc[t] = "reset"
  /\ publishPermitted' = FALSE /\ currentStreamId' = 0
  /\ videoFrameCacheNumber' = 0 /\ skipped' = 0
  /\ socket' = 0 /\ sess' = 0
  /\ invoked' = [s \in Sessions |-> IF s = sess THEN {} ELSE invoked[s]]
  /\ Goto(t, "returns")
  /\ UNCHANGED <<session, headless, intr, swallowed, from, frame, rx, connected, sock, asked, wire,
                 receiver, joining, orphan, crash>>

(* reset(): every field of the object, the receiver excepted. *)
Reset(t) ==
  /\ pc[t] = "reset"
  /\ connected' = FALSE /\ publishPermitted' = FALSE /\ currentStreamId' = 0
  /\ videoFrameCacheNumber' = 0 /\ skipped' = 0
  /\ socket' = 0 /\ sess' = 0
  /\ invoked' = [s \in Sessions |-> IF s = sess THEN {} ELSE invoked[s]]
  /\ Goto(t, "returns")
  /\ UNCHANGED <<session, headless, intr, swallowed, from, frame, rx, sock, asked, wire, receiver, joining, orphan, crash>>

(* rtmpConnect() returns `connected', createStream() `publishPermitted',    *)
(* read once more after the reset().                                        *)
Returns ==
  /\ pc[Worker] = "returns"
  /\ Goto(Worker, CASE from = "connect" /\ connected -> "createStream"
                    [] from = "publish" /\ publishPermitted -> "accepted"
                    [] OTHER -> "refused")
  /\ from' = "connect"
  /\ UNCHANGED <<session, cast, intr, swallowed, frame, fields, videoFrameCacheNumber, ends, wire, receiver,
                 joining, orphan, crash>>

-------------------------------------------------------------------------------
(* handleRxPacketLoop(), on the receiver of session s *)

(* An answer arrives.  The command it answers is looked up in the session   *)
(* info of the object, whatever session that is by now.                     *)
ReadAnswer(s, cmd) ==
  /\ rxpc[s] = "read" /\ sock[s] = "open" /\ cmd \in asked[s]
  /\ IF cmd \in Invocations /\ (sess = 0 \/ cmd \notin invoked[sess])
     THEN Dies("answer")
     ELSE /\ asked' = [asked EXCEPT ![s] = @ \ {cmd}]
          /\ invoked' = [x \in Sessions |-> IF x = sess THEN invoked[x] \ {cmd} ELSE invoked[x]]
          /\ rxpc' = [rxpc EXCEPT ![s] = cmd]
          /\ UNCHANGED <<session, cast, pc, intr, swallowed, from, frame, fields, videoFrameCacheNumber, sock, wire,
                         rxintr, joining, orphan, crash>>

(* The answer takes effect: the connection is made, the stream exists and   *)
(* fmlePublish() asks to publish, or onMetaData() is sent and publishing is *)
(* permitted.                                                               *)
ApplyAnswer(s) ==
  /\ rxpc[s] \in Commands
  /\ crash' = IF rxpc[s] = "publish" /\ connected /\ currentStreamId # 0 /\ sess = 0
              THEN "session" ELSE crash
  /\ connected' = (connected \/ rxpc[s] = "connect")
  /\ currentStreamId' = IF rxpc[s] = "createStream" THEN 1 ELSE currentStreamId
  /\ publishPermitted' = (publishPermitted \/ rxpc[s] = "publish")
  /\ asked' = [asked EXCEPT ![s] =
       IF rxpc[s] = "createStream" /\ connected /\ sess # 0 /\ sock[s] = "open"
       THEN @ \cup {"publish"} ELSE @]
  /\ rxpc' = [rxpc EXCEPT ![s] = IF rxintr[s] THEN "done" ELSE "read"]
  /\ rxintr' = [rxintr EXCEPT ![s] = FALSE]
  /\ UNCHANGED <<session, cast, pc, intr, swallowed, from, frame, socket, sess, rx, videoFrameCacheNumber, sock,
                 invoked, wire, joining, orphan>>

(* The end of the stream ends the loop. *)
ReadEnds(s) ==
  /\ rxpc[s] = "read"
  /\ sock[s] \in {"eof", "shut"} \/ (sock[s] = "closed" /\ rxintr[s])
  /\ rxpc' = [rxpc EXCEPT ![s] = "done"]
  /\ rxintr' = [rxintr EXCEPT ![s] = FALSE]
  /\ UNCHANGED <<session, cast, pc, intr, swallowed, from, frame, fields, videoFrameCacheNumber, ends, wire,
                 joining, orphan, crash>>

ServerCloses(s) ==
  /\ sock[s] = "open"
  /\ sock' = [sock EXCEPT ![s] = "eof"]
  /\ asked' = [asked EXCEPT ![s] = {}]
  /\ UNCHANGED <<session, cast, pc, intr, swallowed, from, frame, fields, videoFrameCacheNumber, invoked,
                 wire, receiver, joining, orphan, crash>>

WorkerConnects ==
  \/ OpenSocket \/ TcpConnects \/ HandshakeFails \/ RtmpConnect \/ WaitConnected
  \/ CreateStream \/ WaitPublish \/ Returns \/ PublishChecks \/ PublishSends

Tearing(t) ==
  Shutdown(t) \/ JoinReceiver(t) \/ CloseSocket(t) \/ Reset(t)

Receives(s) == ApplyAnswer(s) \/ ReadEnds(s)

ConnNext ==
  \/ WorkerConnects \/ HandshakeDone
  \/ \E t \in Threads : Tearing(t)
  \/ \E s \in Sessions : Receives(s) \/ ServerCloses(s) \/ \E cmd \in Commands : ReadAnswer(s, cmd)

ConnTypeOK ==
  /\ session \in Refs /\ intr \in BOOLEAN /\ from \in {"connect", "publish"}
  /\ pc \in [Threads -> {"none", "open", "tcp", "handshake", "rtmpConnect", "waitConnected",
        "createStream", "waitPublish", "accepted", "refused", "loop", "drain", "poll", "publish",
        "send", "wait", "shutdown", "join", "closeSocket", "reset", "returns", "done"}]
  /\ socket \in Refs /\ sess \in Refs /\ rx \in Refs
  /\ connected \in BOOLEAN /\ publishPermitted \in BOOLEAN /\ currentStreamId \in {0, 1}
  /\ videoFrameCacheNumber \in Int /\ skipped \in Nat /\ headless \subseteq {"video", "audio"}
  /\ sock \in [Sessions -> {"none", "connecting", "open", "eof", "shut", "closed"}]
  /\ invoked \in [Sessions -> SUBSET Invocations] /\ asked \in [Sessions -> SUBSET Commands]
  /\ rxpc \in [Sessions -> {"none", "read", "done"} \cup Commands]
  /\ rxintr \in [Sessions -> BOOLEAN]
  /\ joining \in [Threads -> Refs] /\ swallowed \in BOOLEAN /\ orphan \in BOOLEAN
  /\ crash \in {"none", "session", "socket", "answer", "frame"}
===============================================================================
