-------------------------- MODULE SrsFlvMuxer_proofs --------------------------
(***************************************************************************)
(* Proofs about SrsFlvMuxer over RtmpConnection, for any number of         *)
(* sessions, tracks and tags.                                              *)
(*                                                                         *)
(* A session that began, or a stop() that was called, before the last      *)
(* disconnect() had ended (overlap), or a receiver that outlived its       *)
(* join() (orphan), shares the fields of the connection with another; what *)
(* is said of the connection is said of the others, which are Sole.        *)
(***************************************************************************)
EXTENDS SrsFlvMuxer, TLAPS, SequenceTheorems, FiniteSetTheorems

Sole == ~overlap /\ ~orphan

TearPlaces == {"shutdown", "join", "closeSocket", "reset", "returns"}
DialPlaces == {"open", "tcp", "handshake", "rtmpConnect", "waitConnected", "createStream", "waitPublish", "accepted"}
LoopPlaces == {"loop", "drain", "poll", "publish", "send", "wait"}
ConnPlaces == DialPlaces \cup LoopPlaces \cup TearPlaces \cup {"refused"}

(* The main thread, the worker and the threads that disconnect: who runs     *)
(* when, and what is empty between sessions.                                *)
Control ==
  /\ ui = "idle" => pc[Worker] \in {"none", "done"} /\ wire = <<>> /\ \A k \in Tracks : ~configured[k]
  /\ ui # "idle" => session \in Sessions /\ pc[Worker] # "none" /\ pc[Stopper] = "none"
  /\ ui = "idle" /\ Stopper # 0 => pc[Stopper] # "none"
  /\ session = 0 => pc[Worker] = "none"
  /\ \A s \in Sessions : pc[s] \in TearPlaces \cup {"none", "done"} /\ (s > Stopper => pc[s] = "none")
  /\ frame # <<>> <=> pc[Worker] \in {"publish", "send"}
  /\ ui # "live" => mFlvTagCache = <<>> /\ made = 0 /\ \A k \in Tracks : enc[k] = "idle"
  /\ ui = "live" => started
  /\ \A k \in Tracks : enc[k] = "count" => k = "video"

(* Tags of the session, numbered in the order in which they were made, go    *)
(* from the cache through the worker's hand to the wire.                    *)
Increasing(q) == \A i, j \in 1..Len(q) : i < j => q[i].n < q[j].n
Before(q, r) == \A i \in 1..Len(q), j \in 1..Len(r) : q[i].n < r[j].n
Flow ==
  /\ \A i \in 1..Len(wire) : wire[i].sess = session
  /\ \A i \in 1..Len(frame) : frame[i].sess = session
  /\ \A i \in 1..Len(mFlvTagCache) : mFlvTagCache[i].sess = session
  /\ Increasing(wire) /\ Increasing(mFlvTagCache)
  /\ Before(wire, frame) /\ Before(wire, mFlvTagCache) /\ Before(frame, mFlvTagCache)
  /\ ui = "live" =>
       /\ \A i \in 1..Len(wire) : wire[i].n <= made
       /\ \A i \in 1..Len(frame) : frame[i].n <= made
       /\ \A i \in 1..Len(mFlvTagCache) : mFlvTagCache[i].n <= made

-------------------------------------------------------------------------------
(* The connection of a session that is Sole *)

(* The thread that has the connection, and where it is. *)
Holder == IF ui = "idle" THEN Stopper ELSE Worker
Place == pc[Holder]

Shut(s) == sock[s] \in {"none", "closed"} /\ rxpc[s] \in {"none", "done"}

Blank ==
  /\ socket = 0 /\ sess = 0 /\ rx = 0
  /\ ~connected /\ ~publishPermitted /\ currentStreamId = 0
  /\ \A s \in Sessions : Shut(s)

Dialed ==
  /\ session \in Sessions /\ socket = session /\ sess = session /\ rx = 0
  /\ ~connected /\ ~publishPermitted /\ currentStreamId = 0
  /\ sock[session] \in {"connecting", "open", "eof"} /\ rxpc[session] \in {"none", "done"}

(* The receiver runs.  Whatever it may be told it can look up, and what it   *)
(* was told came in the order of the commands.                              *)
Pending == asked[session] \cup {rxpc[session]}
Linked ==
  /\ session \in Sessions /\ socket = session /\ sess = session /\ rx = session
  /\ sock[session] \in {"open", "eof"} /\ rxpc[session] # "none"
  /\ asked[session] \cap Invocations \subseteq invoked[session]
  /\ "createStream" \in Pending => connected
  /\ "publish" \in Pending => connected /\ currentStreamId = 1
  /\ publishPermitted => currentStreamId = 1
  /\ currentStreamId = 1 => connected

Unasked == asked[session] = {} /\ rxpc[session] \in {"read", "done"}
Fits(p) ==
  /\ p \in {"none", "open", "returns"} => Blank
  /\ p \in {"open", "tcp", "handshake"} => asked[session] = {}
  /\ p \in {"tcp", "handshake"} => Dialed
  /\ p = "rtmpConnect" => Linked /\ Unasked /\ ~connected /\ ~publishPermitted /\ currentStreamId = 0
  /\ p = "waitConnected" =>
       /\ Linked /\ ~publishPermitted /\ currentStreamId = 0
       /\ asked[session] \subseteq {"connect"} /\ rxpc[session] \in {"read", "done", "connect"}
       /\ "connect" \in Pending => ~connected
       /\ ~("connect" \in asked[session] /\ rxpc[session] = "connect")
  /\ p = "createStream" => Linked /\ Unasked /\ connected /\ ~publishPermitted /\ currentStreamId = 0
  /\ p = "waitPublish" => Linked
  /\ p \in {"accepted"} \cup LoopPlaces => Linked /\ publishPermitted
  /\ p \in {"refused", "shutdown", "done"} => Blank \/ Dialed \/ Linked
  /\ p = "join" =>
       /\ session \in Sessions /\ socket = session /\ sess = session
       /\ joining[Holder] = session /\ sock[session] = "shut" /\ rxpc[session] # "none"
  /\ p = "closeSocket" =>
       session \in Sessions /\ socket = session /\ rx = 0 /\ rxpc[session] \in {"none", "done"}
  /\ p = "reset" => rx = 0 /\ \A s \in Sessions : Shut(s)

Connection ==
  /\ \A t \in Sessions : t < Stopper => pc[t] = "done"
  /\ \A s \in Sessions : s < session => Shut(s)
  /\ \A s \in Sessions : s > session => sock[s] = "none" /\ rxpc[s] = "none" /\ asked[s] = {}
  /\ Fits(Place)
  /\ ui = "idle" /\ Place = "done" => Blank
  /\ crash \in {"none", "frame"}

-------------------------------------------------------------------------------
(* The tags of a session that is Sole *)

(* The worker has not given up the connection. *)
Serving == pc[Worker] \in DialPlaces \cup LoopPlaces

(* The counter is right from the start of the session, and zero before. *)
Counted ==
  /\ ui = "live" /\ Serving => videoFrameCacheNumber = Videos + Handled - Uncounted + skipped
  /\ ui = "idle" /\ Place \in {"none", "returns", "done"} => videoFrameCacheNumber = 0 /\ skipped = 0

HasHeader(q, m, k) == \E j \in 1..m : q[j].track = k /\ q[j].hdr

(* Every track starts with its header, in the cache as on the wire; a        *)
(* header that is known to the worker is on the wire, in its hand, given     *)
(* back for its time, or lost with the connection.                          *)
Announced(k) == InLoop /\ header[k]
CacheHeaded ==
  /\ \A i \in 1..Len(mFlvTagCache) :
       \/ mFlvTagCache[i].hdr \/ Announced(mFlvTagCache[i].track)
       \/ HasHeader(mFlvTagCache, i - 1, mFlvTagCache[i].track)
  /\ \A k \in Tracks : configured[k] => Announced(k) \/ HasHeader(mFlvTagCache, Len(mFlvTagCache), k)
WireHeaded ==
  \A i \in 1..Len(wire) :
    wire[i].hdr \/ wire[i].track \in headless \/ HasHeader(wire, i - 1, wire[i].track)
HandHeaded ==
  /\ \A k \in Tracks : Announced(k) =>
       \/ sock[session] # "open" \/ k \in headless
       \/ HasHeader(frame, Len(frame), k) \/ HasHeader(wire, Len(wire), k)
  /\ \A i \in 1..Len(frame) : ~frame[i].hdr =>
       \/ sock[session] # "open" \/ frame[i].track \in headless
       \/ HasHeader(wire, Len(wire), frame[i].track)
Headed == (ui = "live" /\ Serving => CacheHeaded) /\ WireHeaded /\ HandHeaded

Typed == TypeOK /\ mFlvTagCache \in Seq(Tags) /\ wire \in Seq(Tags)
IndInv == Typed /\ Control /\ Flow /\ (Sole => Connection /\ Counted /\ Headed)

-------------------------------------------------------------------------------
(* The worker is thread 0, the threads of the stop()s are 1..MaxSessions.   *)
LEMMA ThreadFacts ==
  /\ Worker \in Threads /\ Worker \notin Sessions /\ Worker = 0
  /\ Sessions \subseteq Threads /\ Threads = Sessions \cup {0} /\ Refs = Sessions \cup {0}
  /\ Sessions \subseteq Nat /\ "video" \in Tracks
  BY SessionsAssumption, MuxerAssumption DEF Worker, Threads, Refs, Sessions

(* sendRtmpPacket() notes a command and asks the server.                    *)
LEMMA SendTypes ==
  ASSUME ConnTypeOK, NEW s, NEW cmd \in Commands, Send(s, cmd)
  PROVE  invoked' \in [Sessions -> SUBSET Invocations] /\ asked' \in [Sessions -> SUBSET Commands]
<1>t. invoked \in [Sessions -> SUBSET Invocations] /\ asked \in [Sessions -> SUBSET Commands]
  BY DEF ConnTypeOK
<1>1. {cmd} \cap Invocations \in SUBSET Invocations /\ {cmd} \in SUBSET Commands
  OBVIOUS
<1>2. invoked' \in [Sessions -> SUBSET Invocations]
  BY <1>t, <1>1 DEF Send
<1>3. asked' \in [Sessions -> SUBSET Commands]
  BY <1>t, <1>1 DEF Send
<1> QED
  BY <1>2, <1>3

(* The steps of connect(), publish() and of the receivers keep the types of  *)
(* the connection.                                                          *)
LEMMA ConnTypeStep ==
  ASSUME Typed, Control, ConnNext
  PROVE  ConnTypeOK' /\ frame' \in {<<>>, frame} /\ wire' \in Seq(Tags)
<1>t. ConnTypeOK /\ frame \in Seq(Tags) /\ wire \in Seq(Tags)
  <2>1. frame \in Seq(Tags)
    <3>1. CASE frame = <<>>
      BY <3>1
    <3>2. CASE \E f \in Tags : frame = <<f>>
      BY <3>2
    <3> QED
      BY <3>1, <3>2 DEF Typed, TypeOK
  <2> QED
    BY <2>1 DEF Typed, TypeOK
<1>f. /\ Worker \in Threads /\ Worker \notin Sessions /\ Worker = 0
      /\ Sessions \subseteq Threads /\ Refs = Sessions \cup {0} /\ Threads = Sessions \cup {0}
  BY ThreadFacts
<1>1. CASE OpenSocket
  BY <1>1, <1>t, <1>f DEF OpenSocket, Goto, ConnTypeOK, fields, cast, ends, receiver
<1>2. CASE TcpConnects
  BY <1>2, <1>t, <1>f, SMTT(20) DEF TcpConnects, Goto, ConnTypeOK, fields, cast, ends, receiver
<1>3. CASE HandshakeDone
  BY <1>3, <1>t, <1>f, ZenonT(30) DEF HandshakeDone, Goto, ConnTypeOK, fields, cast, ends, receiver
<1>4. CASE HandshakeFails
  BY <1>4, <1>t, <1>f DEF HandshakeFails, Goto, ConnTypeOK, fields, cast, ends, receiver
<1>5. CASE RtmpConnect
  <2>1. /\ UNCHANGED <<session, cast, intr, swallowed, from, frame, fields, videoFrameCacheNumber, wire,
                       receiver, joining, orphan, sock>>
        /\ crash' \in {crash, "session"}
        /\ pc' \in {pc, [pc EXCEPT ![Worker] = "refused"], [pc EXCEPT ![Worker] = "waitConnected"]}
        /\ UNCHANGED <<invoked, asked>> \/ Send(session, "connect")
    BY <1>5 DEF RtmpConnect, Goto, ends
  <2>2. invoked' \in [Sessions -> SUBSET Invocations] /\ asked' \in [Sessions -> SUBSET Commands]
    <3>1. CASE UNCHANGED <<invoked, asked>>
      BY <3>1, <1>t DEF ConnTypeOK
    <3>2. CASE Send(session, "connect")
      <4>1. "connect" \in Commands
        BY DEF Commands, Invocations
      <4> QED
        BY <3>2, <4>1, <1>t, SendTypes
    <3> QED
      BY <2>1, <3>1, <3>2
  <2> QED
    BY <2>1, <2>2, <1>t, <1>f, SMTT(20) DEF ConnTypeOK, fields, cast, receiver
<1>6. CASE WaitConnected
  BY <1>6, <1>t, <1>f DEF WaitConnected, Goto, ConnTypeOK, fields, cast, ends, receiver
<1>7. CASE CreateStream
  <2>1. /\ UNCHANGED <<session, cast, intr, swallowed, from, frame, fields, videoFrameCacheNumber, wire,
                       receiver, joining, orphan, sock>>
        /\ crash' \in {crash, "session"}
        /\ pc' \in {pc, [pc EXCEPT ![Worker] = "refused"], [pc EXCEPT ![Worker] = "waitPublish"]}
        /\ UNCHANGED <<invoked, asked>> \/ Send(session, "createStream")
    BY <1>7 DEF CreateStream, Goto, ends
  <2>2. invoked' \in [Sessions -> SUBSET Invocations] /\ asked' \in [Sessions -> SUBSET Commands]
    <3>1. CASE UNCHANGED <<invoked, asked>>
      BY <3>1, <1>t DEF ConnTypeOK
    <3>2. CASE Send(session, "createStream")
      <4>1. "createStream" \in Commands
        BY DEF Commands, Invocations
      <4> QED
        BY <3>2, <4>1, <1>t, SendTypes
    <3> QED
      BY <2>1, <3>1, <3>2
  <2> QED
    BY <2>1, <2>2, <1>t, <1>f DEF ConnTypeOK, fields, cast, receiver
<1>8. CASE WaitPublish
  BY <1>8, <1>t, <1>f DEF WaitPublish, Goto, ConnTypeOK, fields, cast, ends, receiver
<1>9. CASE Returns
  <2>1. /\ UNCHANGED <<session, cast, intr, swallowed, frame, fields, videoFrameCacheNumber, ends, wire, receiver,
                       joining, orphan, crash>>
        /\ from' = "connect"
        /\ \E p \in {"createStream", "accepted", "refused"} : pc' = [pc EXCEPT ![Worker] = p]
    BY <1>9 DEF Returns, Goto
  <2> QED
    BY <2>1, <1>t, <1>f DEF ConnTypeOK, fields, cast, ends, receiver
<1>10. CASE PublishChecks
  <2>1. /\ UNCHANGED <<session, intr, swallowed, from, fields, videoFrameCacheNumber, ends, wire, receiver,
                       joining, orphan, crash>>
        /\ frame' \in {<<>>, frame}
        /\ pc' \in {[pc EXCEPT ![Worker] = "send"], [pc EXCEPT ![Worker] = "drain"]}
    BY <1>10 DEF PublishChecks, Goto
  <2>2. skipped' \in {skipped, skipped + 0, skipped + 1} /\ headless' \subseteq headless \cup {frame[1].track}
    BY <1>10 DEF PublishChecks, cast
  <2>3. frame[1].track \in {"video", "audio"}
    <3>1. pc[Worker] = "publish"
      BY <1>10 DEF PublishChecks
    <3>2. PICK f \in Tags : frame = <<f>>
      BY <3>1 DEF Control, Typed, TypeOK
    <3> QED
      BY <3>2, MuxerAssumption DEF Tags
  <2>4. skipped' \in Nat /\ headless' \subseteq {"video", "audio"}
    BY <2>2, <2>3, <1>t DEF ConnTypeOK
  <2> QED
    BY <2>1, <2>4, <1>t, <1>f DEF ConnTypeOK, fields, ends, receiver
<1>11. CASE PublishSends
  <2>1. /\ UNCHANGED <<session, cast, intr, swallowed, from, fields, ends, receiver, joining, orphan>>
        /\ crash' \in {crash, "session"} /\ frame' \in {<<>>, frame} /\ wire' \in {wire, wire \o frame}
        /\ pc' \in {pc, [pc EXCEPT ![Worker] = "drain"]}
        /\ videoFrameCacheNumber' \in {videoFrameCacheNumber, videoFrameCacheNumber - 0, videoFrameCacheNumber - 1}
    BY <1>11 DEF PublishSends, Dies, Goto
  <2>2. wire' \in Seq(Tags)
    <3>1. wire \o frame \in Seq(Tags)
      BY <1>t
    <3> QED
      BY <2>1, <3>1, <1>t
  <2>3. videoFrameCacheNumber' \in Int
    BY <2>1, <1>t DEF ConnTypeOK
  <2> QED
    BY <2>1, <2>2, <2>3, <1>t, <1>f DEF ConnTypeOK, fields, cast, ends, receiver
<1>12. ASSUME NEW t \in Threads, Tearing(t)
       PROVE  ConnTypeOK' /\ frame' \in {<<>>, frame} /\ wire' \in Seq(Tags)
  <2>1. CASE Shutdown(t)
    <3>1. /\ UNCHANGED <<session, cast, intr, swallowed, from, frame, fields, videoFrameCacheNumber, invoked, wire,
                         rxpc, orphan, crash>>
          /\ \E p \in {"reset", "closeSocket", "join"} : pc' = [pc EXCEPT ![t] = p]
      BY <2>1 DEF Shutdown, Goto
    <3>2. /\ sock' \in [Sessions -> {"none", "connecting", "open", "eof", "shut", "closed"}]
          /\ asked' \in [Sessions -> SUBSET Commands]
      BY <2>1, <1>t, <1>f DEF Shutdown, ConnTypeOK
    <3>3. joining' \in [Threads -> Refs]
      BY <2>1, <1>t, <1>f DEF Shutdown, ConnTypeOK
    <3>4. rxintr' \in [Sessions -> BOOLEAN]
      <4>1. CASE socket = 0
        BY <2>1, <4>1, <1>t DEF Shutdown, ConnTypeOK
      <4>2. CASE socket # 0
        BY <2>1, <4>2, <1>t DEF Shutdown, ConnTypeOK
      <4> QED
        BY <4>1, <4>2
    <3> QED
      BY <3>1, <3>2, <3>3, <3>4, <1>t, <1>f, SMTT(20) DEF ConnTypeOK, fields, cast
  <2>2. CASE JoinReceiver(t)
    <3>1. /\ pc' = [pc EXCEPT ![t] = "closeSocket"]
          /\ joining' = [joining EXCEPT ![t] = 0] /\ rx' = 0
      BY <2>2 DEF JoinReceiver, Goto
    <3>2. /\ UNCHANGED <<session, cast, from, frame, socket, sess, connected, publishPermitted, currentStreamId,
                         videoFrameCacheNumber, ends, wire, receiver, crash>>
          /\ intr' \in BOOLEAN /\ swallowed' \in BOOLEAN /\ orphan' \in BOOLEAN
      BY <2>2, <1>t DEF JoinReceiver, ConnTypeOK
    <3> QED
      BY <3>1, <3>2, <1>t, <1>f DEF ConnTypeOK, cast, ends, receiver
  <2>3. CASE CloseSocket(t)
    <3>1. CASE Dies("socket")
      BY <3>1, <1>t DEF Dies, ConnTypeOK, fields, cast, ends, receiver
    <3>2. CASE ~Dies("socket")
      <4>1. sock' = [sock EXCEPT ![socket] = "closed"] /\ pc' = [pc EXCEPT ![t] = "reset"]
        BY <2>3, <3>2 DEF CloseSocket, Goto
      <4>2. UNCHANGED <<session, cast, intr, swallowed, from, frame, fields, videoFrameCacheNumber, invoked, asked,
                        wire, receiver, joining, orphan, crash>>
        BY <2>3, <3>2 DEF CloseSocket
      <4> QED
        BY <4>1, <4>2, <1>t, ZenonT(30) DEF ConnTypeOK, fields, cast, receiver
    <3> QED
      BY <3>1, <3>2
  <2>4. CASE Reset(t)
    <3>1. invoked' \in [Sessions -> SUBSET Invocations]
      BY <2>4, <1>t DEF Reset, ConnTypeOK
    <3>2. pc' = [pc EXCEPT ![t] = "returns"]
      BY <2>4 DEF Reset, Goto
    <3>3. /\ connected' = FALSE /\ publishPermitted' = FALSE /\ currentStreamId' = 0
          /\ videoFrameCacheNumber' = 0 /\ skipped' = 0 /\ socket' = 0 /\ sess' = 0
          /\ UNCHANGED <<session, headless, intr, swallowed, from, frame, rx, sock, asked, wire, receiver,
                         joining, orphan, crash>>
      BY <2>4 DEF Reset
    <3>4. /\ connected' \in BOOLEAN /\ publishPermitted' \in BOOLEAN /\ currentStreamId' \in {0, 1}
          /\ videoFrameCacheNumber' \in Int /\ skipped' \in Nat /\ socket' \in Refs /\ sess' \in Refs
      <4>1. 0 \in Refs /\ 0 \in Int /\ 0 \in Nat
        BY <1>f
      <4> QED
        BY <3>3, <4>1
    <3>5. UNCHANGED <<session, headless, intr, swallowed, from, frame, rx, sock, asked, wire, rxpc, rxintr,
                      joining, orphan, crash>>
      BY <3>3 DEF receiver
    <3> QED
      BY <3>1, <3>2, <3>4, <3>5, <1>t DEF ConnTypeOK
  <2> QED
    BY <1>12, <2>1, <2>2, <2>3, <2>4 DEF Tearing
<1>13. ASSUME NEW s \in Sessions, Receives(s) \/ ServerCloses(s)
       PROVE  ConnTypeOK' /\ frame' \in {<<>>, frame} /\ wire' \in Seq(Tags)
  <2>1. CASE ApplyAnswer(s)
    BY <2>1, <1>t, <1>f DEF ApplyAnswer, ConnTypeOK, fields, cast, ends, receiver, Commands
  <2>2. CASE ReadEnds(s)
    BY <2>2, <1>t, <1>f DEF ReadEnds, ConnTypeOK, fields, cast, ends, receiver
  <2>3. CASE ServerCloses(s)
    BY <2>3, <1>t, <1>f DEF ServerCloses, ConnTypeOK, fields, cast, ends, receiver
  <2> QED
    BY <1>13, <2>1, <2>2, <2>3 DEF Receives
<1>14. ASSUME NEW s \in Sessions, NEW cmd \in Commands, ReadAnswer(s, cmd)
       PROVE  ConnTypeOK' /\ frame' \in {<<>>, frame} /\ wire' \in Seq(Tags)
  <2>1. CASE Dies("answer")
    BY <2>1, <1>t DEF Dies, ConnTypeOK, fields, cast, ends, receiver
  <2>2. CASE ~Dies("answer")
    <3>1. asked' \in [Sessions -> SUBSET Commands]
      <4>1. asked' = [asked EXCEPT ![s] = @ \ {cmd}]
        BY <1>14, <2>2 DEF ReadAnswer
      <4>2. asked \in [Sessions -> SUBSET Commands]
        BY <1>t DEF ConnTypeOK
      <4> QED
        BY <4>1, <4>2
    <3>2. invoked' \in [Sessions -> SUBSET Invocations]
      BY <1>14, <2>2, <1>t DEF ReadAnswer, ConnTypeOK
    <3>3. rxpc' = [rxpc EXCEPT ![s] = cmd]
      BY <1>14, <2>2 DEF ReadAnswer
    <3>4. UNCHANGED <<session, cast, pc, intr, swallowed, from, frame, fields, videoFrameCacheNumber, sock, wire,
                      rxintr, joining, orphan, crash>>
      BY <1>14, <2>2 DEF ReadAnswer
    <3> QED
      BY <3>1, <3>2, <3>3, <3>4, <1>t DEF ConnTypeOK, fields, cast
  <2> QED
    BY <2>1, <2>2
<1> QED
  BY <1>1, <1>2, <1>3, <1>4, <1>5, <1>6, <1>7, <1>8, <1>9, <1>10, <1>11, <1>12, <1>13, <1>14
     DEF ConnNext, WorkerConnects

(* A step of the connection moves one thread that is under way, and hands at *)
(* most the frame of the worker to the wire.                                *)
LEMMA ConnMoves ==
  ASSUME Typed, Control, ConnNext
  PROVE  /\ UNCHANGED session
         /\ \/ UNCHANGED pc
            \/ \E t \in Threads, p \in ConnPlaces :
                 /\ pc' = [pc EXCEPT ![t] = p] /\ pc[t] \notin {"none", "done"}
                 /\ t \in Sessions => p \in TearPlaces
         /\ frame' # <<>> <=> pc'[Worker] \in {"publish", "send"}
         /\ frame' \in {frame, <<>>}
         /\ wire' = wire \/ (wire' = wire \o frame /\ frame' = <<>>)
<1> DEFINE Moved ==
         /\ UNCHANGED session
         /\ \/ UNCHANGED pc
            \/ \E t \in Threads, p \in ConnPlaces :
                 /\ pc' = [pc EXCEPT ![t] = p] /\ pc[t] \notin {"none", "done"}
                 /\ t \in Sessions => p \in TearPlaces
         /\ frame' # <<>> <=> pc'[Worker] \in {"publish", "send"}
         /\ frame' \in {frame, <<>>}
         /\ wire' = wire \/ (wire' = wire \o frame /\ frame' = <<>>)
<1>f. Worker \in Threads /\ Worker \notin Sessions /\ Sessions \subseteq Threads
  BY ThreadFacts
<1>t. pc \in [Threads -> ConnPlaces \cup {"none", "done"}]
  BY DEF Typed, TypeOK, ConnTypeOK, ConnPlaces, DialPlaces, LoopPlaces, TearPlaces
<1>c. frame # <<>> <=> pc[Worker] \in {"publish", "send"}
  BY DEF Control
<1>w. ASSUME NEW p \in ConnPlaces \ {"publish", "send"}, pc' = [pc EXCEPT ![Worker] = p],
             pc[Worker] \notin {"none", "done", "publish", "send"}, UNCHANGED <<session, frame, wire>>
      PROVE  Moved
  BY <1>w, <1>f, <1>t, <1>c
<1>k. ASSUME UNCHANGED <<session, pc, frame, wire>>
      PROVE  Moved
  BY <1>k, <1>c
<1>p. /\ {"tcp", "handshake", "rtmpConnect", "waitConnected", "createStream", "waitPublish", "accepted",
          "refused", "shutdown"} \subseteq ConnPlaces \ {"publish", "send"}
      /\ "drain" \in ConnPlaces /\ "send" \in ConnPlaces
  BY DEF ConnPlaces, DialPlaces, LoopPlaces, TearPlaces
<1>1. CASE OpenSocket
  <2>1. /\ UNCHANGED <<session, frame, wire>> /\ pc[Worker] = "open"
        /\ \E p \in {"refused", "tcp"} : pc' = [pc EXCEPT ![Worker] = p]
    BY <1>1 DEF OpenSocket, Goto
  <2> QED
    BY <2>1, <1>p, <1>w
<1>2. CASE TcpConnects
  <2>1. /\ UNCHANGED <<session, frame, wire>> /\ pc[Worker] = "tcp"
        /\ UNCHANGED pc \/ \E p \in {"refused", "handshake"} : pc' = [pc EXCEPT ![Worker] = p]
    BY <1>2 DEF TcpConnects, Goto
  <2> QED
    BY <2>1, <1>p, <1>w, <1>k
<1>3. CASE HandshakeDone \/ HandshakeFails
  <2>1. /\ UNCHANGED <<session, frame, wire>> /\ pc[Worker] = "handshake"
        /\ \E p \in {"refused", "rtmpConnect"} : pc' = [pc EXCEPT ![Worker] = p]
    BY <1>3 DEF HandshakeDone, HandshakeFails, Goto
  <2> QED
    BY <2>1, <1>p, <1>w
<1>4. CASE RtmpConnect
  <2>1. /\ UNCHANGED <<session, frame, wire>> /\ pc[Worker] = "rtmpConnect"
        /\ UNCHANGED pc \/ \E p \in {"refused", "waitConnected"} : pc' = [pc EXCEPT ![Worker] = p]
    BY <1>4 DEF RtmpConnect, Goto
  <2> QED
    BY <2>1, <1>p, <1>w, <1>k
<1>5. CASE WaitConnected
  <2>1. /\ UNCHANGED <<session, frame, wire>> /\ pc[Worker] = "waitConnected"
        /\ \E p \in {"createStream", "shutdown"} : pc' = [pc EXCEPT ![Worker] = p]
    BY <1>5 DEF WaitConnected, Goto
  <2> QED
    BY <2>1, <1>p, <1>w
<1>6. CASE CreateStream
  <2>1. /\ UNCHANGED <<session, frame, wire>> /\ pc[Worker] = "createStream"
        /\ UNCHANGED pc \/ \E p \in {"refused", "waitPublish"} : pc' = [pc EXCEPT ![Worker] = p]
    BY <1>6 DEF CreateStream, Goto
  <2> QED
    BY <2>1, <1>p, <1>w, <1>k
<1>7. CASE WaitPublish
  <2>1. /\ UNCHANGED <<session, frame, wire>> /\ pc[Worker] = "waitPublish"
        /\ \E p \in {"accepted", "shutdown"} : pc' = [pc EXCEPT ![Worker] = p]
    BY <1>7 DEF WaitPublish, Goto
  <2> QED
    BY <2>1, <1>p, <1>w
<1>8. CASE Returns
  <2>1. /\ UNCHANGED <<session, frame, wire>> /\ pc[Worker] = "returns"
        /\ \E p \in {"createStream", "accepted", "refused"} : pc' = [pc EXCEPT ![Worker] = p]
    BY <1>8 DEF Returns, Goto
  <2> QED
    BY <2>1, <1>p, <1>w
<1>9. CASE PublishChecks
  <2>1. /\ UNCHANGED <<session, wire>> /\ pc[Worker] = "publish"
        /\ \/ pc' = [pc EXCEPT ![Worker] = "send"] /\ UNCHANGED frame
           \/ pc' = [pc EXCEPT ![Worker] = "drain"] /\ frame' = <<>>
    BY <1>9 DEF PublishChecks, Goto
  <2> QED
    BY <2>1, <1>p, <1>f, <1>t, <1>c
<1>10. CASE PublishSends
  <2>1. CASE Dies("session")
    BY <2>1, <1>k DEF Dies
  <2>2. CASE ~Dies("session")
    <3>1. /\ UNCHANGED session /\ pc[Worker] = "send" /\ pc' = [pc EXCEPT ![Worker] = "drain"]
          /\ frame' = <<>> /\ wire' \in {wire, wire \o frame}
      BY <1>10, <2>2 DEF PublishSends, Goto
    <3> QED
      BY <3>1, <1>p, <1>f, <1>t, <1>c
  <2> QED
    BY <2>1, <2>2
<1>11. ASSUME NEW t \in Threads, Tearing(t) PROVE Moved
  <2>1. /\ UNCHANGED <<session, frame, wire>> /\ pc[t] \in TearPlaces
        /\ UNCHANGED pc \/ \E p \in TearPlaces : pc' = [pc EXCEPT ![t] = p]
    BY <1>11 DEF Tearing, Shutdown, JoinReceiver, CloseSocket, Reset, Dies, Goto, TearPlaces
  <2>2. TearPlaces \subseteq ConnPlaces /\ TearPlaces \cap {"none", "done", "publish", "send"} = {}
    BY DEF ConnPlaces, TearPlaces
  <2>3. CASE UNCHANGED pc
    BY <2>1, <2>3, <1>k
  <2>4. ASSUME NEW p \in TearPlaces, pc' = [pc EXCEPT ![t] = p] PROVE Moved
    <3>1. pc'[Worker] \in {"publish", "send"} <=> pc[Worker] \in {"publish", "send"}
      BY <2>1, <2>2, <2>4, <1>t, <1>f
    <3>2. p \in ConnPlaces /\ pc[t] \notin {"none", "done"}
      BY <2>1, <2>2, <2>4
    <3> QED
      BY <2>1, <2>4, <3>1, <3>2, <1>c
  <2> QED
    BY <2>1, <2>3, <2>4
<1>12. ASSUME NEW s \in Sessions,
              Receives(s) \/ ServerCloses(s) \/ \E cmd \in Commands : ReadAnswer(s, cmd)
       PROVE  Moved
  BY <1>12, <1>k DEF Receives, ApplyAnswer, ReadEnds, ServerCloses, ReadAnswer, Dies
<1> QED
  BY <1>1, <1>2, <1>3, <1>4, <1>5, <1>6, <1>7, <1>8, <1>9, <1>10, <1>11, <1>12 DEF ConnNext, WorkerConnects

(* Every step keeps the types.                                              *)
LEMMA TypedStep ==
  ASSUME Typed, Control, [Next]_vars
  PROVE  Typed'
<1>t. /\ ConnTypeOK /\ TypeOK /\ mFlvTagCache \in Seq(Tags) /\ wire \in Seq(Tags)
      /\ frame \in {<<>>} \cup {<<f>> : f \in Tags}
  BY DEF Typed, TypeOK
<1>f. /\ Worker \in Threads /\ Worker \notin Sessions /\ Worker = 0
      /\ Sessions \subseteq Threads /\ Refs = Sessions \cup {0} /\ Threads = Sessions \cup {0}
      /\ "video" \in Tracks
  BY ThreadFacts
<1>s. ASSUME NEW q \in Seq(Tags) PROVE \A i \in 1..Len(q) : q[i] \in Tags
  OBVIOUS
<1>r. ASSUME UNCHANGED again, session' = session PROVE again' \in Refs /\ Stopper' \in Refs
  BY <1>r, <1>t DEF TypeOK, Stopper
<1>a. session \in Nat /\ again \in Nat /\ Stopper \in Refs
  BY <1>t, SessionsAssumption DEF TypeOK, ConnTypeOK, Refs
<1>1. CASE ConnNext /\ UNCHANGED muxVars
  <2>1. ConnTypeOK' /\ frame' \in {<<>>, frame} /\ wire' \in Seq(Tags)
    BY <1>1, ConnTypeStep
  <2>3. UNCHANGED again /\ session' = session
    BY <1>1, ConnMoves DEF muxVars
  <2>2. frame' \in {<<>>} \cup {<<f>> : f \in Tags}
    BY <2>1, <1>t
  <2> QED
    BY <1>1, <1>t, <2>1, <2>2, <2>3, <1>r DEF Typed, TypeOK, muxVars
<1>2. CASE StartPublish
  <2>1. session' \in Refs /\ Stopper' \in Refs /\ again' \in Refs
    BY <1>2, <1>t, <1>a, SessionsAssumption DEF StartPublish, TypeOK, Refs, Stopper
  <2>2. ConnTypeOK'
    BY <1>2, <2>1, <1>t, <1>f DEF StartPublish, Goto, ConnTypeOK, fields, cast, ends, receiver
  <2> QED
    BY <1>2, <1>t, <2>1, <2>2 DEF StartPublish, Typed, TypeOK
<1>3. CASE StopPublish
  <2>1. intr' \in BOOLEAN
    BY <1>3 DEF StopPublish
  <2>2. ConnTypeOK'
    BY <1>3, <2>1, <1>t DEF StopPublish, ConnTypeOK, fields, cast, ends, receiver
  <2>3. mFlvTagCache' = <<>> /\ mFlvTagCache' \in Seq(Tags) /\ made' \in 0..MaxTags
    BY <1>3, MuxerAssumption DEF StopPublish
  <2>4. UNCHANGED <<session, frame, wire, header, configured, enc, again, overlap>> /\ started' = FALSE /\ ui' = "stopping"
    BY <1>3 DEF StopPublish
  <2>5. \A i \in 1..Len(mFlvTagCache') : mFlvTagCache'[i] \in Tags
    BY <2>3, <1>s
  <2> QED
    BY <2>2, <2>3, <2>4, <2>5, <1>t, <1>r DEF Typed, TypeOK
<1>4. CASE WorkerJoined
  <2>1. Stopper \in Threads
    BY <1>a, <1>f
  <2>2. ConnTypeOK'
    BY <1>4, <2>1, <1>t DEF WorkerJoined, Goto, ConnTypeOK, fields, cast, ends, receiver
  <2>3. wire' \in Seq(Tags)
    BY <1>4 DEF WorkerJoined
  <2> QED
    BY <1>4, <1>t, <1>r, <2>2, <2>3 DEF WorkerJoined, Typed, TypeOK
<1>5. ASSUME NEW k \in Tracks, WriteSample(k) PROVE Typed'
  <2>1. session \in Sessions
    BY <1>5 DEF WriteSample, Control
  <2>2. made + 1 \in 1..MaxTags /\ made' \in 0..MaxTags
    BY <1>5, <1>t, MuxerAssumption DEF WriteSample, TypeOK
  <2>3. mFlvTagCache' \in Seq(Tags)
    <3>1. PICK hdr \in BOOLEAN :
            mFlvTagCache' = IF ~started THEN mFlvTagCache
              ELSE Append(mFlvTagCache, [track |-> k, hdr |-> hdr, sess |-> session, n |-> made + 1])
      BY <1>5 DEF WriteSample
    <3>2. [track |-> k, hdr |-> hdr, sess |-> session, n |-> made + 1] \in Tags
      BY <2>1, <2>2 DEF Tags
    <3> QED
      BY <3>1, <3>2, <1>t
  <2>4. UNCHANGED <<connVars, ui, started, header, again, overlap>>
        /\ configured' \in [Tracks -> BOOLEAN] /\ enc' \in [Tracks -> {"idle", "count"}]
    BY <1>5, <1>t DEF WriteSample, TypeOK
  <2>5. ConnTypeOK' /\ UNCHANGED <<session, wire, frame>>
    BY <2>4, <1>t DEF connVars, ConnTypeOK, fields, cast, ends, receiver
  <2> QED
    BY <2>2, <2>3, <2>4, <2>5, <1>t, <1>s, <1>r DEF Typed, TypeOK
<1>6. ASSUME NEW k \in Tracks, CountTag(k) PROVE Typed'
  <2>1. ConnTypeOK'
    BY <1>6, <1>t DEF CountTag, ConnTypeOK, fields, cast, ends, receiver
  <2> QED
    BY <1>6, <1>t, <1>r, <2>1 DEF CountTag, Typed, TypeOK
<1>7. CASE Connected
  <2>1. ConnTypeOK'
    BY <1>7, <1>t, <1>f DEF Connected, Goto, ConnTypeOK, fields, cast, ends, receiver
  <2> QED
    BY <1>7, <1>t, <1>r, <2>1 DEF Connected, Typed, TypeOK
<1>8. CASE Loop \/ Drain \/ WaitFrame
  <2>1. ConnTypeOK'
    <3>1. /\ UNCHANGED <<session, cast, swallowed, from, frame, fields, videoFrameCacheNumber, ends, wire, receiver,
                         joining, orphan, crash>>
          /\ intr' \in {intr, FALSE}
          /\ \E p \in {"done", "drain", "wait", "poll", "loop"} : pc' = [pc EXCEPT ![Worker] = p]
      BY <1>8 DEF Loop, Drain, WaitFrame, Goto
    <3>2. intr' \in BOOLEAN
      BY <3>1, <1>t DEF ConnTypeOK
    <3>3. PICK p \in {"done", "drain", "wait", "poll", "loop"} : pc' = [pc EXCEPT ![Worker] = p]
      BY <3>1
    <3> QED
      BY <3>1, <3>2, <3>3, <1>t, <1>f DEF ConnTypeOK, fields, cast, ends, receiver
  <2>2. UNCHANGED <<session, muxVars, wire, frame>>
    BY <1>8 DEF Loop, Drain, WaitFrame
  <2> QED
    BY <2>1, <2>2, <1>t, <1>r DEF Typed, TypeOK, muxVars
<1>9. CASE Poll
  <2>1. CASE mFlvTagCache = <<>>
    <3>1. Dies("frame") /\ UNCHANGED muxVars
      BY <1>9, <2>1 DEF Poll, muxVars
    <3>2. ConnTypeOK'
      BY <3>1, <1>t DEF Dies, ConnTypeOK, fields, cast, ends, receiver
    <3> QED
      BY <3>1, <3>2, <1>t, <1>r DEF Dies, muxVars, Typed, TypeOK
  <2>2. CASE mFlvTagCache # <<>>
    <3> DEFINE f == Head(mFlvTagCache)
    <3>1. f \in Tags /\ Tail(mFlvTagCache) \in Seq(Tags)
      BY <2>2, <1>t
    <3>2. f.track \in Tracks /\ f.hdr \in BOOLEAN
      BY <3>1 DEF Tags
    <3>3. /\ mFlvTagCache' = Tail(mFlvTagCache) /\ header' = [header EXCEPT ![f.track] = @ \/ f.hdr]
          /\ \/ pc' = [pc EXCEPT ![Worker] = "publish"] /\ frame' = <<f>>
             \/ pc' = [pc EXCEPT ![Worker] = "drain"] /\ UNCHANGED frame
          /\ UNCHANGED <<session, cast, intr, swallowed, from, fields, videoFrameCacheNumber, ends, wire, receiver,
                         joining, orphan, crash, ui, started, configured, enc, made, again, overlap>>
      BY <1>9, <2>2 DEF Poll, Goto
    <3> HIDE DEF f
    <3>4. ConnTypeOK'
      BY <3>3, <1>t, <1>f DEF ConnTypeOK, fields, cast, ends, receiver
    <3>5. frame' \in {<<>>} \cup {<<g>> : g \in Tags}
      BY <3>1, <3>3, <1>t
    <3>6. header' \in [Tracks -> BOOLEAN]
      BY <3>2, <3>3, <1>t DEF TypeOK
    <3>7. mFlvTagCache' \in Seq(Tags) /\ \A i \in 1..Len(mFlvTagCache') : mFlvTagCache'[i] \in Tags
      BY <3>1, <3>3, <1>s
    <3> QED
      BY <3>3, <3>4, <3>5, <3>6, <3>7, <1>t, <1>r DEF Typed, TypeOK
  <2> QED
    BY <2>1, <2>2
<1>10. ASSUME NEW s \in Sessions, Disconnected(s) PROVE Typed'
  <2>1. ConnTypeOK'
    BY <1>10, <1>t, <1>f DEF Disconnected, Goto, ConnTypeOK, fields, cast, ends, receiver
  <2> QED
    BY <1>10, <1>t, <1>r, <2>1 DEF Disconnected, Typed, TypeOK
<1>11. CASE UNCHANGED vars
  <2>1. ConnTypeOK'
    BY <1>11, <1>t DEF vars, connVars, ConnTypeOK, fields, cast, ends, receiver
  <2> QED
    BY <1>11, <1>t, <1>r, <2>1 DEF vars, connVars, muxVars, Typed, TypeOK
<1>12. CASE StopAgain
  <2>1. Stopper + 1 \in Sessions /\ again' \in Refs /\ Stopper' \in Refs
    BY <1>12, <1>a, SessionsAssumption DEF StopAgain, Refs, Sessions, Stopper
  <2>2. ConnTypeOK'
    BY <1>12, <2>1, <1>t, <1>f DEF StopAgain, Goto, ConnTypeOK, fields, cast, ends, receiver
  <2>3. mFlvTagCache' = <<>> /\ mFlvTagCache' \in Seq(Tags)
    BY <1>12 DEF StopAgain
  <2>4. UNCHANGED <<frame, wire, header, enc, made, ui>> /\ started' = FALSE
        /\ overlap' \in BOOLEAN /\ configured' \in [Tracks -> BOOLEAN]
    BY <1>12, <1>t DEF StopAgain, TypeOK
  <2>5. \A i \in 1..Len(mFlvTagCache') : mFlvTagCache'[i] \in Tags
    BY <2>3, <1>s
  <2> QED
    BY <2>1, <2>2, <2>3, <2>4, <2>5, <1>t DEF Typed, TypeOK
<1> QED
  BY <1>1, <1>2, <1>3, <1>4, <1>5, <1>6, <1>7, <1>8, <1>9, <1>10, <1>11, <1>12 DEF Next, Works

(* Who runs when: the worker is done before the main thread is idle, a       *)
(* session is disconnected after it, and nothing is left in between.        *)
LEMMA ControlStep ==
  ASSUME Typed, Control, [Next]_vars
  PROVE  Control'
<1>f. /\ Worker \in Threads /\ Worker \notin Sessions /\ Worker = 0
      /\ Sessions \subseteq Threads /\ Refs = Sessions \cup {0} /\ Threads = Sessions \cup {0}
      /\ "video" \in Tracks /\ Sessions \subseteq Nat
  BY ThreadFacts
<1>t. /\ pc \in [Threads -> ConnPlaces \cup {"none", "done"}] /\ session \in Refs
      /\ enc \in [Tracks -> {"idle", "count"}] /\ ui \in {"idle", "live", "stopping"}
      /\ configured \in [Tracks -> BOOLEAN]
  BY DEF Typed, TypeOK, ConnTypeOK, ConnPlaces, DialPlaces, LoopPlaces, TearPlaces
<1>n. ConnPlaces \cap {"none", "done"} = {} /\ TearPlaces \subseteq ConnPlaces
      /\ TearPlaces \cap {"publish", "send"} = {}
  BY DEF ConnPlaces, DialPlaces, LoopPlaces, TearPlaces
<1>a. /\ session \in Nat /\ again \in Nat /\ Stopper \in Nat /\ Stopper \in Threads
      /\ Stopper = session + again /\ (session \in Sessions => Stopper \in Sessions)
  <2>1. session \in Refs /\ again \in Refs /\ Stopper \in Refs
    BY DEF Typed, TypeOK, ConnTypeOK
  <2>2. session \in Nat /\ again \in Nat /\ Stopper \in Nat /\ (session # 0 => Stopper # 0)
    BY <2>1, SessionsAssumption DEF Refs, Stopper
  <2> QED
    BY <2>1, <2>2, <1>f DEF Stopper
<1>b. ASSUME UNCHANGED <<session, again>> PROVE Stopper' = Stopper
  BY <1>b DEF Stopper
<1>1. CASE ConnNext /\ UNCHANGED muxVars
  <2>1. /\ UNCHANGED <<session, again, ui, started, mFlvTagCache, configured, enc, made>>
        /\ Stopper' = Stopper
        /\ frame' # <<>> <=> pc'[Worker] \in {"publish", "send"}
        /\ frame' \in {frame, <<>>}
        /\ wire' = wire \/ (wire' = wire \o frame /\ frame' = <<>>)
    BY <1>1, <1>b, ConnMoves DEF muxVars
  <2>2. \/ UNCHANGED pc
        \/ \E t \in Threads, p \in ConnPlaces :
             /\ pc' = [pc EXCEPT ![t] = p] /\ pc[t] \notin {"none", "done"}
             /\ t \in Sessions => p \in TearPlaces
    BY <1>1, ConnMoves
  <2>3. ui = "idle" => frame = <<>> /\ wire = <<>> /\ wire' = <<>>
    <3>1. ui = "idle" => frame = <<>> /\ wire = <<>>
      BY DEF Control
    <3>2. <<>> \o <<>> = <<>>
      OBVIOUS
    <3> QED
      BY <2>1, <3>1, <3>2
  <2>4. CASE UNCHANGED pc
    BY <2>1, <2>3, <2>4 DEF Control
  <2>5. ASSUME NEW t \in Threads, NEW p \in ConnPlaces, pc' = [pc EXCEPT ![t] = p],
               pc[t] \notin {"none", "done"}, t \in Sessions => p \in TearPlaces
        PROVE  Control'
    <3>1. \A s \in Threads : pc'[s] = IF s = t THEN p ELSE pc[s]
      BY <2>5, <1>t
    <3>2. \A s \in Sessions : pc'[s] \in TearPlaces \cup {"none", "done"} /\ (s > Stopper => pc'[s] = "none")
      BY <2>5, <3>1, <1>f DEF Control
    <3>3. \A s \in Threads : pc'[s] = "none" <=> pc[s] = "none"
      BY <2>5, <3>1, <1>n
    <3>4. pc'[Worker] \in {"none", "done"} <=> pc[Worker] \in {"none", "done"}
      BY <2>5, <3>1, <1>n, <1>f
    <3> QED
      BY <2>1, <2>3, <3>2, <3>3, <3>4, <1>a, <1>f DEF Control
  <2> QED
    BY <2>2, <2>4, <2>5
<1>2. CASE StartPublish
  <2>1. /\ ui = "idle" /\ ui' = "live" /\ started' = TRUE /\ session' = session + 1
        /\ pc' = [pc EXCEPT ![Worker] = "open"]
        /\ UNCHANGED <<wire, frame, mFlvTagCache, configured, enc, made, again>> /\ Stopper < MaxSessions
    BY <1>2 DEF StartPublish, Goto
  <2>2. Stopper' = Stopper + 1 /\ session' \in Sessions /\ Stopper' \in Sessions
    BY <2>1, <1>a, SessionsAssumption DEF Stopper, Sessions
  <2>3. pc'[Worker] = "open" /\ \A s \in Sessions : pc'[s] = pc[s]
    BY <2>1, <1>t, <1>f
  <2>4. session' # 0 /\ Stopper' > Stopper /\ \A s \in Sessions : s > Stopper' => s > Stopper
    BY <2>2, <1>f, <1>a
  <2>5. pc'[Stopper'] = "none" /\ \A s \in Sessions : s > Stopper' => pc'[s] = "none"
    BY <2>2, <2>3, <2>4 DEF Control
  <2> QED
    BY <2>1, <2>2, <2>3, <2>4, <2>5 DEF Control
<1>3. CASE StopPublish
  BY <1>3, <1>b DEF StopPublish, Control
<1>4. CASE WorkerJoined
  <2>1. /\ ui = "stopping" /\ ui' = "idle" /\ pc[Worker] = "done" /\ wire' = <<>>
        /\ configured' = [k \in Tracks |-> FALSE]
        /\ pc' = [pc EXCEPT ![Stopper] = "shutdown"]
        /\ UNCHANGED <<session, again, frame, started, mFlvTagCache, enc, made>>
    BY <1>4 DEF WorkerJoined, Goto
  <2>2. session \in Sessions /\ Stopper \in Sessions /\ Stopper' = Stopper
    BY <2>1, <1>a, <1>b DEF Control
  <2>3. pc'[Worker] = "done" /\ pc'[Stopper] = "shutdown"
        /\ \A s \in Sessions : s # Stopper => pc'[s] = pc[s]
    BY <2>1, <2>2, <1>t, <1>f
  <2>4. \A s \in Sessions : pc'[s] \in TearPlaces \cup {"none", "done"} /\ (s > Stopper => pc'[s] = "none")
    BY <2>2, <2>3, <1>f, <1>a DEF Control, TearPlaces
  <2>5. session # 0 /\ \A k \in Tracks : ~configured'[k]
    BY <2>1, <2>2, <1>f
  <2> QED
    BY <2>1, <2>2, <2>3, <2>4, <2>5 DEF Control
<1>5. ASSUME NEW k \in Tracks, WriteSample(k) PROVE Control'
  <2>1. /\ ui = "live" /\ started /\ UNCHANGED <<session, again, pc, wire, frame, ui, started>>
        /\ enc' = [enc EXCEPT ![k] = IF k = "video" THEN "count" ELSE "idle"]
    BY <1>5 DEF WriteSample, connVars, Control
  <2>2. \A j \in Tracks : enc'[j] = "count" => j = "video"
    BY <2>1, <1>t DEF Control
  <2> QED
    BY <2>1, <2>2, <1>b DEF Control
<1>6. ASSUME NEW k \in Tracks, CountTag(k) PROVE Control'
  <2>1. /\ enc[k] = "count" /\ enc' = [enc EXCEPT ![k] = "idle"]
        /\ UNCHANGED <<session, again, pc, frame, wire, ui, started, mFlvTagCache, configured, made>>
    BY <1>6 DEF CountTag
  <2>2. \A j \in Tracks : enc'[j] = "idle" \/ enc'[j] = enc[j]
    BY <2>1, <1>t
  <2> QED
    BY <2>1, <2>2, <1>b DEF Control
<1>7. CASE Connected \/ Loop \/ Drain \/ WaitFrame
  <2>1. /\ UNCHANGED <<session, again, frame, wire, ui, started, mFlvTagCache, configured, enc, made>>
        /\ pc[Worker] \in {"accepted", "refused", "loop", "drain", "wait"}
        /\ \E p \in {"loop", "done", "drain", "wait", "poll"} : pc' = [pc EXCEPT ![Worker] = p]
    BY <1>7 DEF Connected, Loop, Drain, WaitFrame, Goto, muxVars
  <2>2. /\ pc'[Worker] \in {"loop", "done", "drain", "wait", "poll"}
        /\ \A s \in Sessions : pc'[s] = pc[s]
    BY <2>1, <1>t, <1>f
  <2>3. ui # "idle" /\ session \in Sessions /\ session # 0 /\ Stopper \in Sessions /\ Stopper' = Stopper
    BY <2>1, <1>f, <1>a, <1>b DEF Control
  <2> QED
    BY <2>1, <2>2, <2>3 DEF Control
<1>8. CASE Poll
  <2>1. /\ UNCHANGED <<session, again, wire, ui, started, configured, enc, made>>
        /\ pc[Worker] = "poll"
    BY <1>8 DEF Poll, Dies
  <2>2. /\ ui # "idle" /\ session \in Sessions /\ session # 0 /\ frame = <<>>
        /\ Stopper \in Sessions /\ Stopper' = Stopper
    BY <2>1, <1>f, <1>a, <1>b DEF Control
  <2>3. CASE mFlvTagCache = <<>>
    BY <1>8, <2>1, <2>2, <2>3 DEF Poll, Dies, Control
  <2>4. CASE mFlvTagCache # <<>>
    <3>1. ui = "live"
      BY <2>4, <1>t DEF Control
    <3>2. \/ pc' = [pc EXCEPT ![Worker] = "publish"] /\ frame' # <<>>
          \/ pc' = [pc EXCEPT ![Worker] = "drain"] /\ UNCHANGED frame
      <4>1. \/ pc' = [pc EXCEPT ![Worker] = "publish"] /\ frame' = <<Head(mFlvTagCache)>>
            \/ pc' = [pc EXCEPT ![Worker] = "drain"] /\ UNCHANGED frame
        BY <1>8, <2>4 DEF Poll, Goto
      <4>2. <<Head(mFlvTagCache)>> # <<>>
        OBVIOUS
      <4> QED
        BY <4>1, <4>2
    <3>3. /\ pc'[Worker] \in {"publish", "drain"} /\ (frame' # <<>> <=> pc'[Worker] = "publish")
          /\ \A s \in Sessions : pc'[s] = pc[s]
      BY <2>2, <3>2, <1>t, <1>f
    <3> QED
      BY <2>1, <2>2, <3>1, <3>3 DEF Control
  <2> QED
    BY <2>3, <2>4
<1>9. ASSUME NEW s \in Sessions, Disconnected(s) PROVE Control'
  <2>1. /\ pc[s] = "returns" /\ pc' = [pc EXCEPT ![s] = "done"]
        /\ UNCHANGED <<session, again, frame, wire, ui, started, mFlvTagCache, configured, enc, made>>
    BY <1>9 DEF Disconnected, Goto
  <2>2. \A t \in Threads : pc'[t] = IF t = s THEN "done" ELSE pc[t]
    BY <2>1, <1>t
  <2>3. ~(s > Stopper)
    BY <2>1 DEF Control
  <2>4. pc'[Worker] = pc[Worker] /\ Stopper' = Stopper
    BY <2>1, <2>2, <1>b, <1>f
  <2>5. \A u \in Sessions : pc'[u] \in TearPlaces \cup {"none", "done"} /\ (u > Stopper => pc'[u] = "none")
    BY <2>2, <2>3, <1>f DEF Control
  <2>6. pc'[Stopper] = "none" <=> pc[Stopper] = "none"
    BY <2>1, <2>2, <1>a
  <2> QED
    BY <2>1, <2>4, <2>5, <2>6, <1>f DEF Control
<1>10. CASE UNCHANGED vars
  BY <1>10, <1>b DEF vars, connVars, muxVars, Control
<1>11. CASE StopAgain
  <2>1. /\ ui = "idle" /\ ui' = "idle" /\ mFlvTagCache' = <<>> /\ configured' = [k \in Tracks |-> FALSE]
        /\ again' = again + 1 /\ pc' = [pc EXCEPT ![Stopper + 1] = "shutdown"]
        /\ UNCHANGED <<session, frame, wire, enc, made>> /\ Stopper < MaxSessions
    BY <1>11 DEF StopAgain, Goto
  <2>2. Stopper' = Stopper + 1 /\ Stopper + 1 \in Sessions /\ \A s \in Sessions : s > Stopper + 1 => s > Stopper
    BY <2>1, <1>a, SessionsAssumption DEF Stopper, Sessions
  <2>3. /\ pc'[Worker] = pc[Worker] /\ pc'[Stopper + 1] = "shutdown"
        /\ \A s \in Sessions : s # Stopper + 1 => pc'[s] = pc[s]
    BY <2>1, <2>2, <1>t, <1>f
  <2>4. \A s \in Sessions : pc'[s] \in TearPlaces \cup {"none", "done"} /\ (s > Stopper + 1 => pc'[s] = "none")
    BY <2>2, <2>3, <1>f DEF Control, TearPlaces
  <2>5. \A k \in Tracks : ~configured'[k]
    BY <2>1
  <2> QED
    BY <2>1, <2>2, <2>3, <2>4, <2>5 DEF Control
<1> QED
  BY <1>1, <1>2, <1>3, <1>4, <1>5, <1>6, <1>7, <1>8, <1>9, <1>10, <1>11 DEF Next, Works

(* Two sequences put together: every element comes from one of them, and     *)
(* what increases in both and from one to the other increases.              *)
LEMMA JoinFacts ==
  ASSUME NEW a \in Seq(Tags), NEW b \in Seq(Tags)
  PROVE  /\ a \o b \in Seq(Tags) /\ Len(a \o b) = Len(a) + Len(b) /\ Len(a) \in Nat /\ Len(b) \in Nat
         /\ \A i \in 1..Len(a) : i \in 1..Len(a \o b) /\ (a \o b)[i] = a[i]
         /\ \A i \in 1..Len(b) : Len(a) + i \in 1..Len(a \o b) /\ (a \o b)[Len(a) + i] = b[i]
         /\ \A i \in 1..Len(a \o b) : i \in 1..Len(a) \/ \E j \in 1..Len(b) : i = Len(a) + j
<1>1. a \o b \in Seq(Tags) /\ Len(a \o b) = Len(a) + Len(b) /\ Len(a) \in Nat /\ Len(b) \in Nat
  OBVIOUS
<1>2. \A i \in 1..Len(a) : i \in 1..Len(a \o b) /\ (a \o b)[i] = a[i]
  OBVIOUS
<1>3. ASSUME NEW i \in 1..Len(b) PROVE Len(a) + i \in 1..Len(a \o b) /\ (a \o b)[Len(a) + i] = b[i]
  <2>1. Len(a) + i \in 1..Len(a \o b)
    BY <1>1
  <2>2. (a \o b)[Len(a) + i] = b[(Len(a) + i) - Len(a)]
    BY <1>1, <2>1
  <2>3. (Len(a) + i) - Len(a) = i
    BY <1>1
  <2> QED
    BY <2>1, <2>2, <2>3
<1>4. ASSUME NEW i \in 1..Len(a \o b), i \notin 1..Len(a) PROVE \E j \in 1..Len(b) : i = Len(a) + j
  <2>1. i - Len(a) \in 1..Len(b) /\ i = Len(a) + (i - Len(a))
    BY <1>1, <1>4
  <2> QED
    BY <2>1
<1> QED
  BY <1>1, <1>2, <1>3, <1>4

(* What increases in both and from one to the other increases.              *)
LEMMA JoinIncreases ==
  ASSUME NEW a \in Seq(Tags), NEW b \in Seq(Tags), Increasing(a), Increasing(b), Before(a, b)
  PROVE  Increasing(a \o b)
<1> SUFFICES ASSUME NEW i \in 1..Len(a \o b), NEW j \in 1..Len(a \o b), i < j
             PROVE  (a \o b)[i].n < (a \o b)[j].n
  BY DEF Increasing
<1>0. Len(a) \in Nat /\ Len(b) \in Nat
  BY JoinFacts
<1>1. CASE i \in 1..Len(a) /\ j \in 1..Len(a)
  <2>1. (a \o b)[i] = a[i] /\ (a \o b)[j] = a[j]
    BY <1>1, JoinFacts
  <2> QED
    BY <1>1, <2>1 DEF Increasing
<1>2. CASE i \in 1..Len(a) /\ j \notin 1..Len(a)
  <2>1. PICK m \in 1..Len(b) : j = Len(a) + m
    BY <1>2, JoinFacts
  <2>2. (a \o b)[i] = a[i] /\ (a \o b)[j] = b[m]
    BY <1>2, <2>1, JoinFacts
  <2> QED
    BY <1>2, <2>2 DEF Before
<1>3. CASE i \notin 1..Len(a)
  <2>1. PICK l \in 1..Len(b) : i = Len(a) + l
    BY <1>3, JoinFacts
  <2>2. j \notin 1..Len(a)
    BY <1>0, <2>1
  <2>3. PICK m \in 1..Len(b) : j = Len(a) + m
    BY <2>2, JoinFacts
  <2>4. l < m
    BY <1>0, <2>1, <2>3
  <2>5. (a \o b)[i] = b[l] /\ (a \o b)[j] = b[m]
    BY <2>1, <2>3, JoinFacts
  <2> QED
    BY <2>4, <2>5 DEF Increasing
<1> QED
  BY <1>1, <1>2, <1>3

(* The frame in hand is at most one tag.                                    *)
LEMMA FrameFacts ==
  ASSUME Typed
  PROVE  frame \in Seq(Tags) /\ (frame = <<>> \/ (frame # <<>> /\ Len(frame) = 1 /\ frame[1] \in Tags))
<1>1. CASE frame = <<>>
  BY <1>1
<1>2. ASSUME NEW f \in Tags, frame = <<f>> PROVE frame \in Seq(Tags) /\ frame # <<>> /\ Len(frame) = 1 /\ frame[1] \in Tags
  BY <1>2
<1> QED
  BY <1>1, <1>2 DEF Typed, TypeOK

(* A tag keeps its place behind those made before it, and its session.       *)
LEMMA FlowStep ==
  ASSUME Typed, Control, Flow, [Next]_vars
  PROVE  Flow'
<1>t. /\ mFlvTagCache \in Seq(Tags) /\ wire \in Seq(Tags) /\ frame \in Seq(Tags)
      /\ made \in Nat /\ ui \in {"idle", "live", "stopping"}
      /\ frame = <<>> \/ Len(frame) = 1
  <2>1. made \in Nat
    BY MuxerAssumption DEF Typed, TypeOK
  <2> QED
    BY <2>1, FrameFacts DEF Typed, TypeOK
<1>k. ASSUME UNCHANGED <<session, wire, frame, mFlvTagCache, made, ui>> PROVE Flow'
  BY <1>k DEF Flow, Increasing, Before
<1>z. Len(<<>>) = 0 /\ \A i : i \notin 1..0
  OBVIOUS
<1>e. ASSUME wire' = <<>>, frame' = <<>>, mFlvTagCache' = <<>> PROVE Flow'
  <2>1. Len(wire') = 0 /\ Len(frame') = 0 /\ Len(mFlvTagCache') = 0
    BY <1>e, <1>z
  <2> QED
    BY <2>1, <1>z DEF Flow, Increasing, Before
<1>1. CASE ConnNext /\ UNCHANGED muxVars
  <2>1. /\ UNCHANGED <<session, ui, mFlvTagCache, made>>
        /\ frame' \in {frame, <<>>}
        /\ wire' = wire \/ (wire' = wire \o frame /\ frame' = <<>>)
    BY <1>1, ConnMoves DEF muxVars
  <2>2. CASE wire' = wire /\ frame' = frame
    BY <2>1, <2>2, <1>k
  <2>3. CASE wire' = wire /\ frame' = <<>>
    BY <2>1, <2>3, <1>z DEF Flow, Increasing, Before
  <2>4. CASE wire' = wire \o frame /\ frame' = <<>>
    <3>1. Increasing(frame)
      BY <1>t, <1>z DEF Increasing
    <3>2. Increasing(wire \o frame)
      BY <3>1, <1>t, JoinIncreases DEF Flow
    <3>3. ASSUME NEW i \in 1..Len(wire \o frame)
          PROVE  \/ \E j \in 1..Len(wire) : (wire \o frame)[i] = wire[j]
                 \/ \E j \in 1..Len(frame) : (wire \o frame)[i] = frame[j]
      BY <1>t, JoinFacts
    <3>4. Before(wire \o frame, mFlvTagCache)
      BY <3>3 DEF Before, Flow
    <3>5. /\ \A i \in 1..Len(wire \o frame) : (wire \o frame)[i].sess = session
          /\ ui = "live" => \A i \in 1..Len(wire \o frame) : (wire \o frame)[i].n <= made
      BY <3>3 DEF Flow
    <3>6. Before(wire \o frame, <<>>) /\ Before(<<>>, mFlvTagCache)
      BY <1>z DEF Before
    <3> QED
      BY <2>1, <2>4, <3>2, <3>4, <3>5, <3>6, <1>z DEF Flow, Increasing, Before
  <2> QED
    BY <2>1, <2>2, <2>3, <2>4
<1>2. CASE StartPublish
  <2>1. UNCHANGED <<wire, frame, mFlvTagCache>> /\ ui = "idle"
    BY <1>2 DEF StartPublish
  <2>2. wire = <<>> /\ frame = <<>> /\ mFlvTagCache = <<>>
    BY <2>1 DEF Control
  <2> QED
    BY <2>1, <2>2, <1>e
<1>3. CASE StopPublish
  BY <1>3, <1>z DEF StopPublish, Flow, Increasing, Before
<1>4. CASE WorkerJoined
  <2>1. UNCHANGED <<frame, mFlvTagCache>> /\ ui = "stopping" /\ wire' = <<>> /\ pc[Worker] = "done"
    BY <1>4 DEF WorkerJoined
  <2>2. frame = <<>> /\ mFlvTagCache = <<>>
    BY <2>1 DEF Control
  <2> QED
    BY <2>1, <2>2, <1>e
<1>5. ASSUME NEW k \in Tracks, WriteSample(k) PROVE Flow'
  <2>1. PICK hdr \in BOOLEAN :
          mFlvTagCache' = IF ~started THEN mFlvTagCache
            ELSE Append(mFlvTagCache, [track |-> k, hdr |-> hdr, sess |-> session, n |-> made + 1])
    BY <1>5 DEF WriteSample
  <2>2. ui = "live" /\ UNCHANGED <<session, wire, frame, ui>> /\ made' = made + 1
    BY <1>5 DEF WriteSample, connVars
  <2>3. \A q \in Seq(Tags) : \A i \in 1..Len(q) : q[i].n \in Nat
    <3>1. \A q \in Seq(Tags) : \A i \in 1..Len(q) : q[i] \in Tags
      OBVIOUS
    <3>2. \A g \in Tags : g.n \in Nat
      BY MuxerAssumption DEF Tags
    <3> QED
      BY <3>1, <3>2
  <2>4. CASE ~started
    BY <2>2, <2>4 DEF Control
  <2>5. CASE started
    <3> DEFINE f == [track |-> k, hdr |-> hdr, sess |-> session, n |-> made + 1]
               q == Append(mFlvTagCache, f)
    <3>1. /\ mFlvTagCache' = q /\ Len(q) = Len(mFlvTagCache) + 1 /\ Len(mFlvTagCache) \in Nat
          /\ \A i \in 1..Len(mFlvTagCache) : q[i] = mFlvTagCache[i] /\ mFlvTagCache[i].n \in Nat
          /\ q[Len(mFlvTagCache) + 1] = f /\ f.n = made + 1 /\ f.sess = session
      <4>1. f.n = made + 1 /\ f.sess = session
        OBVIOUS
      <4>2. mFlvTagCache' = q
        BY <2>1, <2>5
      <4>3. f \in Tags
        <5>1. session \in Sessions
          BY <2>2 DEF Control
        <5>2. made + 1 \in 1..MaxTags
          BY <1>5, <1>t, MuxerAssumption DEF WriteSample
        <5> QED
          BY <5>1, <5>2 DEF Tags
      <4>4. \A i \in 1..Len(mFlvTagCache) : mFlvTagCache[i].n \in Nat
        BY <2>3, <1>t
      <4> HIDE DEF f
      <4> QED
        BY <4>1, <4>2, <4>3, <4>4, <1>t, AppendProperties
    <3> HIDE DEF f, q
    <3>2. \A i \in 1..Len(q) : i \in 1..Len(mFlvTagCache) \/ i = Len(mFlvTagCache) + 1
      BY <3>1
    <3>3. /\ \A i \in 1..Len(wire) : wire[i].n \in Nat /\ wire[i].n < made + 1
          /\ \A i \in 1..Len(frame) : frame[i].n \in Nat /\ frame[i].n < made + 1
          /\ \A i \in 1..Len(mFlvTagCache) : mFlvTagCache[i].n \in Nat /\ mFlvTagCache[i].n < made + 1
      <4>1. /\ \A i \in 1..Len(wire) : wire[i].n <= made
            /\ \A i \in 1..Len(frame) : frame[i].n <= made
            /\ \A i \in 1..Len(mFlvTagCache) : mFlvTagCache[i].n <= made
        BY <2>2 DEF Flow
      <4>2. /\ \A i \in 1..Len(wire) : wire[i].n \in Nat
            /\ \A i \in 1..Len(frame) : frame[i].n \in Nat
            /\ \A i \in 1..Len(mFlvTagCache) : mFlvTagCache[i].n \in Nat
        BY <2>3, <1>t
      <4>3. \A n \in Nat : n <= made => n < made + 1
        BY <1>t
      <4> QED
        BY <4>1, <4>2, <4>3
    <3>4. Increasing(q)
      <4> SUFFICES ASSUME NEW i \in 1..Len(q), NEW j \in 1..Len(q), i < j PROVE q[i].n < q[j].n
        BY DEF Increasing
      <4>1. i \in 1..Len(mFlvTagCache)
        BY <3>1, <3>2
      <4> QED
        BY <3>1, <3>2, <3>3, <4>1 DEF Flow, Increasing
    <3>5. Before(wire, q) /\ Before(frame, q)
      BY <3>1, <3>2, <3>3 DEF Before, Flow
    <3>6. /\ \A i \in 1..Len(q) : q[i].sess = session /\ q[i].n <= made + 1
          /\ \A i \in 1..Len(wire) : wire[i].n <= made + 1
          /\ \A i \in 1..Len(frame) : frame[i].n <= made + 1
      <4>1. ASSUME NEW i \in 1..Len(q) PROVE q[i].sess = session /\ q[i].n <= made + 1
        <5>1. CASE i \in 1..Len(mFlvTagCache)
          <6>1. q[i] = mFlvTagCache[i] /\ mFlvTagCache[i].sess = session
            BY <5>1, <3>1 DEF Flow
          <6>2. mFlvTagCache[i].n \in Nat /\ mFlvTagCache[i].n < made + 1
            BY <5>1, <3>3
          <6>3. \A n \in Nat : n < made + 1 => n <= made + 1
            BY <1>t
          <6> QED
            BY <6>1, <6>2, <6>3
        <5>2. CASE i = Len(mFlvTagCache) + 1
          BY <5>2, <3>1, <1>t
        <5> QED
          BY <5>1, <5>2, <3>2
      <4>2. \A n \in Nat : n < made + 1 => n <= made + 1
        BY <1>t
      <4> QED
        BY <4>1, <4>2, <3>3
    <3> QED
      BY <2>2, <3>1, <3>4, <3>5, <3>6 DEF Flow, Increasing, Before
  <2> QED
    BY <2>4, <2>5
<1>6. CASE Poll /\ mFlvTagCache # <<>>
  <2> DEFINE f == Head(mFlvTagCache)
             q == Tail(mFlvTagCache)
  <2>1. /\ UNCHANGED <<session, wire, ui, made>> /\ mFlvTagCache' = q /\ pc[Worker] = "poll"
        /\ frame' = <<f>> \/ frame' = frame
    BY <1>6 DEF Poll
  <2>2. frame = <<>>
    BY <2>1 DEF Control
  <2>3. /\ Len(mFlvTagCache) \in Nat \ {0} /\ Len(q) = Len(mFlvTagCache) - 1
        /\ \A i \in 1..Len(q) : q[i] = mFlvTagCache[i + 1]
        /\ f = mFlvTagCache[1]
    <3>1. Len(mFlvTagCache) \in Nat \ {0}
      BY <1>6, <1>t, EmptySeq
    <3> QED
      BY <3>1, <1>6, <1>t, HeadTailProperties
  <2>4. /\ Len(<<f>>) = 1 /\ <<f>>[1] = f
    OBVIOUS
  <2> HIDE DEF q, f
  <2>5. \A i \in 1..Len(q) : i + 1 \in 1..Len(mFlvTagCache) /\ 1 \in 1..Len(mFlvTagCache) /\ 1 < i + 1
    BY <2>3
  <2>6. \A i, j \in 1..Len(q) : i < j => i + 1 < j + 1
    BY <2>3
  <2>7. Increasing(q)
    BY <2>3, <2>5, <2>6 DEF Increasing, Flow
  <2>8. Before(wire, q) /\ Before(<<f>>, q)
    <3>1. Before(wire, q)
      BY <2>3, <2>5 DEF Before, Flow
    <3>2. \A j \in 1..Len(q) : f.n < q[j].n
      BY <2>3, <2>5 DEF Increasing, Flow
    <3>3. \A i \in 1..Len(<<f>>) : <<f>>[i] = f
      BY <2>4
    <3> QED
      BY <3>1, <3>2, <3>3 DEF Before
  <2>9. Before(wire, <<f>>)
    <3>1. 1 \in 1..Len(mFlvTagCache)
      BY <2>3
    <3> QED
      BY <2>3, <2>4, <3>1 DEF Before, Flow
  <2>10. /\ f.sess = session /\ \A i \in 1..Len(q) : q[i].sess = session
         /\ ui = "live" => f.n <= made /\ \A i \in 1..Len(q) : q[i].n <= made
    <3>1. 1 \in 1..Len(mFlvTagCache)
      BY <2>3
    <3> QED
      BY <2>3, <2>5, <3>1 DEF Flow
  <2>11. Before(wire, <<>>) /\ Before(<<>>, q)
    BY <1>z DEF Before
  <2>12. CASE frame' = <<f>>
    BY <2>1, <2>4, <2>7, <2>8, <2>9, <2>10, <2>12 DEF Flow, Increasing, Before
  <2>13. CASE frame' = <<>>
    BY <2>1, <2>7, <2>8, <2>10, <2>11, <2>13, <1>z DEF Flow, Increasing, Before
  <2> QED
    BY <2>1, <2>2, <2>12, <2>13
<1>7. CASE UNCHANGED vars \/ Connected \/ Loop \/ Drain \/ WaitFrame \/ (Poll /\ mFlvTagCache = <<>>)
           \/ (\E k \in Tracks : CountTag(k)) \/ (\E s \in Sessions : Disconnected(s))
  <2>1. UNCHANGED <<session, wire, frame, mFlvTagCache, made, ui>>
    BY <1>7 DEF vars, connVars, muxVars, Connected, Loop, Drain, WaitFrame, Poll, Dies, CountTag, Disconnected
  <2> QED
    BY <2>1, <1>k
<1>8. CASE StopAgain
  <2>1. UNCHANGED <<wire, frame>> /\ ui = "idle" /\ mFlvTagCache' = <<>>
    BY <1>8 DEF StopAgain
  <2>2. wire = <<>> /\ frame = <<>>
    BY <2>1 DEF Control
  <2> QED
    BY <2>1, <2>2, <1>e
<1> QED
  BY <1>1, <1>2, <1>3, <1>4, <1>5, <1>6, <1>7, <1>8 DEF Next, Works

-------------------------------------------------------------------------------
(* The connection *)

(* A thread that is under way has the connection, and only the session of    *)
(* the worker has a socket or a receiver.                                   *)
LEMMA HolderRuns ==
  ASSUME Typed, Control, Connection
  PROVE  /\ Holder \in Threads /\ Holder \in {Worker, Stopper}
         /\ \A t \in Threads : pc[t] \notin {"none", "done"} => t = Holder
         /\ pc[Worker] \notin {"none", "done"} => ui # "idle"
         /\ ui # "idle" => Holder = Worker /\ session \in Sessions /\ session # 0
         /\ \A s \in Sessions : s # session => Shut(s)
<1>f. /\ Worker \in Threads /\ Worker \notin Sessions /\ Worker = 0
      /\ Sessions \subseteq Threads /\ Refs = Sessions \cup {0} /\ Threads = Sessions \cup {0}
      /\ Sessions \subseteq Nat
  BY ThreadFacts
<1>t. Stopper \in Threads /\ Stopper \in Nat /\ session \in Nat
  BY <1>f DEF Typed, TypeOK, ConnTypeOK
<1>1. Holder \in Threads /\ Holder \in {Worker, Stopper}
  BY <1>f, <1>t DEF Holder
<1>2. pc[Worker] \notin {"none", "done"} => ui # "idle"
  BY DEF Control
<1>3. ui # "idle" => Holder = Worker /\ session \in Sessions /\ session # 0
  BY <1>f DEF Control, Holder
<1>4. /\ \A s \in Sessions : s # session => s < session \/ s > session
      /\ \A s \in Sessions : s # Stopper => s < Stopper \/ s > Stopper
  BY <1>f, <1>t
<1>5. /\ \A s \in Sessions : s # session => Shut(s)
      /\ \A s \in Sessions : s # Stopper => pc[s] \in {"none", "done"}
  BY <1>4 DEF Connection, Control, Shut
<1>6. Stopper \in Sessions /\ pc[Stopper] \notin {"none", "done"} => ui = "idle"
  BY DEF Control
<1>7. ASSUME NEW t \in Threads, pc[t] \notin {"none", "done"} PROVE t = Holder
  <2>1. CASE t = Worker
    BY <1>2, <1>3, <1>7, <2>1
  <2>2. CASE t \in Sessions
    BY <1>5, <1>6, <1>7, <2>2 DEF Holder
  <2> QED
    BY <2>1, <2>2, <1>f
<1> QED
  BY <1>1, <1>2, <1>3, <1>5, <1>7

(* A step that leaves the other sessions alone.                             *)
LEMMA KeptConnection ==
  ASSUME Typed, Control, Connection, UNCHANGED <<session, again, ui>>,
         \A s \in Sessions : s # session => UNCHANGED <<sock[s], rxpc[s], asked[s]>>,
         \A s \in Sessions : s # Stopper => UNCHANGED pc[s],
         Fits(Place)', (ui = "idle" /\ Place = "done" => Blank)', crash' \in {"none", "frame"}
  PROVE  Connection'
<1>1. session \in Nat /\ Stopper \in Nat /\ Sessions \subseteq Nat /\ Stopper' = Stopper
  BY ThreadFacts DEF Typed, TypeOK, ConnTypeOK, Stopper
<1>2. /\ \A s \in Sessions : s < session => Shut(s)'
      /\ \A s \in Sessions : s < Stopper => pc'[s] = "done"
  <2>1. ASSUME NEW s \in Sessions, s < session PROVE Shut(s)'
    <3>1. s # session /\ Shut(s)
      BY <1>1, <2>1 DEF Connection
    <3> QED
      BY <3>1 DEF Shut
  <2>2. ASSUME NEW s \in Sessions, s < Stopper PROVE pc'[s] = "done"
    <3>1. s # Stopper /\ pc[s] = "done"
      BY <1>1, <2>2 DEF Connection
    <3> QED
      BY <3>1
  <2> QED
    BY <2>1, <2>2
<1>3. ASSUME NEW s \in Sessions, s > session
      PROVE  (sock[s] = "none" /\ rxpc[s] = "none" /\ asked[s] = {})'
  <2>1. s # session
    BY <1>1, <1>3
  <2>2. sock[s] = "none" /\ rxpc[s] = "none" /\ asked[s] = {}
    BY <1>3 DEF Connection
  <2> QED
    BY <2>1, <2>2
<1> QED
  BY <1>1, <1>2, <1>3 DEF Connection

(* The steps of connect(), publish() and the muxer's loop on the worker, as   *)
(* the connection sees them.                                                *)
LEMMA WorkerConnection ==
  ASSUME Typed, Control, Connection, crash = "none", UNCHANGED <<ui, again>>,
         WorkerConnects \/ HandshakeDone \/ Works
  PROVE  Connection'
<1>f. /\ Worker \in Threads /\ Worker \notin Sessions /\ Sessions \subseteq Threads
      /\ Invocations = {"connect", "createStream"} /\ Commands = {"connect", "createStream", "publish"}
  BY ThreadFacts DEF Invocations, Commands
<1>t. /\ pc \in [Threads -> ConnPlaces \cup {"none", "done"}]
      /\ sock \in [Sessions -> {"none", "connecting", "open", "eof", "shut", "closed"}]
      /\ invoked \in [Sessions -> SUBSET Invocations] /\ asked \in [Sessions -> SUBSET Commands]
      /\ rxpc \in [Sessions -> {"none", "read", "done"} \cup Commands]
      /\ connected \in BOOLEAN /\ publishPermitted \in BOOLEAN /\ currentStreamId \in {0, 1}
  BY DEF Typed, TypeOK, ConnTypeOK, ConnPlaces, DialPlaces, LoopPlaces, TearPlaces
<1>0. pc[Worker] \notin {"none", "done"}
  BY DEF WorkerConnects, OpenSocket, TcpConnects, HandshakeFails, HandshakeDone, RtmpConnect, WaitConnected,
         CreateStream, WaitPublish, Returns, PublishChecks, PublishSends, Works, Connected, Loop, Drain, Poll,
         WaitFrame
<1>h. /\ ui # "idle" /\ Holder = Worker /\ session \in Sessions /\ session # 0 /\ Place = pc[Worker]
      /\ \A s \in Sessions : s # session => Shut(s)
  BY <1>0, HolderRuns DEF Place
<1>a. Fits(pc[Worker])
  BY <1>h DEF Connection
<1>k. ASSUME NEW p \in ConnPlaces \cup {"done"}, UNCHANGED session, pc' = [pc EXCEPT ![Worker] = p],
             \A s \in Sessions : s # session => UNCHANGED <<sock[s], rxpc[s], asked[s]>>,
             crash' = crash, Fits(p)'
      PROVE  Connection'
  <2>1. Place' = p
    BY <1>k, <1>h, <1>t, <1>f DEF Place, Holder
  <2>2. \A s \in Sessions : pc'[s] = pc[s]
    BY <1>k, <1>t, <1>f
  <2>3. Fits(Place)'
    BY <1>k, <2>1 DEF Fits
  <2> QED
    BY <1>k, <2>2, <2>3, <1>h, KeptConnection
<1>s. ASSUME UNCHANGED <<session, fields, ends, receiver>>
      PROVE  /\ \A s \in Sessions : s # session => UNCHANGED <<sock[s], rxpc[s], asked[s]>>
             /\ (Blank <=> Blank') /\ (Dialed <=> Dialed') /\ (Linked <=> Linked') /\ (Unasked <=> Unasked')
             /\ UNCHANGED <<connected, publishPermitted, currentStreamId>>
  BY <1>s DEF fields, ends, receiver, Blank, Shut, Dialed, Linked, Pending, Unasked
<1>p. {"tcp", "handshake", "rtmpConnect", "waitConnected", "createStream", "waitPublish", "accepted", "refused",
       "shutdown", "loop", "drain", "poll", "publish", "send", "wait", "done"} \subseteq ConnPlaces \cup {"done"}
  BY DEF ConnPlaces, DialPlaces, LoopPlaces, TearPlaces
<1>1. CASE OpenSocket
  <2>0. pc[Worker] = "open"
    BY <1>1 DEF OpenSocket
  <2>1. Blank /\ asked[session] = {}
    BY <2>0, <1>a DEF Fits
  <2>2. CASE pc' = [pc EXCEPT ![Worker] = "refused"] /\ UNCHANGED <<fields, sock>>
    <3>1. UNCHANGED <<session, fields, ends, receiver, crash>>
      BY <1>1, <2>2 DEF OpenSocket, ends
    <3>2. Blank'
      BY <2>1, <3>1, <1>s
    <3>3. Fits("refused")'
      BY <3>2 DEF Fits, LoopPlaces
    <3> QED
      BY <2>2, <3>1, <3>3, <1>k, <1>p, <1>s
  <2>3. CASE /\ socket' = session /\ sess' = session /\ pc' = [pc EXCEPT ![Worker] = "tcp"]
             /\ sock' = [sock EXCEPT ![session] = "connecting"]
             /\ UNCHANGED <<rx, connected, publishPermitted, currentStreamId>>
    <3>1. UNCHANGED <<session, asked, rxpc, crash>>
      BY <1>1 DEF OpenSocket, receiver
    <3>2. sock'[session] = "connecting" /\ \A s \in Sessions : s # session => sock'[s] = sock[s]
      BY <2>3, <1>h, <1>t
    <3>3. Dialed'
      BY <2>1, <2>3, <3>1, <3>2, <1>h DEF Dialed, Blank, Shut
    <3>4. Fits("tcp")'
      BY <2>1, <3>1, <3>3 DEF Fits, LoopPlaces
    <3> QED
      BY <2>3, <3>1, <3>2, <3>4, <1>k, <1>p
  <2> QED
    BY <1>1, <2>2, <2>3 DEF OpenSocket, Goto
<1>2. CASE TcpConnects
  <2>0. pc[Worker] = "tcp" /\ UNCHANGED <<session, fields, asked, receiver>>
    BY <1>2 DEF TcpConnects
  <2>1. Dialed /\ asked[session] = {}
    BY <2>0, <1>a DEF Fits
  <2>2. socket # 0
    BY <2>1, <1>h DEF Dialed
  <2>3. CASE pc' = [pc EXCEPT ![Worker] = "refused"] /\ UNCHANGED <<sock, crash>>
    <3>1. Dialed'
      BY <2>0, <2>1, <2>3 DEF Dialed, fields, receiver
    <3>2. Fits("refused")'
      BY <3>1 DEF Fits, LoopPlaces
    <3> QED
      BY <2>0, <2>3, <3>2, <1>k, <1>p DEF receiver
  <2>4. CASE /\ sock' = [sock EXCEPT ![session] = "open"] /\ pc' = [pc EXCEPT ![Worker] = "handshake"]
             /\ UNCHANGED crash
    <3>1. sock'[session] = "open" /\ \A s \in Sessions : s # session => sock'[s] = sock[s]
      BY <2>4, <1>h, <1>t
    <3>2. Dialed'
      BY <2>0, <2>1, <3>1 DEF Dialed, fields, receiver
    <3>3. Fits("handshake")'
      BY <2>0, <2>1, <3>2 DEF Fits, LoopPlaces
    <3> QED
      BY <2>0, <2>4, <3>1, <3>3, <1>k, <1>p DEF receiver
  <2> QED
    BY <1>2, <2>2, <2>3, <2>4 DEF TcpConnects, Goto
<1>3. CASE HandshakeFails
  <2>0. pc[Worker] = "handshake" /\ UNCHANGED <<session, fields, ends, receiver, crash>>
        /\ pc' = [pc EXCEPT ![Worker] = "refused"]
    BY <1>3 DEF HandshakeFails, Goto
  <2>1. Dialed'
    BY <2>0, <1>a, <1>s DEF Fits
  <2>2. Fits("refused")'
    BY <2>1 DEF Fits, LoopPlaces
  <2> QED
    BY <2>0, <2>2, <1>k, <1>p, <1>s
<1>4. CASE HandshakeDone
  <2>0. /\ pc[Worker] = "handshake" /\ pc' = [pc EXCEPT ![Worker] = "rtmpConnect"]
        /\ UNCHANGED <<session, socket, sess, connected, publishPermitted, currentStreamId, sock, asked, crash>>
        /\ sock[session] = "open" /\ rx' = session /\ rxpc' = [rxpc EXCEPT ![session] = "read"]
    BY <1>4 DEF HandshakeDone, Goto, ends
  <2>1. Dialed /\ asked[session] = {}
    BY <2>0, <1>a DEF Fits
  <2>2. rxpc'[session] = "read" /\ \A s \in Sessions : s # session => rxpc'[s] = rxpc[s]
    BY <2>0, <1>h, <1>t
  <2>3. (Linked /\ Unasked /\ ~connected /\ ~publishPermitted /\ currentStreamId = 0)'
    BY <2>0, <2>1, <2>2, <1>h DEF Dialed, Linked, Pending, Unasked
  <2>4. Fits("rtmpConnect")'
    BY <2>3 DEF Fits, LoopPlaces
  <2> QED
    BY <2>0, <2>2, <2>4, <1>k, <1>p
<1>5. CASE RtmpConnect
  <2>0. pc[Worker] = "rtmpConnect" /\ UNCHANGED <<session, fields, receiver>>
    BY <1>5 DEF RtmpConnect
  <2>1. Linked /\ Unasked /\ ~connected /\ ~publishPermitted /\ currentStreamId = 0
    BY <2>0, <1>a DEF Fits
  <2>2. sess = session /\ sess # 0 /\ asked[session] = {} /\ rxpc[session] \in {"read", "done"}
    BY <2>1, <1>h DEF Linked, Unasked
  <2>3. /\ invoked' = [invoked EXCEPT ![session] = @ \cup ({"connect"} \cap Invocations)]
        /\ asked' = [asked EXCEPT ![session] = IF sock[session] = "open" THEN @ \cup {"connect"} ELSE @]
        /\ UNCHANGED <<sock, crash>> /\ pc' = [pc EXCEPT ![Worker] = "waitConnected"]
    BY <1>5, <2>1, <2>2 DEF RtmpConnect, Send, Goto
  <2>4. /\ asked'[session] \subseteq {"connect"} /\ "connect" \in invoked'[session]
        /\ \A s \in Sessions : s # session => asked'[s] = asked[s]
    BY <2>2, <2>3, <1>h, <1>t, <1>f
  <2>5. Linked'
    BY <2>0, <2>1, <2>2, <2>3, <2>4, <1>f DEF Linked, Pending, fields, receiver
  <2>6. Fits("waitConnected")'
    BY <2>0, <2>1, <2>2, <2>4, <2>5 DEF Fits, LoopPlaces, Pending, fields, receiver
  <2> QED
    BY <2>0, <2>3, <2>4, <2>6, <1>k, <1>p DEF receiver
<1>6. CASE WaitConnected
  <2>0. /\ pc[Worker] = "waitConnected" /\ UNCHANGED <<session, fields, ends, receiver, crash>>
        /\ pc' = [pc EXCEPT ![Worker] = IF connected THEN "createStream" ELSE "shutdown"]
    BY <1>6 DEF WaitConnected, Goto
  <2>1. /\ Linked /\ ~publishPermitted /\ currentStreamId = 0
        /\ asked[session] \subseteq {"connect"} /\ rxpc[session] \in {"read", "done", "connect"}
        /\ "connect" \in Pending => ~connected
    BY <2>0, <1>a DEF Fits
  <2>2. CASE connected
    <3>1. Unasked
      BY <2>1, <2>2 DEF Unasked, Pending
    <3>2. Fits("createStream")'
      BY <2>0, <2>1, <2>2, <3>1, <1>s DEF Fits, LoopPlaces
    <3> QED
      BY <2>0, <2>2, <3>2, <1>k, <1>p, <1>s
  <2>3. CASE ~connected
    <3>1. Fits("shutdown")'
      BY <2>0, <2>1, <1>s DEF Fits, LoopPlaces
    <3> QED
      BY <2>0, <2>3, <3>1, <1>k, <1>p, <1>s
  <2> QED
    BY <2>2, <2>3
<1>7. CASE CreateStream
  <2>0. pc[Worker] = "createStream" /\ UNCHANGED <<session, fields, receiver>>
    BY <1>7 DEF CreateStream
  <2>1. Linked /\ Unasked /\ connected /\ ~publishPermitted /\ currentStreamId = 0
    BY <2>0, <1>a DEF Fits
  <2>2. sess = session /\ sess # 0 /\ asked[session] = {} /\ rxpc[session] \in {"read", "done"}
    BY <2>1, <1>h DEF Linked, Unasked
  <2>3. /\ invoked' = [invoked EXCEPT ![session] = @ \cup ({"createStream"} \cap Invocations)]
        /\ asked' = [asked EXCEPT ![session] = IF sock[session] = "open" THEN @ \cup {"createStream"} ELSE @]
        /\ UNCHANGED <<sock, crash>> /\ pc' = [pc EXCEPT ![Worker] = "waitPublish"]
    BY <1>7, <2>1, <2>2 DEF CreateStream, Send, Goto
  <2>4. /\ asked'[session] \subseteq {"createStream"} /\ "createStream" \in invoked'[session]
        /\ \A s \in Sessions : s # session => asked'[s] = asked[s]
    BY <2>2, <2>3, <1>h, <1>t, <1>f
  <2>5. Linked'
    BY <2>0, <2>1, <2>2, <2>3, <2>4, <1>f DEF Linked, Pending, fields, receiver
  <2>6. Fits("waitPublish")'
    BY <2>5 DEF Fits, LoopPlaces
  <2> QED
    BY <2>0, <2>3, <2>4, <2>6, <1>k, <1>p DEF receiver
<1>8. CASE WaitPublish
  <2>0. /\ pc[Worker] = "waitPublish" /\ UNCHANGED <<session, fields, ends, receiver, crash>>
        /\ pc' = [pc EXCEPT ![Worker] = IF publishPermitted THEN "accepted" ELSE "shutdown"]
    BY <1>8 DEF WaitPublish, Goto
  <2>1. Linked'
    BY <2>0, <1>a, <1>s DEF Fits
  <2>2. CASE publishPermitted
    <3>1. Fits("accepted")'
      BY <2>0, <2>1, <2>2, <1>s DEF Fits, LoopPlaces
    <3> QED
      BY <2>0, <2>2, <3>1, <1>k, <1>p, <1>s
  <2>3. CASE ~publishPermitted
    <3>1. Fits("shutdown")'
      BY <2>1 DEF Fits, LoopPlaces
    <3> QED
      BY <2>0, <2>3, <3>1, <1>k, <1>p, <1>s
  <2> QED
    BY <2>2, <2>3
<1>9. CASE Returns
  <2>0. pc[Worker] = "returns" /\ UNCHANGED <<session, fields, ends, receiver, crash>>
    BY <1>9 DEF Returns
  <2>1. Blank
    BY <2>0, <1>a DEF Fits
  <2>2. pc' = [pc EXCEPT ![Worker] = "refused"]
    BY <1>9, <2>1 DEF Returns, Goto, Blank
  <2>3. Fits("refused")'
    BY <2>0, <2>1, <1>s DEF Fits, LoopPlaces
  <2> QED
    BY <2>0, <2>2, <2>3, <1>k, <1>p, <1>s
<1>10. ASSUME Linked, publishPermitted, UNCHANGED <<session, fields, ends, receiver, crash>>,
              NEW p \in LoopPlaces \cup {"done"}, pc' = [pc EXCEPT ![Worker] = p]
       PROVE  Connection'
  <2>1. Linked' /\ publishPermitted'
    BY <1>10, <1>s
  <2>2. Fits(p)'
    BY <1>10, <2>1 DEF Fits, LoopPlaces
  <2>3. p \in ConnPlaces \cup {"done"}
    BY <1>10 DEF ConnPlaces
  <2> QED
    BY <1>10, <2>2, <2>3, <1>k, <1>s
<1>11. pc[Worker] \in {"accepted"} \cup LoopPlaces => Linked /\ publishPermitted
  BY <1>a DEF Fits
<1>l. {"loop", "drain", "poll", "publish", "send", "wait", "done"} \subseteq LoopPlaces \cup {"done"}
      /\ {"loop", "drain", "poll", "publish", "send", "wait"} \subseteq LoopPlaces
  BY DEF LoopPlaces
<1>12. CASE PublishChecks
  <2>1. pc[Worker] = "publish" /\ UNCHANGED <<session, fields, ends, receiver, crash>>
    BY <1>12 DEF PublishChecks
  <2>2. Linked /\ publishPermitted
    BY <2>1, <1>11, <1>l
  <2>3. \E p \in {"send", "drain"} : pc' = [pc EXCEPT ![Worker] = p]
    BY <1>12 DEF PublishChecks, Goto
  <2> QED
    BY <2>1, <2>2, <2>3, <1>10, <1>l
<1>13. CASE PublishSends
  <2>1. pc[Worker] = "send"
    BY <1>13 DEF PublishSends
  <2>2. Linked /\ publishPermitted /\ sess # 0
    BY <2>1, <1>11, <1>l, <1>h DEF Linked
  <2>3. pc' = [pc EXCEPT ![Worker] = "drain"] /\ UNCHANGED <<session, fields, ends, receiver, crash>>
    BY <1>13, <2>2 DEF PublishSends, Goto
  <2> QED
    BY <2>2, <2>3, <1>10, <1>l
<1>14. CASE Loop \/ Drain \/ WaitFrame
  <2>1. /\ pc[Worker] \in {"loop", "drain", "wait"} /\ UNCHANGED <<session, fields, ends, receiver, crash>>
        /\ \E p \in {"done", "drain", "wait", "poll", "loop"} : pc' = [pc EXCEPT ![Worker] = p]
    BY <1>14 DEF Loop, Drain, WaitFrame, Goto
  <2> QED
    BY <2>1, <1>10, <1>11, <1>l
<1>15. CASE Connected
  <2>1. UNCHANGED <<session, fields, ends, receiver, crash>>
    BY <1>15 DEF Connected
  <2>2. CASE pc[Worker] = "accepted"
    <3>1. pc' = [pc EXCEPT ![Worker] = "loop"]
      BY <1>15, <2>2 DEF Connected, Goto
    <3> QED
      BY <2>1, <2>2, <3>1, <1>10, <1>11, <1>l
  <2>3. CASE pc[Worker] = "refused"
    <3>1. pc' = [pc EXCEPT ![Worker] = "done"]
      BY <1>15, <2>3 DEF Connected, Goto
    <3>2. (Blank \/ Dialed \/ Linked)'
      BY <2>1, <2>3, <1>a, <1>s DEF Fits
    <3>3. Fits("done")'
      BY <3>2 DEF Fits, LoopPlaces
    <3> QED
      BY <2>1, <3>1, <3>3, <1>k, <1>p, <1>s
  <2> QED
    BY <1>15, <2>2, <2>3 DEF Connected
<1>16. CASE Poll
  <2>1. pc[Worker] = "poll"
    BY <1>16 DEF Poll
  <2>2. CASE mFlvTagCache = <<>>
    <3>1. UNCHANGED <<session, pc, fields, ends, receiver>> /\ crash' = "frame"
      BY <1>16, <2>2 DEF Poll, Dies
    <3>2. Linked' /\ publishPermitted'
      BY <2>1, <3>1, <1>11, <1>l, <1>s
    <3>3. Place' = "poll"
      BY <2>1, <3>1, <1>h DEF Place, Holder
    <3>4. Fits(Place)'
      BY <3>2, <3>3 DEF Fits, LoopPlaces
    <3> QED
      BY <3>1, <3>4, <1>s, <1>h, KeptConnection
  <2>3. CASE mFlvTagCache # <<>>
    <3>1. /\ UNCHANGED <<session, fields, ends, receiver, crash>>
          /\ \E p \in {"publish", "drain"} : pc' = [pc EXCEPT ![Worker] = p]
      BY <1>16, <2>3 DEF Poll, Goto
    <3> QED
      BY <2>1, <3>1, <1>10, <1>11, <1>l
  <2> QED
    BY <2>2, <2>3
<1> QED
  BY <1>1, <1>2, <1>3, <1>4, <1>5, <1>6, <1>7, <1>8, <1>9, <1>12, <1>13, <1>14, <1>15, <1>16
     DEF WorkerConnects, Works

(* The steps of shutdown(), close() and the end of disconnect(): the thread   *)
(* that takes one has the connection.                                       *)
LEMMA TearConnection ==
  ASSUME Typed, Control, Connection, crash = "none", ~orphan', UNCHANGED <<ui, again>>, NEW t \in Threads,
         Tearing(t) \/ (t \in Sessions /\ Disconnected(t))
  PROVE  Connection'
<1>f. /\ Worker \in Threads /\ Worker \notin Sessions /\ Sessions \subseteq Threads /\ Worker = 0
      /\ Refs = Sessions \cup {0} /\ Threads = Refs
  BY ThreadFacts DEF Threads
<1>t. /\ pc \in [Threads -> ConnPlaces \cup {"none", "done"}]
      /\ sock \in [Sessions -> {"none", "connecting", "open", "eof", "shut", "closed"}]
      /\ asked \in [Sessions -> SUBSET Commands]
      /\ rxpc \in [Sessions -> {"none", "read", "done"} \cup Commands]
      /\ joining \in [Threads -> Refs]
  BY DEF Typed, TypeOK, ConnTypeOK, ConnPlaces, DialPlaces, LoopPlaces, TearPlaces
<1>0. pc[t] \in {"shutdown", "join", "closeSocket", "reset", "returns"}
  BY DEF Tearing, Shutdown, JoinReceiver, CloseSocket, Reset, Disconnected
<1>h. /\ t = Holder /\ Place = pc[t] /\ t \in {Worker, Stopper}
      /\ \A s \in Sessions : s # session => Shut(s)
  <2>1. t = Holder
    BY <1>0, HolderRuns
  <2> QED
    BY <2>1, HolderRuns DEF Place
<1>a. Fits(pc[t])
  BY <1>h DEF Connection
<1>k. ASSUME NEW p \in TearPlaces, UNCHANGED session, pc' = [pc EXCEPT ![t] = p],
             \A s \in Sessions : s # session => UNCHANGED <<sock[s], rxpc[s], asked[s]>>,
             crash' = crash, Fits(p)'
      PROVE  Connection'
  <2>1. Place' = p /\ p # "done"
    BY <1>k, <1>h, <1>t DEF Place, Holder, Stopper, TearPlaces
  <2>2. \A s \in Sessions : s # Stopper => pc'[s] = pc[s]
    BY <1>k, <1>t, <1>f, <1>h
  <2>3. Fits(Place)'
    BY <1>k, <2>1 DEF Fits
  <2> QED
    BY <1>k, <2>1, <2>2, <2>3, KeptConnection
<1>1. CASE Shutdown(t)
  <2>0. pc[t] = "shutdown" /\ UNCHANGED <<session, rxpc, crash, fields>>
    BY <1>1 DEF Shutdown
  <2>1. Blank \/ Dialed \/ Linked
    BY <2>0, <1>a DEF Fits
  <2>2. CASE Blank
    <3>1. pc' = [pc EXCEPT ![t] = "reset"] /\ UNCHANGED <<sock, asked>>
      BY <1>1, <2>2 DEF Shutdown, Goto, Blank
    <3>2. (rx = 0 /\ \A s \in Sessions : Shut(s))'
      BY <2>0, <2>2, <3>1 DEF Blank, Shut, fields
    <3>3. Fits("reset")'
      BY <3>2 DEF Fits, LoopPlaces
    <3> QED
      BY <2>0, <3>1, <3>3, <1>k DEF TearPlaces
  <2>3. ASSUME socket = session, session \in Sessions
        PROVE  /\ sock'[session] = IF sock[session] \in {"open", "eof"} THEN "shut" ELSE sock[session]
               /\ \A s \in Sessions : s # session => sock'[s] = sock[s] /\ asked'[s] = asked[s]
               /\ joining'[t] = rx
               /\ pc' = [pc EXCEPT ![t] = IF rx = 0 THEN "closeSocket" ELSE "join"]
    <3>1. socket # 0
      BY <2>3, <1>f
    <3> QED
      BY <1>1, <2>3, <3>1, <1>t DEF Shutdown, Goto
  <2>4. CASE Dialed
    <3>1. socket = session /\ session \in Sessions /\ rx = 0 /\ rxpc[session] \in {"none", "done"}
      BY <2>4 DEF Dialed
    <3>2. Fits("closeSocket")'
      BY <2>0, <3>1 DEF Fits, LoopPlaces, fields
    <3> QED
      BY <2>0, <2>3, <3>1, <3>2, <1>k DEF TearPlaces
  <2>5. CASE Linked
    <3>1. /\ socket = session /\ session \in Sessions /\ rx = session /\ sess = session /\ rx # 0
          /\ rxpc[session] # "none" /\ sock[session] \in {"open", "eof"}
      BY <2>5, <1>f DEF Linked
    <3>2. joining'[t] = session /\ sock'[session] = "shut" /\ Holder' = t
      BY <2>0, <2>3, <3>1, <1>h DEF Holder, Stopper
    <3>3. Fits("join")'
      BY <2>0, <3>1, <3>2 DEF Fits, LoopPlaces, fields
    <3> QED
      BY <2>0, <2>3, <3>1, <3>3, <1>k DEF TearPlaces
  <2> QED
    BY <2>1, <2>2, <2>4, <2>5
<1>2. CASE JoinReceiver(t)
  <2>0. /\ pc[t] = "join" /\ rxpc[joining[t]] = "done" /\ rx' = 0
        /\ UNCHANGED <<session, socket, sock, asked, rxpc, crash>> /\ pc' = [pc EXCEPT ![t] = "closeSocket"]
    BY <1>2 DEF JoinReceiver, Goto, ends, receiver
  <2>1. session \in Sessions /\ socket = session /\ joining[t] = session
    BY <2>0, <1>a, <1>h DEF Fits
  <2>2. Fits("closeSocket")'
    BY <2>0, <2>1 DEF Fits, LoopPlaces
  <2> QED
    BY <2>0, <2>2, <1>k DEF TearPlaces
<1>3. CASE CloseSocket(t)
  <2>0. pc[t] = "closeSocket"
    BY <1>3 DEF CloseSocket
  <2>1. session \in Sessions /\ socket = session /\ rx = 0 /\ rxpc[session] \in {"none", "done"} /\ socket # 0
    BY <2>0, <1>a, <1>f DEF Fits
  <2>2. /\ sock' = [sock EXCEPT ![session] = "closed"] /\ pc' = [pc EXCEPT ![t] = "reset"]
        /\ UNCHANGED <<session, rx, asked, rxpc, crash>>
    BY <1>3, <2>1 DEF CloseSocket, Goto, fields, receiver
  <2>3. sock'[session] = "closed" /\ \A s \in Sessions : s # session => sock'[s] = sock[s]
    BY <2>1, <2>2, <1>t
  <2>4. \A s \in Sessions : Shut(s)'
    BY <2>1, <2>2, <2>3, <1>h DEF Shut
  <2>5. Fits("reset")'
    BY <2>1, <2>2, <2>4 DEF Fits, LoopPlaces
  <2> QED
    BY <2>2, <2>3, <2>5, <1>k DEF TearPlaces
<1>4. CASE Reset(t)
  <2>0. /\ pc[t] = "reset" /\ pc' = [pc EXCEPT ![t] = "returns"]
        /\ connected' = FALSE /\ publishPermitted' = FALSE /\ currentStreamId' = 0 /\ socket' = 0 /\ sess' = 0
        /\ UNCHANGED <<session, rx, sock, asked, rxpc, crash>>
    BY <1>4 DEF Reset, Goto, receiver
  <2>1. rx = 0 /\ \A s \in Sessions : Shut(s)
    BY <2>0, <1>a DEF Fits
  <2>2. Blank'
    BY <2>0, <2>1 DEF Blank, Shut
  <2>3. Fits("returns")'
    BY <2>2 DEF Fits, LoopPlaces
  <2> QED
    BY <2>0, <2>3, <1>k DEF TearPlaces
<1>5. CASE t \in Sessions /\ Disconnected(t)
  <2>0. /\ pc[t] = "returns" /\ pc' = [pc EXCEPT ![t] = "done"]
        /\ UNCHANGED <<session, fields, ends, receiver, crash>>
    BY <1>5 DEF Disconnected, Goto
  <2>1. Blank
    BY <2>0, <1>a DEF Fits
  <2>2. Blank'
    BY <2>0, <2>1 DEF Blank, Shut, fields, ends, receiver
  <2>3. Place' = "done"
    BY <2>0, <1>h, <1>t DEF Place, Holder, Stopper
  <2>4. Fits(Place)'
    BY <2>2, <2>3 DEF Fits, LoopPlaces
  <2>5. /\ \A s \in Sessions : s # session => UNCHANGED <<sock[s], rxpc[s], asked[s]>>
        /\ \A s \in Sessions : s # Stopper => UNCHANGED pc[s]
    BY <2>0, <1>h, <1>t, <1>f, <1>5 DEF ends, receiver
  <2> QED
    BY <2>0, <2>2, <2>4, <2>5, KeptConnection
<1> QED
  BY <1>1, <1>2, <1>3, <1>4, <1>5 DEF Tearing

(* The steps of a receiver and of the server: there is only the receiver of  *)
(* the session, and what it is told is what was asked.                      *)
LEMMA ReceiverConnection ==
  ASSUME Typed, Control, Connection, crash = "none", UNCHANGED <<ui, again>>, NEW s \in Sessions,
         Receives(s) \/ ServerCloses(s) \/ \E cmd \in Commands : ReadAnswer(s, cmd)
  PROVE  Connection'
<1>f. /\ Sessions \subseteq Threads /\ 0 \notin Sessions
      /\ Invocations = {"connect", "createStream"} /\ Commands = {"connect", "createStream", "publish"}
  BY ThreadFacts DEF Invocations, Commands
<1>t. /\ sock \in [Sessions -> {"none", "connecting", "open", "eof", "shut", "closed"}]
      /\ invoked \in [Sessions -> SUBSET Invocations] /\ asked \in [Sessions -> SUBSET Commands]
      /\ rxpc \in [Sessions -> {"none", "read", "done"} \cup Commands]
      /\ connected \in BOOLEAN /\ publishPermitted \in BOOLEAN /\ currentStreamId \in {0, 1}
  BY DEF Typed, TypeOK, ConnTypeOK
<1>0. rxpc[s] \notin {"none", "done"} \/ sock[s] = "open"
  BY <1>f DEF Receives, ApplyAnswer, ReadEnds, ServerCloses, ReadAnswer
<1>h. s = session /\ session \in Sessions /\ session # 0
  BY <1>0, <1>f, HolderRuns DEF Shut
<1>a. Fits(Place)
  BY DEF Connection
<1>b. ~Blank /\ Place \notin {"none", "open", "returns", "reset"} /\ ~(ui = "idle" /\ Place = "done")
  <2>1. ~Shut(session)
    BY <1>0, <1>h DEF Shut
  <2>2. ~Blank
    BY <2>1, <1>h DEF Blank
  <2> QED
    BY <2>1, <2>2, <1>a, <1>h DEF Fits, Connection
<1>c. ASSUME UNCHANGED <<session, pc, joining>>, \A u \in Sessions : u # s => UNCHANGED <<sock[u], rxpc[u], asked[u]>>,
             crash' = crash, Dialed => Dialed', Linked => Linked', UNCHANGED <<socket, sess, rx>>,
             publishPermitted => publishPermitted',
             Place \in {"tcp", "handshake"} => asked'[s] = {},
             Place \in {"rtmpConnect", "createStream"} =>
               UNCHANGED <<connected, publishPermitted, currentStreamId>> /\ Unasked',
             Place = "waitConnected" => Fits("waitConnected")',
             Place = "join" => sock'[s] = "shut" /\ rxpc'[s] # "none",
             Place = "closeSocket" => rxpc'[s] \in {"none", "done"}
      PROVE  Connection'
  <2>1. Place' = Place /\ Holder' = Holder
    BY <1>c DEF Place, Holder, Stopper
  <2>2. Fits(Place)'
    <3>1. CASE Place = "waitConnected"
      BY <3>1, <2>1, <1>c DEF Fits
    <3>2. CASE Place = "join"
      BY <3>2, <2>1, <1>c, <1>a, <1>h DEF Fits, LoopPlaces
    <3>3. CASE Place = "closeSocket"
      BY <3>3, <2>1, <1>c, <1>a, <1>h DEF Fits, LoopPlaces
    <3>4. CASE Place \in {"tcp", "handshake"}
      BY <3>4, <2>1, <1>c, <1>a, <1>h DEF Fits, LoopPlaces
    <3>5. CASE Place \in {"rtmpConnect", "createStream"}
      BY <3>5, <2>1, <1>c, <1>a DEF Fits, LoopPlaces
    <3>6. CASE Place \in {"waitPublish", "accepted"} \cup LoopPlaces
      BY <3>6, <2>1, <1>c, <1>a DEF Fits, LoopPlaces
    <3>7. CASE Place \notin {"waitConnected", "join", "closeSocket", "tcp", "handshake", "rtmpConnect", "createStream",
                             "waitPublish", "accepted"} \cup LoopPlaces
      BY <3>7, <2>1, <1>c, <1>a, <1>b DEF Fits
    <3> QED
      BY <3>1, <3>2, <3>3, <3>4, <3>5, <3>6, <3>7
  <2>3. (ui = "idle" /\ Place = "done" => Blank)'
    BY <2>1, <1>b
  <2> QED
    BY <1>c, <2>2, <2>3, <1>h, KeptConnection
<1>d. Dialed => rxpc[session] \in {"none", "done"}
  BY DEF Dialed
<1>1. ASSUME NEW cmd \in Commands, ReadAnswer(s, cmd) PROVE Connection'
  <2>0. rxpc[session] = "read" /\ sock[session] = "open" /\ cmd \in asked[session]
    BY <1>1, <1>h DEF ReadAnswer
  <2>1. Linked /\ Place \notin {"tcp", "handshake", "rtmpConnect", "createStream", "join", "closeSocket"}
    <3>1. Place \notin {"tcp", "handshake", "rtmpConnect", "createStream", "join", "closeSocket"}
      BY <2>0, <1>a, <1>d DEF Fits, Unasked
    <3>2. Place \in ConnPlaces \cup {"none", "done"}
      BY HolderRuns DEF Place, Typed, TypeOK, ConnTypeOK, ConnPlaces, DialPlaces, LoopPlaces, TearPlaces
    <3> QED
      BY <2>0, <3>1, <3>2, <1>a, <1>b, <1>d DEF Fits, ConnPlaces, DialPlaces, LoopPlaces, TearPlaces
  <2>2. sess = session /\ (cmd \in Invocations => cmd \in invoked[session])
    BY <2>0, <2>1 DEF Linked
  <2>3. /\ asked' = [asked EXCEPT ![s] = @ \ {cmd}]
        /\ invoked' = [x \in Sessions |-> IF x = sess THEN invoked[x] \ {cmd} ELSE invoked[x]]
        /\ rxpc' = [rxpc EXCEPT ![s] = cmd]
        /\ UNCHANGED <<session, pc, fields, sock, joining, crash>>
    BY <1>1, <2>2, <1>h DEF ReadAnswer
  <2>4. /\ asked'[session] = asked[session] \ {cmd} /\ invoked'[session] = invoked[session] \ {cmd}
        /\ rxpc'[session] = cmd
        /\ \A u \in Sessions : u # s => UNCHANGED <<sock[u], rxpc[u], asked[u]>>
    BY <2>2, <2>3, <1>h, <1>t
  <2>5. /\ asked'[session] \cap Invocations \subseteq invoked'[session]
        /\ asked'[session] \cup {rxpc'[session]} \subseteq Pending
    BY <2>0, <2>1, <2>4 DEF Linked, Pending
  <2>6. Linked'
    BY <2>0, <2>1, <2>3, <2>4, <2>5, <1>f, <1>h DEF Linked, Pending, fields
  <2>7. Place = "waitConnected" => Fits("waitConnected")'
    <3>1. CASE Place = "waitConnected"
      <4>1. /\ ~publishPermitted /\ currentStreamId = 0 /\ asked[session] \subseteq {"connect"}
            /\ "connect" \in Pending => ~connected
        BY <3>1, <1>a DEF Fits
      <4>2. cmd = "connect" /\ asked'[session] = {} /\ ~connected
        BY <2>0, <2>4, <4>1 DEF Pending
      <4> QED
        BY <2>3, <2>4, <2>6, <4>1, <4>2 DEF Fits, LoopPlaces, Pending, fields
    <3> QED
      BY <3>1
  <2>8. Dialed => Dialed'
    BY <2>0, <1>d
  <2>9. UNCHANGED <<socket, sess, rx, publishPermitted>>
    BY <2>3 DEF fields
  <2> QED
    BY <2>1, <2>3, <2>4, <2>6, <2>7, <2>8, <2>9, <1>c
<1>2. CASE ApplyAnswer(s)
  <2>0. rxpc[session] \in {"connect", "createStream", "publish"} /\ UNCHANGED <<session, pc, socket, sess, rx, sock, invoked, joining>>
    BY <1>2, <1>f, <1>h DEF ApplyAnswer
  <2>1. Place \notin {"tcp", "handshake", "rtmpConnect", "createStream", "closeSocket"} /\ (Linked \/ Place = "join")
    <3>1. Place \notin {"tcp", "handshake", "rtmpConnect", "createStream", "closeSocket"}
      BY <2>0, <1>a, <1>d DEF Fits, Unasked
    <3>2. Place \in ConnPlaces \cup {"none", "done"}
      BY HolderRuns DEF Place, Typed, TypeOK, ConnTypeOK, ConnPlaces, DialPlaces, LoopPlaces, TearPlaces
    <3> QED
      BY <2>0, <3>1, <3>2, <1>a, <1>b, <1>d DEF Fits, ConnPlaces, DialPlaces, LoopPlaces, TearPlaces
  <2>2. sess = session /\ sess # 0
    BY <2>1, <1>a, <1>h DEF Linked, Fits
  <2>3. /\ crash' = crash
        /\ connected' = (connected \/ rxpc[session] = "connect")
        /\ currentStreamId' = IF rxpc[session] = "createStream" THEN 1 ELSE currentStreamId
        /\ publishPermitted' = (publishPermitted \/ rxpc[session] = "publish")
    BY <1>2, <2>2, <1>h DEF ApplyAnswer
  <2>4. /\ rxpc'[session] \in {"done", "read"}
        /\ asked'[session] \in {asked[session], asked[session] \cup {"publish"}}
        /\ rxpc[session] # "createStream" => asked'[session] = asked[session]
        /\ \A u \in Sessions : u # s => UNCHANGED <<sock[u], rxpc[u], asked[u]>>
    BY <1>2, <1>h, <1>t DEF ApplyAnswer
  <2>5. Linked => Linked'
    <3> SUFFICES ASSUME Linked PROVE Linked'
      OBVIOUS
    <3>1. /\ "createStream" \in asked[session] \cup {rxpc[session]} => connected
          /\ "publish" \in asked[session] \cup {rxpc[session]} => connected /\ currentStreamId = 1
          /\ publishPermitted => currentStreamId = 1
          /\ currentStreamId = 1 => connected
          /\ asked[session] \cap Invocations \subseteq invoked[session]
      BY DEF Linked, Pending
    <3>2. asked'[session] \cap Invocations \subseteq invoked[session]
      BY <2>4, <3>1, <1>f
    <3>3. connected => connected'
      BY <2>3
    <3>4. currentStreamId = 1 => currentStreamId' = 1
      BY <2>3
    <3>5. "createStream" \in asked'[session] \cup {rxpc'[session]} => connected'
      BY <2>4, <3>1, <3>3
    <3>6. "publish" \in asked'[session] \cup {rxpc'[session]} => connected' /\ currentStreamId' = 1
      BY <2>3, <2>4, <3>1, <3>3, <3>4
    <3>7. publishPermitted' => currentStreamId' = 1
      BY <2>3, <3>1, <3>4
    <3>8. currentStreamId' = 1 => connected'
      BY <2>3, <3>1, <3>3
    <3> QED
      BY <2>0, <2>4, <3>2, <3>5, <3>6, <3>7, <3>8 DEF Linked, Pending
  <2>6. Place = "waitConnected" => Fits("waitConnected")'
    <3>1. CASE Place = "waitConnected"
      <4>1. /\ Linked /\ ~publishPermitted /\ currentStreamId = 0 /\ asked[session] \subseteq {"connect"}
            /\ rxpc[session] \in {"read", "done", "connect"}
            /\ ~("connect" \in asked[session] /\ rxpc[session] = "connect")
        BY <3>1, <1>a DEF Fits
      <4>2. rxpc[session] = "connect" /\ asked'[session] = {}
        BY <2>0, <2>4, <4>1
      <4> QED
        BY <2>0, <2>3, <2>4, <2>5, <4>1, <4>2 DEF Fits, LoopPlaces, Pending
    <3> QED
      BY <3>1
  <2>7. Place = "join" => sock'[s] = "shut" /\ rxpc'[s] # "none"
    BY <2>0, <2>4, <1>a, <1>h DEF Fits
  <2>8. Dialed => Dialed'
    BY <2>0, <1>d
  <2>9. publishPermitted => publishPermitted'
    BY <2>3
  <2> QED
    BY <2>0, <2>1, <2>3, <2>4, <2>5, <2>6, <2>7, <2>8, <2>9, <1>c
<1>3. CASE ReadEnds(s)
  <2>0. /\ rxpc[session] = "read" /\ rxpc' = [rxpc EXCEPT ![session] = "done"]
        /\ UNCHANGED <<session, pc, fields, ends, joining, crash>>
    BY <1>3, <1>h DEF ReadEnds
  <2>1. rxpc'[session] = "done" /\ \A u \in Sessions : u # s => UNCHANGED <<sock[u], rxpc[u], asked[u]>>
    BY <2>0, <1>h, <1>t DEF ends
  <2>2. UNCHANGED <<socket, sess, rx, connected, publishPermitted, currentStreamId, sock, invoked, asked>>
    BY <2>0 DEF fields, ends
  <2>3. Linked => Linked'
    <3>1. (Pending \cap Commands)' \subseteq Pending
      BY <2>0, <2>1, <2>2, <1>f DEF Pending
    <3> QED
      BY <2>0, <2>1, <2>2, <3>1, <1>f DEF Linked
  <2>4. Dialed => Dialed'
    BY <2>0, <1>d
  <2>5. Place \in {"rtmpConnect", "createStream"} => Unasked'
    BY <2>0, <2>1, <2>2, <1>a DEF Fits, Unasked
  <2>6. Place = "waitConnected" => Fits("waitConnected")'
    <3>1. CASE Place = "waitConnected"
      <4>1. /\ Linked /\ ~publishPermitted /\ currentStreamId = 0 /\ asked[session] \subseteq {"connect"}
            /\ "connect" \in Pending => ~connected
        BY <3>1, <1>a DEF Fits
      <4>2. ("connect" \in Pending)' => "connect" \in Pending
        BY <2>0, <2>1, <2>2 DEF Pending
      <4> QED
        BY <2>0, <2>1, <2>2, <2>3, <4>1, <4>2 DEF Fits, LoopPlaces
    <3> QED
      BY <3>1
  <2>7. Place \notin {"tcp", "handshake"}
    BY <2>0, <1>a, <1>d DEF Fits
  <2>8. Place = "join" => sock'[s] = "shut" /\ rxpc'[s] # "none"
    BY <2>1, <2>2, <1>a, <1>h DEF Fits
  <2> QED
    BY <2>0, <2>1, <2>2, <2>3, <2>4, <2>5, <2>6, <2>7, <2>8, <1>c, <1>h
<1>4. CASE ServerCloses(s)
  <2>0. /\ sock[session] = "open" /\ sock' = [sock EXCEPT ![session] = "eof"]
        /\ asked' = [asked EXCEPT ![session] = {}]
        /\ UNCHANGED <<session, pc, fields, invoked, receiver, joining, crash>>
    BY <1>4, <1>h DEF ServerCloses
  <2>1. sock'[session] = "eof" /\ asked'[session] = {}
        /\ \A u \in Sessions : u # s => UNCHANGED <<sock[u], rxpc[u], asked[u]>>
    BY <2>0, <1>h, <1>t DEF receiver
  <2>2. UNCHANGED <<socket, sess, rx, connected, publishPermitted, currentStreamId, rxpc, invoked>>
    BY <2>0 DEF fields, receiver
  <2>3. Linked => Linked'
    <3>1. Pending' \subseteq Pending
      BY <2>0, <2>1, <2>2 DEF Pending
    <3> QED
      BY <2>0, <2>1, <2>2, <3>1 DEF Linked
  <2>4. Dialed => Dialed'
    BY <2>0, <2>1, <2>2 DEF Dialed
  <2>5. Place \in {"rtmpConnect", "createStream"} => Unasked'
    BY <2>0, <2>1, <2>2, <1>a DEF Fits, Unasked
  <2>6. Place = "waitConnected" => Fits("waitConnected")'
    <3>1. CASE Place = "waitConnected"
      <4>1. /\ Linked /\ ~publishPermitted /\ currentStreamId = 0 /\ rxpc[session] \in {"read", "done", "connect"}
            /\ "connect" \in Pending => ~connected
        BY <3>1, <1>a DEF Fits
      <4>2. ("connect" \in Pending)' => "connect" \in Pending
        BY <2>0, <2>1, <2>2 DEF Pending
      <4> QED
        BY <2>0, <2>1, <2>2, <2>3, <4>1, <4>2 DEF Fits, LoopPlaces
    <3> QED
      BY <3>1
  <2>7. Place # "join" /\ (Place = "closeSocket" => rxpc[session] \in {"none", "done"})
    BY <2>0, <1>a DEF Fits
  <2> QED
    BY <2>0, <2>1, <2>2, <2>3, <2>4, <2>5, <2>6, <2>7, <1>c, <1>h
<1> QED
  BY <1>1, <1>2, <1>3, <1>4 DEF Receives

(* A session that once was not Sole never is again.                         *)
LEMMA SoleStays ==
  ASSUME [Next]_vars, Sole'
  PROVE  Sole
<1>1. overlap => overlap'
  BY DEF Next, StartPublish, StopPublish, WorkerJoined, StopAgain, WriteSample, CountTag, Works, Connected, Loop, Drain, Poll,
         WaitFrame, Disconnected, muxVars, vars
<1>2. orphan => orphan'
  <2>1. CASE ConnNext
    BY <2>1 DEF ConnNext, WorkerConnects, OpenSocket, TcpConnects, HandshakeFails, HandshakeDone, RtmpConnect,
       WaitConnected, CreateStream, WaitPublish, Returns, PublishChecks, PublishSends, Dies, Tearing, Shutdown,
       JoinReceiver, CloseSocket, Reset, Receives, ApplyAnswer, ReadEnds, ServerCloses, ReadAnswer
  <2>2. CASE ~ConnNext
    BY <2>2 DEF Next, StartPublish, StopPublish, WorkerJoined, StopAgain, WriteSample, CountTag, Works, Connected, Loop, Drain,
       Poll, WaitFrame, Dies, Disconnected, connVars, vars
  <2> QED
    BY <2>1, <2>2
<1> QED
  BY <1>1, <1>2 DEF Sole

(* The connection, in every step of a session that is Sole.                 *)
LEMMA ConnectionStep ==
  ASSUME Typed, Control, Sole => Connection, crash = "none", [Next]_vars
  PROVE  Sole' => Connection'
<1> SUFFICES ASSUME Sole' PROVE Connection'
  OBVIOUS
<1>c. Connection
  BY SoleStays
<1>f. /\ Worker \in Threads /\ Worker \notin Sessions /\ Sessions \subseteq Threads /\ Worker = 0
      /\ Refs = Sessions \cup {0} /\ Sessions \subseteq Nat
  BY ThreadFacts
<1>t. pc \in [Threads -> ConnPlaces \cup {"none", "done"}] /\ session \in Refs
  BY DEF Typed, TypeOK, ConnTypeOK, ConnPlaces, DialPlaces, LoopPlaces, TearPlaces
<1>n. /\ session \in Nat /\ again \in Nat /\ Stopper = session + again /\ Stopper \in Nat
      /\ Stopper \in Refs /\ Stopper \in Threads
  <2>1. session \in Refs /\ again \in Refs /\ Stopper \in Refs
    BY DEF Typed, TypeOK, ConnTypeOK
  <2> QED
    BY <2>1, <1>f DEF Stopper
<1>i. ASSUME ui = "idle", Disconnecting = {}
      PROVE  Blank /\ (Stopper # 0 => pc[Stopper] = "done") /\ \A t \in Sessions : t <= Stopper => pc[t] = "done"
  <2>1. Place = pc[Stopper]
    BY <1>i DEF Place, Holder
  <2>2. CASE Stopper = 0
    <3>1. Place = "none"
      BY <2>1, <2>2, <1>n, <1>f DEF Control
    <3>2. \A t \in Sessions : ~(t <= Stopper)
      BY <2>2, SessionsAssumption DEF Sessions
    <3> QED
      BY <2>2, <3>1, <3>2, <1>c DEF Connection, Fits
  <2>3. CASE Stopper # 0
    <3>1. pc[Stopper] = "done"
      BY <1>i, <2>3, <1>n, <1>f DEF Disconnecting, Control
    <3>2. \A t \in Sessions : t <= Stopper => t < Stopper \/ t = Stopper
      BY <1>n, <1>f
    <3> QED
      BY <1>i, <2>1, <3>1, <3>2, <1>c DEF Connection
  <2> QED
    BY <2>2, <2>3
<1>k. ASSUME UNCHANGED <<session, again, pc, fields, ends, receiver, joining, crash>>, Holder' = Holder,
             (ui = "idle" <=> ui' = "idle")
      PROVE  Connection'
  <2>0. Stopper' = Stopper
    BY <1>k DEF Stopper
  <2>1. Place' = Place
    BY <1>k DEF Place
  <2>2. /\ (Blank <=> Blank') /\ (Dialed <=> Dialed') /\ (Linked <=> Linked') /\ (Unasked <=> Unasked')
        /\ \A s \in Sessions : Shut(s) <=> Shut(s)'
        /\ Pending' = Pending
    BY <1>k DEF Blank, Shut, Dialed, Linked, Pending, Unasked, fields, ends, receiver
  <2>3. Fits(Place)'
    BY <2>1, <2>2, <1>c, <1>k DEF Connection, Fits, fields, ends, receiver
  <2> QED
    BY <2>0, <2>1, <2>2, <2>3, <1>c, <1>k DEF Connection, fields, ends, receiver
<1>3. CASE StartPublish
  <2>1. /\ ui = "idle" /\ ui' = "live" /\ session' = session + 1 /\ again' = again /\ Stopper < MaxSessions
        /\ pc' = [pc EXCEPT ![Worker] = "open"]
        /\ UNCHANGED <<fields, ends, receiver, crash>> /\ Disconnecting = {}
    BY <1>3 DEF StartPublish, Goto, Sole
  <2>2. session' \in Sessions /\ session' = session + 1 /\ Stopper' = Stopper + 1
    BY <2>1, <1>n, SessionsAssumption DEF Sessions, Stopper
  <2>3. Blank
    BY <2>1, <1>i
  <2>4. Blank'
    BY <2>1, <2>3 DEF Blank, Shut, fields, ends, receiver
  <2>5. Place' = "open" /\ \A s \in Sessions : pc'[s] = pc[s]
    BY <2>1, <1>t, <1>f DEF Place, Holder
  <2>6. asked'[session'] = {}
    <3>1. session' > session
      BY <2>2, <1>n
    <3> QED
      BY <2>1, <2>2, <3>1, <1>c DEF Connection, ends
  <2>7. Fits(Place)'
    BY <2>4, <2>5, <2>6 DEF Fits, LoopPlaces
  <2>8. /\ \A s \in Sessions : Shut(s)'
        /\ \A s \in Sessions : s < Stopper' => pc'[s] = "done"
    <3>1. \A s \in Sessions : s < Stopper' => s <= Stopper
      BY <2>2, <1>n, <1>f
    <3> QED
      BY <2>1, <2>4, <2>5, <3>1, <1>i DEF Blank
  <2>9. ASSUME NEW s \in Sessions, s > session'
        PROVE (sock[s] = "none" /\ rxpc[s] = "none" /\ asked[s] = {})'
    <3>1. s > session
      BY <2>2, <2>9, <1>f, <1>n
    <3> QED
      BY <2>1, <3>1, <1>c DEF Connection, ends, receiver
  <2> QED
    BY <2>1, <2>4, <2>5, <2>7, <2>8, <2>9, <1>c DEF Connection
<1>4. CASE StopPublish
  BY <1>4, <1>k DEF StopPublish, Holder, Stopper
<1>5. CASE WorkerJoined
  <2>1. /\ ui = "stopping" /\ ui' = "idle" /\ pc[Worker] = "done"
        /\ pc' = [pc EXCEPT ![Stopper] = "shutdown"]
        /\ UNCHANGED <<session, again, fields, ends, receiver, joining, crash>>
    BY <1>5 DEF WorkerJoined, Goto
  <2>2. Stopper \in Sessions /\ Stopper' = Stopper
    <3>1. session \in Sessions
      BY <2>1 DEF Control
    <3>2. Stopper # 0
      BY <3>1, <1>n, <1>f
    <3> QED
      BY <2>1, <3>2, <1>n, <1>f DEF Stopper
  <2>3. Place = "done" /\ Place' = "shutdown" /\ \A s \in Sessions : s # Stopper => pc'[s] = pc[s]
    BY <2>1, <2>2, <1>t, <1>f DEF Place, Holder
  <2>4. (Blank \/ Dialed \/ Linked)'
    <3>1. Blank \/ Dialed \/ Linked
      BY <2>3, <1>c DEF Connection, Fits
    <3> QED
      BY <2>1, <3>1 DEF Blank, Shut, Dialed, Linked, Pending, fields, ends, receiver
  <2>5. Fits(Place)'
    BY <2>3, <2>4 DEF Fits, LoopPlaces
  <2>6. \A s \in Sessions : s < Stopper => s # Stopper
    BY <1>f, <1>n
  <2>7. /\ \A s \in Sessions : s < session => Shut(s)'
        /\ \A s \in Sessions : s < Stopper => pc'[s] = "done"
    BY <2>1, <2>3, <2>6, <1>c DEF Connection, Shut, ends, receiver
  <2>8. \A s \in Sessions : s > session => (sock[s] = "none" /\ rxpc[s] = "none" /\ asked[s] = {})'
    BY <2>1, <1>c DEF Connection, ends, receiver
  <2> QED
    BY <2>1, <2>2, <2>3, <2>5, <2>7, <2>8, <1>c DEF Connection
<1>s. CASE StopAgain
  <2>1. /\ ui = "idle" /\ ui' = "idle" /\ again' = again + 1 /\ Stopper < MaxSessions
        /\ pc' = [pc EXCEPT ![Stopper + 1] = "shutdown"] /\ Disconnecting = {}
        /\ UNCHANGED <<session, fields, ends, receiver, joining, crash>>
    BY <1>s DEF StopAgain, Goto, Sole
  <2>2. Stopper' = Stopper + 1 /\ Stopper + 1 \in Sessions
    BY <2>1, <1>n, SessionsAssumption DEF Sessions, Stopper
  <2>3. Place' = "shutdown" /\ \A s \in Sessions : s # Stopper + 1 => pc'[s] = pc[s]
    BY <2>1, <2>2, <1>t, <1>f DEF Place, Holder
  <2>4. Blank'
    BY <2>1, <1>i DEF Blank, Shut, fields, ends, receiver
  <2>5. Fits(Place)'
    BY <2>3, <2>4 DEF Fits, LoopPlaces
  <2>6. \A s \in Sessions : s < Stopper + 1 => s # Stopper + 1 /\ s <= Stopper
    BY <1>f, <1>n
  <2>7. /\ \A s \in Sessions : Shut(s)'
        /\ \A s \in Sessions : s < Stopper' => pc'[s] = "done"
    BY <2>1, <2>2, <2>3, <2>4, <2>6, <1>i DEF Blank
  <2>8. \A s \in Sessions : s > session => (sock[s] = "none" /\ rxpc[s] = "none" /\ asked[s] = {})'
    BY <2>1, <1>c DEF Connection, ends, receiver
  <2> QED
    BY <2>1, <2>3, <2>5, <2>7, <2>8, <1>c DEF Connection
<1>6. CASE \E k \in Tracks : WriteSample(k) \/ CountTag(k)
  <2>1. UNCHANGED <<session, again, pc, fields, ends, receiver, joining, crash, ui>>
    BY <1>6 DEF WriteSample, CountTag, connVars
  <2> QED
    BY <2>1, <1>k DEF Holder, Stopper
<1>7. CASE Works
  <2>1. UNCHANGED <<ui, again>>
    BY <1>7 DEF Works, Connected, Loop, Drain, Poll, WaitFrame, muxVars
  <2> QED
    BY <2>1, <1>7, <1>c, WorkerConnection
<1>8. ASSUME NEW s \in Sessions, Disconnected(s) PROVE Connection'
  <2>1. UNCHANGED <<ui, again>> /\ s \in Threads
    BY <1>8, <1>f DEF Disconnected
  <2> QED
    BY <2>1, <1>8, <1>c, TearConnection DEF Sole
<1>9. CASE ConnNext /\ UNCHANGED muxVars
  <2>1. UNCHANGED <<ui, again>>
    BY <1>9 DEF muxVars
  <2>2. CASE WorkerConnects \/ HandshakeDone
    BY <2>1, <2>2, <1>c, WorkerConnection
  <2>3. CASE \E t \in Threads : Tearing(t)
    BY <2>1, <2>3, <1>c, TearConnection DEF Sole
  <2>4. CASE \E s \in Sessions : Receives(s) \/ ServerCloses(s) \/ \E cmd \in Commands : ReadAnswer(s, cmd)
    BY <2>1, <2>4, <1>c, ReceiverConnection
  <2> QED
    BY <1>9, <2>2, <2>3, <2>4 DEF ConnNext
<1>10. CASE UNCHANGED vars
  <2>1. UNCHANGED <<session, again, pc, fields, ends, receiver, joining, crash, ui>>
    BY <1>10 DEF vars, connVars, muxVars
  <2> QED
    BY <2>1, <1>k DEF Holder, Stopper
<1> QED
  BY <1>3, <1>4, <1>5, <1>s, <1>6, <1>7, <1>8, <1>9, <1>10 DEF Next

-------------------------------------------------------------------------------
(* The counter *)

(* What the steps of the connection do to the tags: one of them sends the    *)
(* frame in hand and counts it down, reset() zeroes the counter when nobody  *)
(* publishes, and a frame in hand is given back for its time only.          *)
LEMMA ConnEffect ==
  ASSUME Typed, Control, Connection, ConnNext
  PROVE  /\ InLoop' <=> InLoop
         /\ Serving' => Serving
         /\ sock'[session] = "open" => sock[session] = "open" \/ pc[Worker] = "tcp"
         /\ \/ /\ UNCHANGED <<frame, wire, videoFrameCacheNumber, cast>>
               /\ ui = "idle" /\ pc'[Stopper] \in {"none", "returns", "done"} =>
                    pc[Stopper] \in {"none", "returns", "done"}
            \/ UNCHANGED <<frame, wire, headless>> /\ videoFrameCacheNumber' = 0 /\ skipped' = 0 /\ ~Serving
            \/ /\ pc[Worker] = "publish" /\ frame' = <<>> /\ UNCHANGED <<wire, videoFrameCacheNumber>>
               /\ skipped' = skipped + (IF frame[1].track = "video" THEN 1 ELSE 0)
               /\ headless' = headless \cup (IF frame[1].hdr THEN {frame[1].track} ELSE {})
            \/ /\ pc[Worker] = "send" /\ frame' = <<>> /\ UNCHANGED cast
               /\ wire' = IF sock[session] = "open" THEN wire \o frame ELSE wire
               /\ videoFrameCacheNumber' = videoFrameCacheNumber - (IF frame[1].track = "video" THEN 1 ELSE 0)
<1> DEFINE Effect ==
         /\ InLoop' <=> InLoop
         /\ Serving' => Serving
         /\ sock'[session] = "open" => sock[session] = "open" \/ pc[Worker] = "tcp"
         /\ \/ /\ UNCHANGED <<frame, wire, videoFrameCacheNumber, cast>>
               /\ ui = "idle" /\ pc'[Stopper] \in {"none", "returns", "done"} =>
                    pc[Stopper] \in {"none", "returns", "done"}
            \/ UNCHANGED <<frame, wire, headless>> /\ videoFrameCacheNumber' = 0 /\ skipped' = 0 /\ ~Serving
            \/ /\ pc[Worker] = "publish" /\ frame' = <<>> /\ UNCHANGED <<wire, videoFrameCacheNumber>>
               /\ skipped' = skipped + (IF frame[1].track = "video" THEN 1 ELSE 0)
               /\ headless' = headless \cup (IF frame[1].hdr THEN {frame[1].track} ELSE {})
            \/ /\ pc[Worker] = "send" /\ frame' = <<>> /\ UNCHANGED cast
               /\ wire' = IF sock[session] = "open" THEN wire \o frame ELSE wire
               /\ videoFrameCacheNumber' = videoFrameCacheNumber - (IF frame[1].track = "video" THEN 1 ELSE 0)
<1>f. /\ Worker \in Threads /\ Worker \notin Sessions /\ Sessions \subseteq Threads /\ Worker = 0
      /\ Refs = Sessions \cup {0} /\ Threads = Refs
  BY ThreadFacts DEF Threads
<1>t. /\ pc \in [Threads -> ConnPlaces \cup {"none", "done"}] /\ session \in Refs /\ Stopper \in Refs
      /\ sock \in [Sessions -> {"none", "connecting", "open", "eof", "shut", "closed"}]
  BY DEF Typed, TypeOK, ConnTypeOK, ConnPlaces, DialPlaces, LoopPlaces, TearPlaces
<1>l. (InLoop <=> pc[Worker] \in LoopPlaces) /\ (InLoop' <=> pc'[Worker] \in LoopPlaces)
  BY DEF InLoop, LoopPlaces
<1>h. /\ \A t \in Threads : pc[t] \notin {"none", "done"} => t = Holder /\ Fits(pc[t])
      /\ pc[Worker] \notin {"none", "done"} => ui # "idle" /\ session \in Sessions /\ session # 0
  BY HolderRuns DEF Connection, Place
<1>w. ASSUME NEW p \in DialPlaces \cup {"refused", "shutdown"}, pc' = [pc EXCEPT ![Worker] = p],
             pc[Worker] \in DialPlaces, UNCHANGED <<frame, wire, videoFrameCacheNumber, cast>>,
             sock'[session] = "open" => sock[session] = "open" \/ pc[Worker] = "tcp"
      PROVE  Effect
  <2>1. pc'[Worker] = p
    BY <1>w, <1>t, <1>f
  <2>2. ~InLoop /\ ~InLoop' /\ Serving
    BY <1>w, <2>1, <1>l DEF DialPlaces, LoopPlaces, Serving
  <2>3. ui # "idle"
    BY <1>w, <1>h DEF DialPlaces
  <2> QED
    BY <1>w, <2>2, <2>3
<1>k. ASSUME UNCHANGED <<pc, frame, wire, videoFrameCacheNumber, cast>>, sock'[session] = "open" => sock[session] = "open"
      PROVE  Effect
  BY <1>k DEF InLoop, Serving
<1>1. CASE OpenSocket \/ TcpConnects
  <2>1. /\ pc[Worker] \in {"open", "tcp"} /\ UNCHANGED <<frame, wire, videoFrameCacheNumber, cast>>
        /\ UNCHANGED pc \/ \E p \in {"tcp", "handshake", "refused"} : pc' = [pc EXCEPT ![Worker] = p]
    BY <1>1 DEF OpenSocket, TcpConnects, Goto
  <2>2. pc[Worker] \in DialPlaces /\ {"tcp", "handshake", "refused"} \subseteq DialPlaces \cup {"refused", "shutdown"}
    BY <2>1 DEF DialPlaces
  <2>3. session \in Sessions
    BY <2>1, <1>h
  <2>4. sock'[session] = "open" => sock[session] = "open" \/ pc[Worker] = "tcp"
    BY <1>1, <2>3, <1>t DEF OpenSocket, TcpConnects
  <2>5. UNCHANGED pc => sock' = sock
    <3>1. ASSUME UNCHANGED pc PROVE ~OpenSocket
      BY <3>1, <1>t, <1>f DEF OpenSocket, Goto
    <3>2. ASSUME UNCHANGED pc, TcpConnects PROVE sock' = sock
      BY <3>2, <1>t, <1>f DEF TcpConnects, Goto
    <3> QED
      BY <1>1, <3>1, <3>2
  <2> QED
    BY <2>1, <2>2, <2>4, <2>5, <1>w, <1>k
<1>2. CASE HandshakeDone \/ HandshakeFails \/ RtmpConnect \/ WaitConnected \/ CreateStream \/ WaitPublish
  <2>1. /\ pc[Worker] \in DialPlaces /\ UNCHANGED <<frame, wire, videoFrameCacheNumber, cast, sock>>
        /\ \/ UNCHANGED pc
           \/ \E p \in DialPlaces \cup {"refused", "shutdown"} : pc' = [pc EXCEPT ![Worker] = p]
    BY <1>2 DEF HandshakeDone, HandshakeFails, RtmpConnect, WaitConnected, CreateStream, WaitPublish, Goto, ends,
                DialPlaces
  <2> QED
    BY <2>1, <1>w, <1>k
<1>3. CASE Returns
  <2>1. pc[Worker] = "returns" /\ UNCHANGED <<frame, wire, videoFrameCacheNumber, cast, sock>>
    BY <1>3 DEF Returns, ends
  <2>2. Blank
    BY <2>1, <1>h, <1>f DEF Fits
  <2>3. pc' = [pc EXCEPT ![Worker] = "refused"]
    BY <1>3, <2>2 DEF Returns, Goto, Blank
  <2>4. pc'[Worker] = "refused"
    BY <2>3, <1>t, <1>f
  <2>5. ~InLoop /\ ~InLoop' /\ ~Serving'
    BY <2>1, <2>4, <1>l DEF DialPlaces, LoopPlaces, Serving
  <2>6. ui # "idle"
    BY <2>1, <1>h
  <2> QED
    BY <2>1, <2>5, <2>6
<1>4. CASE PublishChecks
  <2>1. pc[Worker] = "publish" /\ UNCHANGED <<wire, videoFrameCacheNumber, sock>>
    BY <1>4 DEF PublishChecks, ends
  <2>2. Linked /\ publishPermitted
    BY <2>1, <1>h, <1>f DEF Fits, LoopPlaces
  <2>3. \/ pc' = [pc EXCEPT ![Worker] = "send"] /\ UNCHANGED <<frame, cast>>
        \/ /\ pc' = [pc EXCEPT ![Worker] = "drain"] /\ frame' = <<>>
           /\ skipped' = skipped + (IF frame[1].track = "video" THEN 1 ELSE 0)
           /\ headless' = headless \cup (IF frame[1].hdr THEN {frame[1].track} ELSE {})
    BY <1>4, <2>2 DEF PublishChecks, Goto, Linked
  <2>4. pc'[Worker] \in {"send", "drain"}
    BY <2>3, <1>t, <1>f
  <2>5. InLoop /\ InLoop' /\ Serving
    BY <2>1, <2>4, <1>l DEF LoopPlaces, Serving
  <2>6. ui # "idle"
    BY <2>1, <1>h
  <2> QED
    BY <2>1, <2>3, <2>5, <2>6
<1>5. CASE PublishSends
  <2>1. pc[Worker] = "send"
    BY <1>5 DEF PublishSends
  <2>2. Linked
    BY <2>1, <1>h, <1>f DEF Fits, LoopPlaces
  <2>3. sess # 0
    BY <2>1, <2>2, <1>h DEF Linked
  <2>4. /\ pc' = [pc EXCEPT ![Worker] = "drain"] /\ frame' = <<>> /\ UNCHANGED sock
        /\ wire' = IF sock[session] = "open" THEN wire \o frame ELSE wire
        /\ videoFrameCacheNumber' = videoFrameCacheNumber - (IF frame[1].track = "video" THEN 1 ELSE 0)
        /\ UNCHANGED cast
    BY <1>5, <2>3 DEF PublishSends, Goto, ends
  <2>5. pc'[Worker] = "drain"
    BY <2>4, <1>t, <1>f
  <2>6. InLoop /\ InLoop' /\ Serving
    BY <2>1, <2>5, <1>l DEF LoopPlaces, Serving
  <2> QED
    BY <2>1, <2>4, <2>6
<1>6. ASSUME NEW t \in Threads, Tearing(t) PROVE Effect
  <2>1. /\ pc[t] \in {"shutdown", "join", "closeSocket", "reset"} /\ UNCHANGED <<frame, wire>>
        /\ UNCHANGED pc \/ \E p \in TearPlaces : pc' = [pc EXCEPT ![t] = p]
    BY <1>6 DEF Tearing, Shutdown, JoinReceiver, CloseSocket, Reset, Dies, Goto, TearPlaces
  <2>2. ~Serving /\ ~Serving' /\ ~InLoop /\ ~InLoop'
    <3>1. t = Holder /\ Holder \in {Worker, Stopper}
      BY <2>1, <1>h, HolderRuns
    <3>2. pc[Worker] \in TearPlaces \cup {"none", "done"}
      BY <2>1, <3>1 DEF Holder, Control, TearPlaces
    <3>3. pc'[Worker] \in TearPlaces \cup {"none", "done"}
      BY <2>1, <3>2, <1>t, <1>f
    <3> QED
      BY <3>2, <3>3, <1>l DEF Serving, DialPlaces, LoopPlaces, TearPlaces
  <2>3. sock'[session] = "open" => sock[session] = "open"
    <3>1. CASE UNCHANGED sock
      BY <3>1
    <3>2. CASE ~UNCHANGED sock
      <4>1. session \in Sessions
        <5>1. CASE Shutdown(t)
          BY <3>2, <5>1, <1>h DEF Shutdown, Fits, Blank, Dialed, Linked
        <5>2. CASE CloseSocket(t)
          BY <5>2, <1>h DEF CloseSocket, Fits
        <5>3. ~JoinReceiver(t) /\ ~Reset(t)
          BY <3>2 DEF JoinReceiver, Reset, ends
        <5> QED
          BY <1>6, <5>1, <5>2, <5>3 DEF Tearing
      <4>2. \/ sock' = [sock EXCEPT ![socket] = IF @ \in {"open", "eof"} THEN "shut" ELSE @]
            \/ sock' = [sock EXCEPT ![socket] = "closed"]
        BY <1>6, <3>2 DEF Tearing, Shutdown, JoinReceiver, CloseSocket, Reset, Dies, ends
      <4> QED
        BY <4>1, <4>2, <1>t
    <3> QED
      BY <3>1, <3>2
  <2>4. CASE Reset(t)
    BY <2>1, <2>2, <2>3, <2>4 DEF Reset
  <2>5. CASE Shutdown(t) \/ JoinReceiver(t) \/ CloseSocket(t)
    <3>1. /\ UNCHANGED <<videoFrameCacheNumber, cast>>
          /\ UNCHANGED pc \/ \E p \in {"reset", "closeSocket", "join"} : pc' = [pc EXCEPT ![t] = p]
      BY <2>5 DEF Shutdown, JoinReceiver, CloseSocket, Dies, Goto
    <3>2. pc'[Stopper] \in {"none", "returns", "done"} => pc[Stopper] \in {"none", "returns", "done"}
      BY <3>1, <1>t, <1>f
    <3> QED
      BY <2>1, <2>2, <2>3, <3>1, <3>2
  <2> QED
    BY <1>6, <2>4, <2>5 DEF Tearing
<1>7. ASSUME NEW s \in Sessions,
             Receives(s) \/ ServerCloses(s) \/ \E cmd \in Commands : ReadAnswer(s, cmd)
      PROVE  Effect
  <2>1. UNCHANGED <<pc, frame, wire, videoFrameCacheNumber, cast, session>>
    BY <1>7 DEF Receives, ApplyAnswer, ReadEnds, ServerCloses, ReadAnswer, Dies
  <2>2. sock' = sock \/ (sock[s] = "open" /\ sock' = [sock EXCEPT ![s] = "eof"])
    BY <1>7 DEF Receives, ApplyAnswer, ReadEnds, ServerCloses, ReadAnswer, Dies, ends
  <2>3. sock'[session] = "open" => sock[session] = "open"
    <3>1. CASE session = s
      BY <3>1, <2>2, <1>t
    <3>2. CASE session # s
      <4>1. CASE session \in Sessions
        BY <3>2, <4>1, <2>2, <1>t
      <4>2. CASE session \notin Sessions
        <5>1. Shut(s)
          BY <3>2, HolderRuns
        <5> QED
          BY <5>1, <2>2 DEF Shut
      <4> QED
        BY <4>1, <4>2
    <3> QED
      BY <3>1, <3>2
  <2> QED
    BY <2>1, <2>3, <1>k
<1> QED
  BY <1>1, <1>2, <1>3, <1>4, <1>5, <1>6, <1>7 DEF ConnNext, WorkerConnects

(* Where the video tags of a sequence are, and how many there are when one   *)
(* is put at its end or taken from its head.                                *)
VideoSet(q) == {i \in 1..Len(q) : q[i].track = "video"}
One(f) == IF f.track = "video" THEN 1 ELSE 0

(* There are finitely many of them.                                         *)
LEMMA VideosFinite ==
  ASSUME NEW q \in Seq(Tags)
  PROVE  IsFiniteSet(VideoSet(q)) /\ Cardinality(VideoSet(q)) \in Nat
<1>1. Len(q) \in Nat /\ IsFiniteSet(1..Len(q))
  BY FS_Interval
<1>2. VideoSet(q) \in SUBSET (1..Len(q))
  BY DEF VideoSet
<1> QED
  BY <1>1, <1>2, FS_Subset, FS_CardinalityType

(* add() of the cache makes one more if it adds a video tag.                *)
LEMMA VideosAppended ==
  ASSUME NEW q \in Seq(Tags), NEW f \in Tags
  PROVE  Cardinality(VideoSet(Append(q, f))) = Cardinality(VideoSet(q)) + One(f)
<1>1. /\ Len(Append(q, f)) = Len(q) + 1 /\ Len(q) \in Nat
      /\ \A i \in 1..Len(q) : Append(q, f)[i] = q[i]
      /\ Append(q, f)[Len(q) + 1] = f
  BY AppendProperties
<1>2. \A i : i \in 1..(Len(q) + 1) <=> i \in 1..Len(q) \/ i = Len(q) + 1
  BY <1>1
<1>3. Len(q) + 1 \notin VideoSet(q)
  BY <1>1 DEF VideoSet
<1>4. CASE f.track = "video"
  <2>1. VideoSet(Append(q, f)) = VideoSet(q) \cup {Len(q) + 1}
    BY <1>1, <1>2, <1>4 DEF VideoSet
  <2> QED
    BY <2>1, <1>3, <1>4, VideosFinite, FS_AddElement DEF One
<1>5. CASE f.track # "video"
  <2>1. VideoSet(Append(q, f)) = VideoSet(q)
    BY <1>1, <1>2, <1>5 DEF VideoSet
  <2> QED
    BY <2>1, <1>5, VideosFinite DEF One
<1> QED
  BY <1>4, <1>5

(* poll() of the cache makes one less if it takes a video tag.              *)
LEMMA VideosTaken ==
  ASSUME NEW q \in Seq(Tags), q # <<>>
  PROVE  Cardinality(VideoSet(q)) = Cardinality(VideoSet(Tail(q))) + One(Head(q))
<1> DEFINE r == Tail(q)
           g == [i \in VideoSet(r) |-> i + 1]
<1>1. /\ Head(q) \in Tags /\ r \in Seq(Tags) /\ Len(r) = Len(q) - 1 /\ Len(q) \in Nat \ {0}
      /\ \A i \in 1..Len(r) : r[i] = q[i + 1]
      /\ Head(q) = q[1]
  BY EmptySeq, HeadTailProperties
<1> HIDE DEF r
<1>2. \A i \in 1..Len(r) : i + 1 \in 1..Len(q) /\ i + 1 # 1
  BY <1>1
<1>3. \A i \in 1..Len(q) : i # 1 => i - 1 \in 1..Len(r) /\ i = (i - 1) + 1
  BY <1>1
<1>4. g \in Bijection(VideoSet(r), VideoSet(q) \ {1})
  <2>1. \A i \in VideoSet(r) : i \in Nat /\ g[i] = i + 1 /\ g[i] \in VideoSet(q) \ {1}
    BY <1>1, <1>2 DEF VideoSet
  <2>2. \A i \in VideoSet(q) \ {1} : i - 1 \in VideoSet(r) /\ g[i - 1] = i
    BY <1>1, <1>3 DEF VideoSet
  <2>3. g \in [VideoSet(r) -> VideoSet(q) \ {1}]
    BY <2>1
  <2>4. \A i, j \in VideoSet(r) : g[i] = g[j] => i = j
    BY <2>1
  <2>5. \A i \in VideoSet(q) \ {1} : \E j \in VideoSet(r) : g[j] = i
    BY <2>2
  <2> HIDE DEF g
  <2> QED
    BY <2>3, <2>4, <2>5 DEF Bijection, Injection, Surjection, IsInjective
<1>5. Cardinality(VideoSet(q) \ {1}) = Cardinality(VideoSet(r))
  <2>1. ExistsBijection(VideoSet(r), VideoSet(q) \ {1})
    BY <1>4 DEF ExistsBijection
  <2> QED
    BY <2>1, <1>1, VideosFinite, FS_Bijection
<1>6. 1 \in VideoSet(q) <=> Head(q).track = "video"
  BY <1>1 DEF VideoSet
<1>7. Cardinality(VideoSet(q) \ {1}) = IF 1 \in VideoSet(q) THEN Cardinality(VideoSet(q)) - 1 ELSE Cardinality(VideoSet(q))
  BY VideosFinite, FS_RemoveElement
<1>8. Cardinality(VideoSet(q)) \in Nat /\ Cardinality(VideoSet(r)) \in Nat
  BY <1>1, VideosFinite
<1> QED
  BY <1>5, <1>6, <1>7, <1>8 DEF One, r

(* The worker drops no tag: the header of its track is known, or the tag is  *)
(* the header.                                                              *)
LEMMA PollTakes ==
  ASSUME Typed, Control, Headed, Poll, mFlvTagCache # <<>>
  PROVE  /\ ui = "live" /\ pc[Worker] = "poll" /\ pc' = [pc EXCEPT ![Worker] = "publish"] /\ frame = <<>>
         /\ frame' = <<Head(mFlvTagCache)>> /\ mFlvTagCache' = Tail(mFlvTagCache)
         /\ Head(mFlvTagCache) \in Tags
         /\ \A k \in Tracks : header'[k] = (header[k] \/ (k = Head(mFlvTagCache).track /\ Head(mFlvTagCache).hdr))
         /\ Head(mFlvTagCache).hdr \/ header[Head(mFlvTagCache).track]
         /\ UNCHANGED <<session, videoFrameCacheNumber, skipped, headless, sock, wire, ui, configured, enc>>
<1> DEFINE f == Head(mFlvTagCache)
<1>1. /\ pc[Worker] = "poll" /\ mFlvTagCache' = Tail(mFlvTagCache)
      /\ header' = [header EXCEPT ![f.track] = @ \/ f.hdr]
      /\ IF header'[f.track] THEN pc' = [pc EXCEPT ![Worker] = "publish"] /\ frame' = <<f>> ELSE TRUE
      /\ UNCHANGED <<session, videoFrameCacheNumber, skipped, headless, sock, wire, ui, configured, enc>>
  BY DEF Poll, Goto, ends, cast
<1>2. ui = "live" /\ frame = <<>>
  BY <1>1 DEF Control, Typed, TypeOK
<1>3. f = mFlvTagCache[1] /\ 1 \in 1..Len(mFlvTagCache) /\ f \in Tags
  <2>1. mFlvTagCache \in Seq(Tags)
    BY DEF Typed
  <2>2. Len(mFlvTagCache) \in Nat \ {0}
    BY <2>1, EmptySeq
  <2> QED
    BY <2>1, <2>2, HeadTailProperties
<1>4. f.hdr \/ Announced(f.track) \/ HasHeader(mFlvTagCache, 1 - 1, f.track)
  <2>1. Serving
    BY <1>1 DEF Serving, LoopPlaces
  <2> QED
    BY <2>1, <1>2, <1>3 DEF Headed, CacheHeaded
<1>5. ~HasHeader(mFlvTagCache, 1 - 1, f.track)
  BY DEF HasHeader
<1>6. f.track \in Tracks /\ f.hdr \in BOOLEAN /\ header \in [Tracks -> BOOLEAN]
  BY <1>3 DEF Tags, Typed, TypeOK
<1>7. f.hdr \/ header[f.track]
  BY <1>4, <1>5 DEF Announced
<1> HIDE DEF f
<1>8. \A k \in Tracks : header'[k] = (header[k] \/ (k = f.track /\ f.hdr))
  BY <1>1, <1>6
<1>9. header'[f.track]
  BY <1>6, <1>7, <1>8
<1> QED
  BY <1>1, <1>2, <1>3, <1>7, <1>8, <1>9 DEF f

(* The counter is kept right by every step.                                 *)
LEMMA CountedStep ==
  ASSUME Typed, Control, Sole => Connection /\ Counted /\ Headed, crash = "none", [Next]_vars
  PROVE  Sole' => Counted'
<1> SUFFICES ASSUME Sole' PROVE Counted'
  OBVIOUS
<1>c. Connection /\ Counted /\ Headed
  BY SoleStays
<1>f. /\ Worker \in Threads /\ Worker \notin Sessions /\ Sessions \subseteq Threads /\ Worker = 0
      /\ Refs = Sessions \cup {0} /\ Threads = Refs /\ "video" \in Tracks
  BY ThreadFacts DEF Threads
<1>t. /\ pc \in [Threads -> ConnPlaces \cup {"none", "done"}] /\ Stopper \in Refs
      /\ videoFrameCacheNumber \in Int /\ skipped \in Nat /\ enc \in [Tracks -> {"idle", "count"}]
      /\ mFlvTagCache \in Seq(Tags) /\ ui \in {"idle", "live", "stopping"}
  BY DEF Typed, TypeOK, ConnTypeOK, ConnPlaces, DialPlaces, LoopPlaces, TearPlaces
<1>v. Videos = Cardinality(VideoSet(mFlvTagCache)) /\ Videos' = Cardinality(VideoSet(mFlvTagCache')) /\ Videos \in Nat
  BY <1>t, VideosFinite DEF Videos, VideoSet
<1>i. videoFrameCacheNumber \in Int /\ skipped \in Nat /\ Videos \in Nat
  BY <1>t, <1>v
<1>z. Cardinality(VideoSet(<<>>)) = 0
  <2>1. VideoSet(<<>>) = {}
    BY DEF VideoSet
  <2> QED
    BY <2>1, FS_EmptySet
<1>k. ASSUME UNCHANGED <<session, again, ui, mFlvTagCache, enc, frame, videoFrameCacheNumber, skipped>>,
             Serving' => Serving,
             ui = "idle" /\ pc'[Stopper] \in {"none", "returns", "done"} =>
               pc[Stopper] \in {"none", "returns", "done"}
      PROVE  Counted'
  <2>1. Stopper' = Stopper /\ (ui = "idle" => Place = pc[Stopper] /\ Place' = pc'[Stopper])
    BY <1>k DEF Place, Holder, Stopper
  <2> QED
    BY <1>k, <1>c, <2>1 DEF Counted, Videos, Handled, Uncounted
<1>1. CASE StartPublish
  <2>1. /\ ui = "idle" /\ UNCHANGED <<mFlvTagCache, enc, frame, videoFrameCacheNumber, skipped>> /\ ui' = "live"
        /\ Disconnecting = {}
    BY <1>1 DEF StartPublish, Sole, cast
  <2>2. mFlvTagCache = <<>> /\ enc["video"] = "idle" /\ frame = <<>>
    BY <2>1, <1>f DEF Control
  <2>3. Place \in {"none", "done"}
    <3>1. Place = pc[Stopper]
      BY <2>1 DEF Place, Holder
    <3>2. Stopper = 0 => session = 0
      BY DEF Stopper, Typed, TypeOK, ConnTypeOK, Refs
    <3> QED
      BY <2>1, <3>1, <3>2, <1>t, <1>f DEF Control, Disconnecting
  <2>4. videoFrameCacheNumber = 0 /\ skipped = 0
    BY <2>1, <2>3, <1>c DEF Counted
  <2> QED
    BY <2>1, <2>2, <2>4, <1>v, <1>z DEF Counted, Handled, Uncounted
<1>2. CASE StopPublish
  BY <1>2 DEF StopPublish, Counted
<1>3. CASE WorkerJoined
  <2>1. /\ ui = "stopping" /\ ui' = "idle" /\ pc' = [pc EXCEPT ![Stopper] = "shutdown"]
        /\ UNCHANGED <<session, again>>
    BY <1>3 DEF WorkerJoined, Goto
  <2>2. Place' = "shutdown"
    BY <2>1, <1>t, <1>f DEF Place, Holder, Stopper
  <2> QED
    BY <2>1, <2>2 DEF Counted
<1>4. ASSUME NEW k \in Tracks, WriteSample(k) PROVE Counted'
  <2>1. PICK hdr \in BOOLEAN :
          mFlvTagCache' = IF ~started THEN mFlvTagCache
            ELSE Append(mFlvTagCache, [track |-> k, hdr |-> hdr, sess |-> session, n |-> made + 1])
    BY <1>4 DEF WriteSample
  <2> DEFINE f == [track |-> k, hdr |-> hdr, sess |-> session, n |-> made + 1]
  <2>2. /\ ui = "live" /\ started /\ enc[k] = "idle" /\ UNCHANGED <<ui, session, pc, frame, videoFrameCacheNumber, skipped>>
        /\ enc' = [enc EXCEPT ![k] = IF k = "video" THEN "count" ELSE "idle"]
    BY <1>4 DEF WriteSample, connVars, cast, Control
  <2>3. f \in Tags /\ f.track = k
    <3>1. session \in Sessions /\ made + 1 \in 1..MaxTags
      BY <1>4, <2>2, MuxerAssumption DEF WriteSample, Control, Typed, TypeOK
    <3> QED
      BY <3>1 DEF Tags
  <2>4. mFlvTagCache' = Append(mFlvTagCache, f)
    BY <2>1, <2>2
  <2> HIDE DEF f
  <2>5. Videos' = Videos + One(f)
    BY <2>3, <2>4, <1>t, <1>v, VideosAppended
  <2>6. Uncounted' = Uncounted + One(f)
    BY <2>2, <2>3, <1>t, <1>f DEF Uncounted, One
  <2>7. Handled' = Handled /\ Handled \in Nat /\ Uncounted \in Nat /\ One(f) \in Nat
    BY <2>2 DEF Handled, Uncounted, One
  <2>8. Serving => videoFrameCacheNumber = Videos + Handled - Uncounted + skipped
    BY <2>2, <1>c DEF Counted
  <2>9. Videos + Handled - Uncounted = Videos' + Handled' - Uncounted'
    BY <2>5, <2>6, <2>7, <1>v
  <2>10. ui' = "live" /\ (Serving' => Serving) /\ UNCHANGED <<videoFrameCacheNumber, skipped>>
    BY <2>2 DEF Serving
  <2> QED
    BY <2>8, <2>9, <2>10 DEF Counted
<1>5. ASSUME NEW k \in Tracks, CountTag(k) PROVE Counted'
  <2>1. /\ enc[k] = "count" /\ enc' = [enc EXCEPT ![k] = "idle"] /\ videoFrameCacheNumber' = videoFrameCacheNumber + 1
        /\ UNCHANGED <<ui, session, pc, frame, mFlvTagCache, skipped>>
    BY <1>5 DEF CountTag, cast
  <2>2. k = "video" /\ ui = "live"
    BY <2>1, <1>t DEF Control
  <2>3. Uncounted = 1 /\ Uncounted' = 0 /\ Handled' = Handled /\ Handled \in Nat /\ Videos' = Videos
    BY <2>1, <2>2, <1>t DEF Uncounted, Handled, Videos
  <2>4. ui' = "live" /\ Serving' = Serving
    BY <2>1, <2>2 DEF Serving
  <2>5. ASSUME Serving PROVE videoFrameCacheNumber' = Videos' + Handled' - Uncounted' + skipped'
    <3>1. videoFrameCacheNumber = Videos + Handled - Uncounted + skipped
      BY <2>2, <2>5, <1>c DEF Counted
    <3> QED
      BY <2>1, <2>3, <3>1, <1>i
  <2> QED
    BY <2>4, <2>5 DEF Counted
<1>6. CASE Connected \/ Loop \/ Drain \/ WaitFrame
  <2>1. /\ UNCHANGED <<session, again, ui, mFlvTagCache, enc, frame, videoFrameCacheNumber, skipped>>
        /\ pc[Worker] \in {"accepted", "refused", "loop", "drain", "wait"}
        /\ pc[Worker] = "refused" => pc' = [pc EXCEPT ![Worker] = "done"]
    BY <1>6 DEF Connected, Loop, Drain, WaitFrame, Goto, muxVars, cast
  <2>2. ui # "idle"
    BY <2>1 DEF Control
  <2>3. Serving' => Serving
    BY <2>1, <1>t, <1>f DEF Serving, DialPlaces, LoopPlaces
  <2> QED
    BY <2>1, <2>2, <2>3, <1>k
<1>7. CASE Poll /\ mFlvTagCache = <<>>
  <2>1. UNCHANGED <<session, again, ui, mFlvTagCache, enc, frame, videoFrameCacheNumber, skipped, pc>>
    BY <1>7 DEF Poll, Dies, cast
  <2> QED
    BY <2>1, <1>k DEF Serving
<1>8. CASE Poll /\ mFlvTagCache # <<>>
  <2> DEFINE f == Head(mFlvTagCache)
  <2>1. /\ ui = "live" /\ pc[Worker] = "poll" /\ frame = <<>> /\ frame' = <<f>>
        /\ mFlvTagCache' = Tail(mFlvTagCache) /\ UNCHANGED <<session, videoFrameCacheNumber, ui, enc, skipped>>
    BY <1>8, <1>c, PollTakes
  <2>2. Videos = Videos' + One(f)
    BY <2>1, <1>8, <1>t, <1>v, VideosTaken
  <2>3. Handled = 0 /\ Handled' = One(f) /\ One(f) \in Nat /\ Uncounted' = Uncounted /\ Uncounted \in Nat
    <3>1. <<f>> # <<>> /\ <<f>>[1] = f
      OBVIOUS
    <3> HIDE DEF f
    <3> QED
      BY <2>1, <3>1 DEF Handled, One, Uncounted
  <2>4. Videos' \in Nat
    <3>1. Tail(mFlvTagCache) \in Seq(Tags)
      BY <1>8, <1>t, HeadTailProperties
    <3> QED
      BY <2>1, <3>1, <1>v, VideosFinite
  <2>5. Serving
    BY <2>1 DEF Serving, LoopPlaces
  <2> HIDE DEF f
  <2>6. videoFrameCacheNumber = Videos + Handled - Uncounted + skipped
    BY <2>1, <2>5, <1>c DEF Counted
  <2>7. videoFrameCacheNumber' = Videos' + Handled' - Uncounted' + skipped'
    BY <2>1, <2>2, <2>3, <2>4, <2>6, <1>i
  <2> QED
    BY <2>1, <2>7 DEF Counted
<1>9. ASSUME NEW s \in Sessions, Disconnected(s) PROVE Counted'
  <2>1. /\ UNCHANGED <<session, again, ui, mFlvTagCache, enc, frame, videoFrameCacheNumber, skipped>> /\ pc[s] = "returns"
        /\ pc' = [pc EXCEPT ![s] = "done"]
    BY <1>9 DEF Disconnected, Goto, cast
  <2>2. s = Holder
    BY <2>1, <1>f, <1>c, HolderRuns
  <2>3. s = Stopper
    BY <2>2, <1>f DEF Holder
  <2>4. pc'[Worker] = pc[Worker]
    BY <2>1, <1>t, <1>f
  <2> QED
    BY <2>1, <2>3, <2>4, <1>k DEF Serving
<1>10. CASE ConnNext /\ UNCHANGED muxVars
  <2>0. UNCHANGED <<session, again, ui, mFlvTagCache, enc>>
    BY <1>10, ConnMoves DEF muxVars
  <2>1. Serving' => Serving
    BY <1>10, <1>c, ConnEffect
  <2>2. CASE /\ UNCHANGED <<frame, wire, videoFrameCacheNumber, cast>>
             /\ ui = "idle" /\ pc'[Stopper] \in {"none", "returns", "done"} =>
                  pc[Stopper] \in {"none", "returns", "done"}
    BY <2>0, <2>1, <2>2, <1>k DEF cast
  <2>5. CASE /\ pc[Worker] = "publish" /\ frame' = <<>> /\ UNCHANGED videoFrameCacheNumber
             /\ skipped' = skipped + (IF frame[1].track = "video" THEN 1 ELSE 0)
    <3>1. ui # "idle" /\ frame # <<>> /\ Serving
      BY <2>5 DEF Control, Serving, LoopPlaces
    <3>2. Handled' = 0 /\ Handled = (IF frame[1].track = "video" THEN 1 ELSE 0)
      BY <2>5, <3>1 DEF Handled
    <3>3. Videos' = Videos /\ Uncounted' = Uncounted /\ Uncounted \in Nat
      BY <2>0 DEF Videos, Uncounted
    <3>4. ui = "live" => videoFrameCacheNumber = Videos + Handled - Uncounted + skipped
      BY <3>1, <1>c DEF Counted
    <3>5. ui = "live" => videoFrameCacheNumber' = Videos' + Handled' - Uncounted' + skipped'
      BY <2>5, <3>2, <3>3, <3>4, <1>i
    <3> QED
      BY <2>0, <3>1, <3>5 DEF Counted
  <2>3. CASE videoFrameCacheNumber' = 0 /\ skipped' = 0 /\ ~Serving
    BY <2>0, <2>1, <2>3 DEF Counted
  <2>4. CASE /\ pc[Worker] = "send" /\ frame' = <<>> /\ UNCHANGED cast
             /\ videoFrameCacheNumber' = videoFrameCacheNumber - (IF frame[1].track = "video" THEN 1 ELSE 0)
    <3>1. ui # "idle" /\ frame # <<>> /\ Serving
      BY <2>4 DEF Control, Serving, LoopPlaces
    <3>2. Handled' = 0 /\ Handled = (IF frame[1].track = "video" THEN 1 ELSE 0)
      BY <2>4, <3>1 DEF Handled
    <3>3. Videos' = Videos /\ Uncounted' = Uncounted /\ Uncounted \in Nat
      BY <2>0 DEF Videos, Uncounted
    <3>4. ui = "live" => videoFrameCacheNumber = Videos + Handled - Uncounted + skipped
      BY <3>1, <1>c DEF Counted
    <3>5. ui = "live" => videoFrameCacheNumber' = Videos' + Handled' - Uncounted' + skipped'
      BY <2>4, <3>2, <3>3, <3>4, <1>i DEF cast
    <3> QED
      BY <2>0, <3>1, <3>5 DEF Counted
  <2> QED
    BY <1>10, <1>c, <2>2, <2>3, <2>4, <2>5, ConnEffect
<1>11. CASE UNCHANGED vars
  <2>1. UNCHANGED <<session, again, ui, mFlvTagCache, enc, frame, videoFrameCacheNumber, skipped, pc>>
    BY <1>11 DEF vars, connVars, cast, muxVars
  <2> QED
    BY <2>1, <1>k DEF Serving
<1>12. CASE StopAgain
  <2>1. /\ ui = "idle" /\ ui' = "idle" /\ pc' = [pc EXCEPT ![Stopper + 1] = "shutdown"]
        /\ session' = session /\ again' = again + 1 /\ Stopper < MaxSessions
    BY <1>12 DEF StopAgain, Goto
  <2>2. Stopper' = Stopper + 1 /\ Stopper + 1 \in Threads
    BY <2>1, SessionsAssumption DEF Stopper, Typed, TypeOK, ConnTypeOK, Refs, Threads
  <2>3. Place' = "shutdown"
    BY <2>1, <2>2, <1>t DEF Place, Holder
  <2> QED
    BY <2>1, <2>3 DEF Counted
<1> QED
  BY <1>1, <1>2, <1>3, <1>4, <1>5, <1>6, <1>7, <1>8, <1>9, <1>10, <1>11, <1>12 DEF Next, Works

-------------------------------------------------------------------------------
(* The sequence headers *)

(* A header at the front of the wire stays one when a frame is sent.        *)
LEMMA HeaderKept ==
  ASSUME NEW a \in Seq(Tags), NEW b \in Seq(Tags), NEW k, NEW m \in 0..Len(a)
  PROVE  HasHeader(a, m, k) <=> HasHeader(a \o b, m, k)
<1>1. \A j \in 1..m : j \in 1..Len(a)
  OBVIOUS
<1>2. \A j \in 1..m : (a \o b)[j] = a[j]
  BY <1>1, JoinFacts
<1> QED
  BY <1>2 DEF HasHeader

(* Every track is announced by its header, on every path of a tag.          *)
LEMMA HeadedStep ==
  ASSUME Typed, Control, Sole => Connection /\ Headed, crash = "none", [Next]_vars
  PROVE  Sole' => Headed'
<1> SUFFICES ASSUME Sole' PROVE Headed'
  OBVIOUS
<1>c. Connection /\ Headed
  BY SoleStays
<1>h. (ui = "live" /\ Serving => CacheHeaded) /\ WireHeaded /\ HandHeaded
  BY <1>c DEF Headed
<1>f. /\ Worker \in Threads /\ Worker \notin Sessions /\ Sessions \subseteq Threads /\ Worker = 0
      /\ Refs = Sessions \cup {0} /\ Threads = Refs /\ "video" \in Tracks
  BY ThreadFacts DEF Threads
<1>t. /\ pc \in [Threads -> ConnPlaces \cup {"none", "done"}] /\ session \in Refs
      /\ header \in [Tracks -> BOOLEAN] /\ configured \in [Tracks -> BOOLEAN]
      /\ mFlvTagCache \in Seq(Tags) /\ wire \in Seq(Tags) /\ ui \in {"idle", "live", "stopping"}
      /\ Len(mFlvTagCache) \in Nat /\ Len(wire) \in Nat
  BY DEF Typed, TypeOK, ConnTypeOK, ConnPlaces, DialPlaces, LoopPlaces, TearPlaces
<1>z. Len(<<>>) = 0 /\ \A i : i \notin 1..0
  OBVIOUS
<1>e. ASSUME wire' = <<>>, frame' = <<>>, ~InLoop', ui' = "live" => CacheHeaded' PROVE Headed'
  <2>1. WireHeaded'
    BY <1>e, <1>z DEF WireHeaded
  <2>2. HandHeaded'
    BY <1>e, <1>z DEF HandHeaded, Announced
  <2> QED
    BY <2>1, <2>2, <1>e DEF Headed
<1>k. ASSUME UNCHANGED <<ui, session, mFlvTagCache, configured, wire, frame, headless>>, Serving' => Serving,
             \A k \in Tracks : Announced(k)' => Announced(k),
             Serving' => \A k \in Tracks : Announced(k) => Announced(k)',
             InLoop' \/ frame # <<>> => (sock'[session] = "open" => sock[session] = "open")
      PROVE  Headed'
  <2>1. WireHeaded'
    BY <1>k, <1>h DEF WireHeaded
  <2>2. HandHeaded'
    <3>1. \A k \in Tracks : Announced(k)' => InLoop' /\ Announced(k)
      BY <1>k DEF Announced
    <3>2. \A i \in 1..Len(frame) : frame # <<>>
      BY <1>z
    <3> QED
      BY <1>k, <1>h, <3>1, <3>2 DEF HandHeaded
  <2>3. ASSUME ui = "live", Serving' PROVE CacheHeaded'
    <3>1. \A i \in 1..Len(mFlvTagCache) : mFlvTagCache[i].track \in Tracks
      <4>1. \A i \in 1..Len(mFlvTagCache) : mFlvTagCache[i] \in Tags
        BY <1>t
      <4> QED
        BY <4>1 DEF Tags
    <3>2. \A k \in Tracks : Announced(k) => Announced(k)'
      BY <2>3, <1>k
    <3>3. CacheHeaded
      BY <2>3, <1>k, <1>h
    <3> HIDE DEF Announced
    <3> QED
      BY <3>1, <3>2, <3>3, <1>k DEF CacheHeaded
  <2> QED
    BY <2>1, <2>2, <2>3, <1>k DEF Headed
<1>1. CASE StartPublish
  <2>1. /\ ui = "idle" /\ UNCHANGED <<mFlvTagCache, frame, wire, configured>>
        /\ pc' = [pc EXCEPT ![Worker] = "open"]
    BY <1>1 DEF StartPublish, Goto
  <2>2. mFlvTagCache = <<>> /\ frame = <<>> /\ wire = <<>> /\ \A k \in Tracks : ~configured[k]
    BY <2>1 DEF Control
  <2>3. ~InLoop'
    BY <2>1, <1>t, <1>f DEF InLoop
  <2>4. CacheHeaded'
    BY <2>1, <2>2, <1>z DEF CacheHeaded
  <2> QED
    BY <2>1, <2>2, <2>3, <2>4, <1>e
<1>2. CASE StopPublish
  <2>1. ui' = "stopping" /\ UNCHANGED <<pc, header, session, sock, wire, frame, headless>>
    BY <1>2 DEF StopPublish, ends, cast
  <2>2. WireHeaded' /\ HandHeaded'
    BY <2>1, <1>h DEF WireHeaded, HandHeaded, Announced, InLoop
  <2> QED
    BY <2>1, <2>2 DEF Headed
<1>3. CASE WorkerJoined
  <2>1. /\ ui = "stopping" /\ ui' = "idle" /\ wire' = <<>> /\ pc[Worker] = "done" /\ UNCHANGED frame
        /\ pc' = [pc EXCEPT ![Stopper] = "shutdown"]
    BY <1>3 DEF WorkerJoined, Goto
  <2>2. frame = <<>> /\ Stopper # Worker
    <3>1. session \in Sessions
      BY <2>1 DEF Control
    <3> QED
      BY <2>1, <3>1, SessionsAssumption DEF Control, Stopper, Typed, TypeOK, Sessions, Refs, Worker
  <2>3. ~InLoop'
    BY <2>1, <2>2, <1>t, <1>f DEF InLoop
  <2> QED
    BY <2>1, <2>2, <2>3, <1>e
<1>4. ASSUME NEW k \in Tracks, WriteSample(k) PROVE Headed'
  <2>1. PICK hdr \in BOOLEAN :
          /\ IF k = "video" THEN hdr \/ configured[k] ELSE hdr = ~configured[k]
          /\ mFlvTagCache' = IF ~started THEN mFlvTagCache
               ELSE Append(mFlvTagCache, [track |-> k, hdr |-> hdr, sess |-> session, n |-> made + 1])
    BY <1>4 DEF WriteSample
  <2> DEFINE f == [track |-> k, hdr |-> hdr, sess |-> session, n |-> made + 1]
             q == mFlvTagCache
  <2>2. /\ ui = "live" /\ started /\ UNCHANGED <<ui, session, pc, frame, wire, sock, header, headless>>
        /\ configured' = [configured EXCEPT ![k] = TRUE]
    BY <1>4 DEF WriteSample, connVars, cast, ends, Control
  <2>3. f \in Tags /\ f.track = k /\ f.hdr = hdr
    <3>1. session \in Sessions /\ made + 1 \in 1..MaxTags
      BY <1>4, <2>2, MuxerAssumption DEF WriteSample, Control, Typed, TypeOK
    <3> QED
      BY <3>1 DEF Tags
  <2>4. /\ mFlvTagCache' = Append(q, f) /\ Len(mFlvTagCache') = Len(q) + 1
        /\ \A i \in 1..Len(q) : mFlvTagCache'[i] = q[i]
        /\ mFlvTagCache'[Len(q) + 1] = f
    <3>1. mFlvTagCache' = Append(q, f)
      BY <2>1, <2>2
    <3> HIDE DEF f
    <3> QED
      BY <3>1, <2>3, <1>t, AppendProperties
  <2>5. hdr \/ configured[k]
    BY <2>1, <1>t
  <2> HIDE DEF f
  <2>6. \A m \in 0..Len(q), j \in Tracks : HasHeader(q, m, j) => HasHeader(mFlvTagCache', m, j)
    <3>1. \A m \in 0..Len(q) : \A i \in 1..m : i \in 1..Len(q)
      BY <1>t
    <3> QED
      BY <3>1, <2>4 DEF HasHeader
  <2>7. \A j \in Tracks : HasHeader(q, Len(q), j) => HasHeader(mFlvTagCache', Len(q) + 1, j)
    <3>1. \A i \in 1..Len(q) : i \in 1..(Len(q) + 1)
      BY <1>t
    <3> QED
      BY <3>1, <2>4 DEF HasHeader
  <2>8. \A j \in Tracks : Announced(j)' <=> Announced(j)
    BY <2>2 DEF Announced, InLoop
  <2>9. ASSUME Serving PROVE CacheHeaded'
    <3>1. CacheHeaded
      BY <2>2, <2>9, <1>h
    <3>2. ASSUME NEW i \in 1..Len(mFlvTagCache')
          PROVE  \/ mFlvTagCache'[i].hdr \/ Announced(mFlvTagCache[i].track)'
                 \/ HasHeader(mFlvTagCache', i - 1, mFlvTagCache'[i].track)
      <4>1. CASE i \in 1..Len(q)
        <5>1. q[i].track \in Tracks /\ mFlvTagCache'[i] = q[i] /\ i - 1 \in 0..Len(q)
          <6>1. q[i] \in Tags /\ i - 1 \in 0..Len(q)
            BY <4>1, <1>t
          <6>2. \A g \in Tags : g.track \in Tracks
            BY DEF Tags
          <6> QED
            BY <6>1, <6>2, <4>1, <2>4
        <5>2. q[i].hdr \/ Announced(q[i].track) \/ HasHeader(q, i - 1, q[i].track)
          BY <4>1, <3>1 DEF CacheHeaded
        <5>3. Announced(q[i].track) => Announced(mFlvTagCache[i].track)'
          BY <5>1, <2>2 DEF Announced, InLoop
        <5> QED
          BY <5>1, <5>2, <5>3, <2>6
      <4>2. CASE i = Len(q) + 1
        <5>1. mFlvTagCache'[i] = f /\ i - 1 = Len(q) /\ Len(q) \in 0..Len(q)
          BY <4>2, <2>4, <1>t
        <5>2. CASE hdr
          BY <5>1, <5>2, <2>3
        <5>3. CASE configured[k]
          <6>1. Announced(k) \/ HasHeader(q, Len(q), k)
            BY <3>1, <5>3 DEF CacheHeaded
          <6>2. Announced(k) => Announced(mFlvTagCache[i].track)'
            BY <5>1, <2>2, <2>3 DEF Announced, InLoop
          <6>3. HasHeader(q, Len(q), k) => HasHeader(mFlvTagCache', i - 1, mFlvTagCache'[i].track)
            BY <5>1, <2>3, <2>6
          <6> QED
            BY <6>1, <6>2, <6>3
        <5> QED
          BY <5>2, <5>3, <2>5
      <4> QED
        BY <4>1, <4>2, <2>4, <1>t
    <3>3. ASSUME NEW j \in Tracks, configured'[j]
          PROVE  Announced(j)' \/ HasHeader(mFlvTagCache', Len(q) + 1, j)
      <4>1. CASE configured[j]
        BY <4>1, <3>1, <2>7, <2>8 DEF CacheHeaded
      <4>2. CASE ~configured[j]
        <5>1. j = k /\ hdr
          BY <4>2, <3>3, <2>2, <2>5, <1>t
        <5>2. Len(q) + 1 \in 1..(Len(q) + 1)
          BY <1>t
        <5> QED
          BY <5>1, <5>2, <2>3, <2>4 DEF HasHeader
      <4> QED
        BY <4>1, <4>2
    <3> QED
      BY <3>2, <3>3, <2>4 DEF CacheHeaded
  <2>10. WireHeaded' /\ HandHeaded'
    BY <2>2, <2>8, <1>h DEF WireHeaded, HandHeaded
  <2>11. Serving' = Serving
    BY <2>2 DEF Serving
  <2> QED
    BY <2>9, <2>10, <2>11 DEF Headed
<1>5. ASSUME NEW k \in Tracks, CountTag(k) PROVE Headed'
  <2>1. UNCHANGED <<ui, session, mFlvTagCache, configured, wire, frame, headless, pc, header, sock>>
    BY <1>5 DEF CountTag, ends, cast
  <2> QED
    BY <2>1, <1>k DEF Announced, InLoop, Serving
<1>6. CASE Connected
  <2>1. /\ UNCHANGED <<ui, session, mFlvTagCache, configured, wire, frame, headless, sock>>
        /\ pc[Worker] \in {"accepted", "refused"} /\ header' = [k \in Tracks |-> FALSE]
        /\ pc' = [pc EXCEPT ![Worker] = IF pc[Worker] = "accepted" THEN "loop" ELSE "done"]
    BY <1>6 DEF Connected, Goto, ends, cast
  <2>2. Serving' => Serving
    BY <2>1, <1>t, <1>f DEF Serving, DialPlaces, LoopPlaces
  <2>3. \A k \in Tracks : ~Announced(k) /\ ~Announced(k)'
    BY <2>1 DEF Announced, InLoop
  <2> QED
    BY <2>1, <2>2, <2>3, <1>k
<1>7. CASE Loop \/ Drain \/ WaitFrame \/ (Poll /\ mFlvTagCache = <<>>)
  <2>1. /\ UNCHANGED <<ui, session, mFlvTagCache, configured, wire, frame, headless, sock, header>>
        /\ pc[Worker] \in {"loop", "drain", "wait", "poll"}
        /\ UNCHANGED pc \/ \E p \in {"done", "drain", "wait", "poll", "loop"} : pc' = [pc EXCEPT ![Worker] = p]
    BY <1>7 DEF Loop, Drain, WaitFrame, Poll, Dies, Goto, ends, cast, muxVars
  <2>2. pc'[Worker] \in {"done", "drain", "wait", "poll", "loop"}
    BY <2>1, <1>t, <1>f
  <2>3. Serving /\ InLoop /\ (Serving' => InLoop')
    BY <2>1, <2>2 DEF Serving, DialPlaces, LoopPlaces, InLoop
  <2> QED
    BY <2>1, <2>3, <1>k DEF Announced
<1>8. CASE Poll /\ mFlvTagCache # <<>>
  <2> DEFINE f == Head(mFlvTagCache)
             q == mFlvTagCache
             r == Tail(mFlvTagCache)
  <2>1. /\ ui = "live" /\ pc[Worker] = "poll" /\ pc' = [pc EXCEPT ![Worker] = "publish"] /\ frame = <<>>
        /\ frame' = <<f>> /\ mFlvTagCache' = r /\ f \in Tags
        /\ \A k \in Tracks : header'[k] = (header[k] \/ (k = f.track /\ f.hdr))
        /\ f.hdr \/ header[f.track]
        /\ UNCHANGED <<session, sock, wire, ui, configured, headless>>
    BY <1>8, <1>c, PollTakes
  <2>2. Serving /\ InLoop /\ InLoop' /\ f.track \in Tracks
    BY <2>1, <1>t, <1>f DEF Serving, LoopPlaces, InLoop, Tags
  <2>3. /\ r \in Seq(Tags) /\ Len(r) = Len(q) - 1 /\ Len(q) \in Nat \ {0}
        /\ \A i \in 1..Len(r) : r[i] = q[i + 1]
        /\ f = q[1]
    BY <1>8, <1>t, EmptySeq, HeadTailProperties
  <2>4. Len(<<f>>) = 1 /\ <<f>>[1] = f
    OBVIOUS
  <2> HIDE DEF f, r
  <2>5. CacheHeaded
    BY <2>1, <2>2, <1>h
  <2>6. \A k \in Tracks : Announced(k)' <=> Announced(k) \/ (k = f.track /\ f.hdr)
    BY <2>1, <2>2, <1>t DEF Announced
  <2>7. ASSUME NEW m \in 0..Len(r), NEW k \in Tracks, HasHeader(q, m + 1, k)
        PROVE  Announced(k)' \/ HasHeader(r, m, k)
    <3>1. PICK j \in 1..(m + 1) : q[j].track = k /\ q[j].hdr
      BY <2>7 DEF HasHeader
    <3>2. CASE j = 1
      BY <3>1, <3>2, <2>3, <2>6
    <3>3. CASE j # 1
      <4>1. j - 1 \in 1..m /\ j - 1 \in 1..Len(r) /\ (j - 1) + 1 = j
        BY <3>3, <2>3
      <4>2. r[j - 1] = q[j]
        BY <4>1, <2>3
      <4> QED
        BY <3>1, <4>1, <4>2 DEF HasHeader
    <3> QED
      BY <3>2, <3>3
  <2>8. CacheHeaded'
    <3>1. ASSUME NEW i \in 1..Len(r)
          PROVE  \/ r[i].hdr \/ Announced(mFlvTagCache[i].track)'
                 \/ HasHeader(r, i - 1, r[i].track)
      <4>1. r[i] \in Tags /\ i + 1 \in 1..Len(q) /\ r[i] = q[i + 1]
        BY <2>3
      <4>2. r[i].track \in Tracks
        BY <4>1 DEF Tags
      <4>3. r[i].hdr \/ Announced(r[i].track) \/ HasHeader(q, (i + 1) - 1, r[i].track)
        BY <4>1, <2>5 DEF CacheHeaded
      <4>4. (i + 1) - 1 = (i - 1) + 1 /\ i - 1 \in 0..Len(r)
        BY <2>3
      <4>5. Announced(r[i].track) => Announced(mFlvTagCache[i].track)'
        BY <4>2, <2>1, <2>2, <1>t DEF Announced
      <4>6. HasHeader(q, (i - 1) + 1, r[i].track) =>
              Announced(mFlvTagCache[i].track)' \/ HasHeader(r, i - 1, r[i].track)
        <5>1. ASSUME HasHeader(q, (i - 1) + 1, r[i].track), ~HasHeader(r, i - 1, r[i].track)
              PROVE  Announced(mFlvTagCache[i].track)'
          <6>1. \E k \in Tracks : k = r[i].track /\ Announced(k)'
            BY <4>2, <4>4, <5>1, <2>7
          <6> QED
            BY <6>1, <2>1 DEF Announced
        <5> QED
          BY <5>1
      <4> QED
        BY <4>3, <4>4, <4>5, <4>6
    <3>2. ASSUME NEW k \in Tracks, configured'[k] PROVE Announced(k)' \/ HasHeader(r, Len(r), k)
      <4>1. Announced(k) \/ HasHeader(q, Len(q), k)
        BY <3>2, <2>1, <2>5 DEF CacheHeaded
      <4>2. Len(q) = Len(r) + 1 /\ Len(r) \in 0..Len(r)
        BY <2>3
      <4> QED
        BY <4>1, <4>2, <2>6, <2>7
    <3> QED
      BY <3>1, <3>2, <2>1 DEF CacheHeaded
  <2>9. WireHeaded'
    BY <2>1, <1>h DEF WireHeaded
  <2>10. \A k \in Tracks : Announced(k) =>
           sock[session] # "open" \/ k \in headless \/ HasHeader(wire, Len(wire), k)
    <3>1. \A k : ~HasHeader(frame, Len(frame), k)
      BY <2>1, <1>z DEF HasHeader
    <3> QED
      BY <3>1, <1>h DEF HandHeaded
  <2>11. ASSUME NEW k \in Tracks, Announced(k)'
         PROVE  \/ sock[session] # "open" \/ k \in headless
                \/ HasHeader(<<f>>, 1, k) \/ HasHeader(wire, Len(wire), k)
    <3>1. CASE Announced(k)
      BY <3>1, <2>10
    <3>2. CASE k = f.track /\ f.hdr
      <4>1. 1 \in 1..1
        OBVIOUS
      <4> QED
        BY <3>2, <4>1, <2>4 DEF HasHeader
    <3> QED
      BY <3>1, <3>2, <2>6, <2>11
  <2>12. ~f.hdr => sock[session] # "open" \/ f.track \in headless \/ HasHeader(wire, Len(wire), f.track)
    BY <2>1, <2>2, <2>10 DEF Announced
  <2>13. \A i \in 1..Len(<<f>>) : <<f>>[i] = f
    BY <2>4
  <2>14. HandHeaded'
    BY <2>1, <2>4, <2>11, <2>12, <2>13 DEF HandHeaded
  <2> QED
    BY <2>8, <2>9, <2>14 DEF Headed
<1>9. ASSUME NEW s \in Sessions, Disconnected(s) PROVE Headed'
  <2>1. /\ UNCHANGED <<ui, session, mFlvTagCache, configured, wire, frame, sock>> /\ pc[s] = "returns"
        /\ pc' = [pc EXCEPT ![s] = "done"]
    BY <1>9 DEF Disconnected, Goto, ends
  <2>2. s = Holder /\ s # Worker
    BY <2>1, <1>f, <1>c, HolderRuns
  <2>3. ui = "idle"
    BY <2>2 DEF Holder
  <2>4. wire = <<>> /\ frame = <<>> /\ pc[Worker] \in {"none", "done"}
    BY <2>3 DEF Control
  <2>5. ~InLoop'
    BY <2>1, <2>2, <2>4, <1>t, <1>f DEF InLoop
  <2> QED
    BY <2>1, <2>3, <2>4, <2>5, <1>e
<1>10. CASE ConnNext /\ UNCHANGED muxVars
  <2>1. UNCHANGED <<ui, session, mFlvTagCache, configured, header>>
    BY <1>10, ConnMoves DEF muxVars
  <2>2. /\ InLoop' <=> InLoop
        /\ Serving' => Serving
        /\ sock'[session] = "open" => sock[session] = "open" \/ pc[Worker] = "tcp"
    BY <1>10, <1>c, ConnEffect
  <2>3. \A k \in Tracks : Announced(k)' <=> Announced(k)
    BY <2>1, <2>2 DEF Announced
  <2>4. InLoop' \/ frame # <<>> => pc[Worker] # "tcp"
    BY <2>2 DEF InLoop, Control
  <2>5. CASE UNCHANGED <<frame, wire, headless>>
    BY <2>1, <2>2, <2>3, <2>4, <2>5, <1>k
  <2>7. CASE /\ pc[Worker] = "publish" /\ frame' = <<>> /\ UNCHANGED wire
             /\ headless' = headless \cup (IF frame[1].hdr THEN {frame[1].track} ELSE {})
    <3>1. frame # <<>> /\ Len(frame) = 1
      BY <2>7, FrameFacts DEF Control
    <3>2. ui = "live" /\ Serving => CacheHeaded'
      <4>1. \A i \in 1..Len(mFlvTagCache) : Announced(mFlvTagCache[i].track)' <=> Announced(mFlvTagCache[i].track)
        BY <2>1, <2>2 DEF Announced
      <4> QED
        BY <4>1, <2>1, <2>3, <1>h DEF CacheHeaded
    <3>3. WireHeaded'
      BY <2>7, <1>h DEF WireHeaded
    <3>4. ASSUME NEW k \in Tracks, Announced(k)
          PROVE  sock'[session] # "open" \/ k \in headless' \/ HasHeader(wire, Len(wire), k)
      <4>1. \/ sock[session] # "open" \/ k \in headless
            \/ HasHeader(frame, 1, k) \/ HasHeader(wire, Len(wire), k)
        BY <3>1, <3>4, <1>h DEF HandHeaded
      <4>2. CASE HasHeader(frame, 1, k)
        <5>1. frame[1].track = k /\ frame[1].hdr
          BY <4>2 DEF HasHeader
        <5> QED
          BY <5>1, <2>7
      <4> QED
        BY <4>1, <4>2, <2>2, <2>7
    <3>5. HandHeaded'
      BY <3>4, <2>1, <2>3, <2>7, <1>z DEF HandHeaded
    <3> QED
      BY <3>2, <3>3, <3>5, <2>1, <2>2 DEF Headed
  <2>6. CASE /\ pc[Worker] = "send" /\ frame' = <<>> /\ UNCHANGED cast
             /\ wire' = IF sock[session] = "open" THEN wire \o frame ELSE wire
    <3>1. frame # <<>> /\ frame \in Seq(Tags) /\ Len(frame) = 1 /\ frame[1] \in Tags
      BY <2>6, FrameFacts DEF Control
    <3>k. headless' = headless
      BY <2>6 DEF cast
    <3>2. ui = "live" /\ Serving => CacheHeaded'
      <4>1. \A i \in 1..Len(mFlvTagCache) : Announced(mFlvTagCache[i].track)' <=> Announced(mFlvTagCache[i].track)
        BY <2>1, <2>2 DEF Announced
      <4> QED
        BY <4>1, <2>1, <2>3, <1>h DEF CacheHeaded
    <3>3. CASE sock[session] # "open"
      <4>1. wire' = wire /\ sock'[session] # "open"
        BY <2>2, <2>4, <2>6, <3>1, <3>3
      <4>2. WireHeaded'
        BY <3>k, <4>1, <1>h DEF WireHeaded
      <4>3. HandHeaded'
        BY <4>1, <2>1 DEF HandHeaded
      <4> QED
        BY <4>2, <4>3, <3>2, <2>1, <2>2 DEF Headed
    <3>4. CASE sock[session] = "open"
      <4>1. wire' = wire \o frame
        BY <2>6, <3>4
      <4>2. /\ Len(wire') = Len(wire) + 1 /\ wire'[Len(wire) + 1] = frame[1]
            /\ \A i \in 1..Len(wire) : wire'[i] = wire[i]
        <5>1. 1 \in 1..Len(frame)
          BY <3>1
        <5>2. Len(wire \o frame) = Len(wire) + Len(frame)
          BY <3>1, <1>t, JoinFacts
        <5>3. (wire \o frame)[Len(wire) + 1] = frame[1] /\ \A i \in 1..Len(wire) : (wire \o frame)[i] = wire[i]
          BY <5>1, <3>1, <1>t, JoinFacts
        <5> QED
          BY <4>1, <5>2, <5>3, <3>1
      <4>3. \A m \in 0..Len(wire), k \in Tracks : HasHeader(wire, m, k) => HasHeader(wire', m, k)
        BY <4>1, <3>1, <1>t, HeaderKept
      <4>4. WireHeaded'
        <5> SUFFICES ASSUME NEW i \in 1..(Len(wire) + 1)
                     PROVE  wire'[i].hdr \/ wire'[i].track \in headless \/ HasHeader(wire', i - 1, wire'[i].track)
          BY <3>k, <4>2 DEF WireHeaded
        <5>1. CASE i \in 1..Len(wire)
          <6>1. wire[i].track \in Tracks /\ i - 1 \in 0..Len(wire)
            <7>1. wire[i] \in Tags /\ i - 1 \in 0..Len(wire)
              BY <5>1, <1>t
            <7>2. \A g \in Tags : g.track \in Tracks
              BY DEF Tags
            <7> QED
              BY <7>1, <7>2
          <6> QED
            BY <5>1, <6>1, <4>2, <4>3, <1>h DEF WireHeaded
        <5>2. CASE i = Len(wire) + 1
          <6>1. frame[1].track \in Tracks /\ i - 1 = Len(wire) /\ Len(wire) \in 0..Len(wire) /\ 1 \in 1..Len(frame)
            BY <5>2, <3>1, <1>t DEF Tags
          <6>2. frame[1].hdr \/ frame[1].track \in headless \/ HasHeader(wire, Len(wire), frame[1].track)
            BY <6>1, <3>4, <1>h DEF HandHeaded
          <6> QED
            BY <5>2, <6>1, <6>2, <4>2, <4>3
        <5> QED
          BY <5>1, <5>2, <1>t
      <4>5. ASSUME NEW k \in Tracks, Announced(k) PROVE k \in headless \/ HasHeader(wire', Len(wire) + 1, k)
        <5>1. k \in headless \/ HasHeader(frame, 1, k) \/ HasHeader(wire, Len(wire), k)
          BY <4>5, <3>1, <3>4, <1>h DEF HandHeaded
        <5>2. CASE HasHeader(frame, 1, k)
          <6>1. frame[1].track = k /\ frame[1].hdr /\ Len(wire) + 1 \in 1..(Len(wire) + 1)
            BY <5>2, <1>t DEF HasHeader
          <6> QED
            BY <6>1, <4>2 DEF HasHeader
        <5>3. CASE HasHeader(wire, Len(wire), k)
          <6>1. \A i \in 1..Len(wire) : i \in 1..(Len(wire) + 1)
            BY <1>t
          <6> QED
            BY <5>3, <6>1, <4>2 DEF HasHeader
        <5> QED
          BY <5>1, <5>2, <5>3
      <4>6. HandHeaded'
        BY <3>k, <4>2, <4>5, <2>3, <2>6, <1>z DEF HandHeaded
      <4> QED
        BY <4>4, <4>6, <3>2, <2>1, <2>2 DEF Headed
    <3> QED
      BY <3>3, <3>4
  <2> QED
    BY <1>10, <1>c, <2>5, <2>6, <2>7, ConnEffect DEF cast
<1>11. CASE UNCHANGED vars
  <2>1. UNCHANGED <<ui, session, mFlvTagCache, configured, wire, frame, headless, pc, header, sock>>
    BY <1>11 DEF vars, connVars, cast, muxVars, ends
  <2> QED
    BY <2>1, <1>k DEF Announced, InLoop, Serving
<1>12. CASE StopAgain
  <2>1. /\ ui = "idle" /\ ui' = "idle" /\ UNCHANGED <<wire, frame>> /\ Stopper < MaxSessions
        /\ pc' = [pc EXCEPT ![Stopper + 1] = "shutdown"]
    BY <1>12 DEF StopAgain, Goto
  <2>2. wire = <<>> /\ frame = <<>> /\ pc[Worker] \in {"none", "done"}
    BY <2>1 DEF Control
  <2>3. Stopper + 1 # Worker
    BY DEF Typed, TypeOK, Refs, Worker
  <2>4. ~InLoop'
    BY <2>1, <2>2, <2>3, <1>t, <1>f DEF InLoop
  <2> QED
    BY <2>1, <2>2, <2>4, <1>e
<1> QED
  BY <1>1, <1>2, <1>3, <1>4, <1>5, <1>6, <1>7, <1>8, <1>9, <1>10, <1>11, <1>12 DEF Next, Works

-------------------------------------------------------------------------------
(* The first state.                                                         *)
LEMMA IndInvInit ==
  ASSUME Init
  PROVE  IndInv
<1>f. /\ Worker \in Threads /\ Worker \notin Sessions /\ Sessions \subseteq Threads /\ Worker = 0
      /\ Refs = Sessions \cup {0} /\ Threads = Refs /\ Sessions \subseteq Nat /\ "video" \in Tracks
  BY ThreadFacts DEF Threads
<1>i. /\ session = 0 /\ pc = [t \in Threads |-> "none"] /\ frame = <<>> /\ wire = <<>> /\ mFlvTagCache = <<>>
      /\ ui = "idle" /\ made = 0 /\ configured = [k \in Tracks |-> FALSE] /\ enc = [k \in Tracks |-> "idle"]
      /\ videoFrameCacheNumber = 0 /\ skipped = 0 /\ again = 0 /\ crash = "none"
  BY DEF Init, ConnInit
<1>s. Stopper = 0
  BY <1>i DEF Stopper
<1>p. pc[Worker] = "none" /\ pc[Stopper] = "none" /\ \A s \in Sessions : pc[s] = "none"
  BY <1>i, <1>s, <1>f
<1>z. Len(<<>>) = 0 /\ \A i : i \notin 1..0
  OBVIOUS
<1>1. Typed
  <2>1. ConnTypeOK
    <3>1. /\ session \in Refs /\ pc \in [Threads -> {"none"}] /\ socket \in Refs /\ sess \in Refs /\ rx \in Refs
          /\ joining \in [Threads -> Refs]
      BY <1>f DEF Init, ConnInit
    <3>2. /\ sock \in [Sessions -> {"none"}] /\ rxpc \in [Sessions -> {"none"}] /\ rxintr \in [Sessions -> BOOLEAN]
          /\ invoked \in [Sessions -> SUBSET Invocations] /\ asked \in [Sessions -> SUBSET Commands]
      BY DEF Init, ConnInit
    <3>3. /\ intr = FALSE /\ from = "connect" /\ connected = FALSE /\ publishPermitted = FALSE /\ currentStreamId = 0
          /\ videoFrameCacheNumber = 0 /\ swallowed = FALSE /\ orphan = FALSE /\ crash = "none"
      BY DEF Init, ConnInit
    <3>4. /\ intr \in BOOLEAN /\ connected \in BOOLEAN /\ publishPermitted \in BOOLEAN
          /\ swallowed \in BOOLEAN /\ orphan \in BOOLEAN
      BY <3>3
    <3>5. from \in {"connect", "publish"} /\ currentStreamId \in {0, 1} /\ videoFrameCacheNumber \in Int /\ skipped \in Nat
          /\ crash \in {"none", "session", "socket", "answer", "frame"}
      BY <3>3, <1>i
    <3>6. pc \in [Threads -> {"none", "open", "tcp", "handshake", "rtmpConnect", "waitConnected",
            "createStream", "waitPublish", "accepted", "refused", "loop", "drain", "poll", "publish",
            "send", "wait", "shutdown", "join", "closeSocket", "reset", "returns", "done"}]
      BY <3>1
    <3>8. headless \subseteq {"video", "audio"}
      BY DEF Init, ConnInit
    <3>7. /\ sock \in [Sessions -> {"none", "connecting", "open", "eof", "shut", "closed"}]
          /\ rxpc \in [Sessions -> {"none", "read", "done"} \cup Commands]
      BY <3>2
    <3> QED
      BY <3>1, <3>2, <3>4, <3>5, <3>6, <3>7, <3>8 DEF ConnTypeOK
  <2>2. made \in 0..MaxTags
    BY <1>i, MuxerAssumption
  <2>3. mFlvTagCache \in Seq(Tags) /\ wire \in Seq(Tags)
    BY <1>i
  <2>4. \A i \in 1..Len(mFlvTagCache) : mFlvTagCache[i] \in Tags
    BY <1>i, <1>z
  <2>5. again \in Refs /\ Stopper \in Refs
    BY <1>i, <1>s, <1>f
  <2> QED
    BY <2>1, <2>2, <2>3, <2>4, <2>5 DEF Init, ConnInit, Typed, TypeOK
<1>2. Control
  BY <1>i, <1>p, <1>s DEF Control
<1>3. Flow
  BY <1>i, <1>z DEF Flow, Increasing, Before
<1>4. Connection
  <2>1. Blank
    BY DEF Init, ConnInit, Blank, Shut
  <2>2. Place = "none"
    BY <1>i, <1>p DEF Place, Holder
  <2>3. Fits(Place)
    BY <2>1, <2>2 DEF Fits, LoopPlaces
  <2>4. \A s \in Sessions : ~(s < session) /\ ~(s < Stopper)
    BY <1>i, <1>s, <1>f
  <2>5. \A s \in Sessions : sock[s] = "none" /\ rxpc[s] = "none" /\ asked[s] = {}
    BY DEF Init, ConnInit
  <2> QED
    BY <2>1, <2>3, <2>4, <2>5, <1>i DEF Connection
<1>5. Counted
  BY <1>i DEF Counted
<1>6. Headed
  BY <1>i, <1>p, <1>z DEF Headed, CacheHeaded, WireHeaded, HandHeaded, Announced, InLoop
<1> QED
  BY <1>1, <1>2, <1>3, <1>4, <1>5, <1>6 DEF IndInv

(* A state in which nothing happens any more stays as it is.                *)
LEMMA IndInvStutters ==
  ASSUME IndInv, UNCHANGED vars
  PROVE  IndInv'
<1>1. UNCHANGED <<session, pc, intr, from, frame, socket, sess, rx, connected, publishPermitted, currentStreamId,
                  videoFrameCacheNumber, skipped, headless, sock, invoked, asked, wire, rxpc, rxintr, joining, swallowed, orphan, crash,
                  ui, started, mFlvTagCache, header, configured, enc, made, again, overlap, Stopper>>
  BY DEF vars, connVars, muxVars, fields, cast, Stopper, ends, receiver
<1>2. Typed'
  BY <1>1 DEF IndInv, Typed, TypeOK, ConnTypeOK
<1>3. Control' /\ Flow'
  BY <1>1 DEF IndInv, Control, Flow, Increasing, Before
<1>4. Sole' <=> Sole
  BY <1>1 DEF Sole
<1>5. Connection => Connection'
  <2>1. (Blank <=> Blank') /\ (Dialed <=> Dialed') /\ (Linked <=> Linked') /\ (Unasked <=> Unasked')
        /\ (\A s \in Sessions : Shut(s) <=> Shut(s)') /\ Pending' = Pending /\ Place' = Place /\ Holder' = Holder
    BY <1>1 DEF Blank, Shut, Dialed, Linked, Pending, Unasked, Place, Holder
  <2>2. Fits(Place) => Fits(Place)'
    BY <1>1, <2>1 DEF Fits
  <2> QED
    BY <1>1, <2>1, <2>2 DEF Connection
<1>6. Counted => Counted'
  BY <1>1 DEF Counted, Place, Holder, Serving, Videos, Handled, Uncounted
<1>7. Headed => Headed'
  BY <1>1 DEF Headed, CacheHeaded, WireHeaded, HandHeaded, Serving, Announced, InLoop
<1> QED
  BY <1>2, <1>3, <1>4, <1>5, <1>6, <1>7 DEF IndInv

(* The inductive invariant holds in every reachable state.                  *)
LEMMA IndInvAlways == Spec => []IndInv
<1>1. Init => IndInv
  BY IndInvInit
<1>2. IndInv /\ [Next]_vars => IndInv'
  <2> SUFFICES ASSUME IndInv, [Next]_vars PROVE IndInv'
    OBVIOUS
  <2>1. CASE crash = "none"
    <3>1. Typed /\ Control /\ Flow /\ (Sole => Connection /\ Counted /\ Headed)
      BY DEF IndInv
    <3>2. Typed' /\ Control'
      BY <3>1, TypedStep, ControlStep
    <3>3. Flow'
      BY <3>1, FlowStep
    <3>4. Sole' => Connection'
      BY <3>1, <2>1, ConnectionStep
    <3>5. Sole' => Counted'
      BY <3>1, <2>1, CountedStep
    <3>6. Sole' => Headed'
      BY <3>1, <2>1, HeadedStep
    <3> QED
      BY <3>2, <3>3, <3>4, <3>5, <3>6 DEF IndInv
  <2>2. CASE crash # "none"
    <3>1. UNCHANGED vars
      BY <2>2 DEF Next
    <3> QED
      BY <3>1, IndInvStutters
  <2> QED
    BY <2>1, <2>2
<1> QED
  BY <1>1, <1>2, PTL DEF Spec

(* Every field of the muxer and of its connection keeps its type.           *)
THEOREM TypeCorrect == Spec => []TypeOK
<1>1. IndInv => TypeOK
  BY DEF IndInv, Typed
<1> QED
  BY <1>1, IndInvAlways, PTL

(* videoFrameCacheNumber is the number of video tags that wait and of the    *)
(* ones publishVideoData() gave back for a negative time since the last      *)
(* reset(), in any number of sessions that do not overlap: flvTagCacheAdd(), *)
(* publishVideoData() and reset() agree on every other path.                 *)
THEOREM CounterExact == Spec => []CountExact
<1>1. IndInv => CountExact
  <2> SUFFICES ASSUME IndInv, InLoop, ui = "live", Sole
               PROVE  videoFrameCacheNumber = Videos + Handled - Uncounted + skipped
    BY DEF CountExact, Sole
  <2>1. Counted
    BY DEF IndInv
  <2>2. Serving
    BY DEF InLoop, Serving, LoopPlaces
  <2> QED
    BY <2>1, <2>2 DEF Counted
<1> QED
  BY <1>1, IndInvAlways, PTL

(* What a session sends was encoded in it, in the order of the cache, and    *)
(* every track starts with its sequence header, unless publishVideoData()    *)
(* gave that back for a negative time.                                      *)
THEOREM WireInOrder == Spec => []WireOwnTags
<1>1. IndInv => WireOwnTags
  <2> SUFFICES ASSUME IndInv, NEW i \in 1..Len(wire)
               PROVE  /\ wire[i].sess = session
                      /\ \/ wire[i].hdr \/ wire[i].track \in headless \/ overlap \/ orphan
                         \/ \E j \in 1..(i - 1) : wire[j].track = wire[i].track /\ wire[j].hdr
                      /\ \A j \in 1..(i - 1) : wire[j].track = wire[i].track => wire[j].n < wire[i].n
    BY DEF WireOwnTags
  <2>1. wire[i].sess = session /\ Increasing(wire)
    BY DEF IndInv, Flow
  <2>2. Sole => wire[i].hdr \/ wire[i].track \in headless \/ HasHeader(wire, i - 1, wire[i].track)
    BY DEF IndInv, Headed, WireHeaded
  <2>3. \A j \in 1..(i - 1) : j \in 1..Len(wire) /\ j < i
    <3>1. Len(wire) \in Nat
      BY DEF IndInv, Typed
    <3> QED
      BY <3>1
  <2>4. \A j \in 1..(i - 1) : wire[j].n < wire[i].n
    BY <2>1, <2>3 DEF Increasing
  <2>5. overlap \/ orphan \/ Sole
    BY DEF Sole
  <2> QED
    BY <2>1, <2>2, <2>4, <2>5 DEF HasHeader
<1> QED
  BY <1>1, IndInvAlways, PTL

(* A session that was stopped and disconnected leaves no socket open and no  *)
(* receiver running, on every path through connect() and publish().         *)
THEOREM SessionsReleased == Spec => []Released
<1>1. IndInv => Released
  <2> SUFFICES ASSUME IndInv, ui = "idle", Disconnecting = {}, Sole
               PROVE  \A s \in Sessions : Shut(s)
    BY DEF Released, Sole, Shut
  <2>1. Typed /\ Control /\ Connection
    BY DEF IndInv
  <2>2. Place = pc[Stopper]
    BY DEF Place, Holder
  <2>3. (Stopper \in Sessions \/ Stopper = 0) /\ (Stopper = 0 => session = 0)
    BY <2>1, ThreadFacts DEF Typed, TypeOK, ConnTypeOK, Stopper, Refs
  <2>4. CASE Stopper = 0
    <3>1. Place = "none"
      BY <2>1, <2>2, <2>3, <2>4, ThreadFacts DEF Control
    <3> QED
      BY <2>1, <3>1 DEF Connection, Fits, Blank
  <2>5. CASE Stopper \in Sessions
    <3>1. Stopper # 0
      BY <2>5, ThreadFacts
    <3>2. Place = "done"
      BY <2>1, <2>2, <2>5, <3>1 DEF Control, Disconnecting
    <3> QED
      BY <2>1, <3>2 DEF Connection, Blank
  <2> QED
    BY <2>3, <2>4, <2>5
<1> QED
  BY <1>1, IndInvAlways, PTL

(* While every disconnect() ends before the next start() or stop(), repeated *)
(* stop()s included, no call dereferences what another one reset, and each   *)
(* session starts on a clean object.                                        *)
THEOREM ResetStaysOwn == Spec => []NoForeignReset
<1>1. IndInv => NoForeignReset
  <2> SUFFICES ASSUME IndInv, Sole
               PROVE  /\ crash \in {"none", "frame"}
                      /\ pc[Worker] \in {"open", "tcp", "handshake", "rtmpConnect"} =>
                           ~connected /\ ~publishPermitted /\ currentStreamId = 0
    BY DEF NoForeignReset, Sole
  <2>1. Typed /\ Control /\ Connection
    BY DEF IndInv
  <2>2. crash \in {"none", "frame"}
    BY <2>1 DEF Connection
  <2>3. ASSUME pc[Worker] \in {"open", "tcp", "handshake", "rtmpConnect"}
        PROVE  ~connected /\ ~publishPermitted /\ currentStreamId = 0
    <3>1. Place = pc[Worker]
      BY <2>1, <2>3 DEF Control, Place, Holder
    <3> QED
      BY <2>1, <2>3, <3>1 DEF Connection, Fits, Blank, Dialed
  <2> QED
    BY <2>2, <2>3
<1> QED
  BY <1>1, IndInvAlways, PTL
===============================================================================
