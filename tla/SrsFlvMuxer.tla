----------------------------- MODULE SrsFlvMuxer ------------------------------
(***************************************************************************)
(* SrsFlvMuxer.java over RtmpConnection, as SrsPublisher drives it: the    *)
(* encoder threads put FLV tags into mFlvTagCache, a worker sends them,    *)
(* the main thread starts and stops sessions, and a thread of its own      *)
(* disconnects after each stop.  stop() is called again for every error    *)
(* that is reported to MainActivity, also when nothing is published.       *)
(*                                                                         *)
(* A tag is [track, hdr, sess, n]: its track, whether it is the sequence   *)
(* header of the track, the session whose encoder made it and its number.  *)
(* The bytes of the tags, key frames apart from headers, and the pool the  *)
(* tags are allocated from (SrsAllocator) are left out.                    *)
(***************************************************************************)
EXTENDS RtmpConnection

CONSTANTS
  Tracks,         \* "video" and "audio"
  VGOP,           \* SrsEncoder.VGOP: no frame is encoded while so many are cached
  MaxTags         \* bound: tags per session

ASSUME MuxerAssumption ==
  Tracks \subseteq {"video", "audio"} /\ "video" \in Tracks /\ VGOP \in Nat \ {0} /\ MaxTags \in Nat

Tags == [track : Tracks, hdr : BOOLEAN, sess : Sessions, n : 1..MaxTags]

VARIABLES
  ui,             \* the main thread: "idle", "live" or "stopping"
  started, mFlvTagCache,
  header,         \* mVideoSequenceHeader and mAudioSequenceHeader are not null
  configured,     \* SrsFlv: h264_sps_pps_sent and aac_specific_config_got
  enc,            \* where the encoder of each track is
  made,           \* counts tags
  again,          \* counts the calls of stop() when nothing is published
  overlap         \* a session was started, or stop() called, before the last disconnect() ended

muxVars == <<ui, started, mFlvTagCache, header, configured, enc, made, again, overlap>>
vars == <<connVars, muxVars>>

Init ==
  /\ ConnInit
  /\ ui = "idle" /\ started = FALSE /\ mFlvTagCache = <<>>
  /\ header = [k \in Tracks |-> FALSE] /\ configured = [k \in Tracks |-> FALSE]
  /\ enc = [k \in Tracks |-> "idle"]
  /\ made = 0 /\ again = 0 /\ overlap = FALSE

Videos == Cardinality({i \in 1..Len(mFlvTagCache) : mFlvTagCache[i].track = "video"})
Disconnecting == {t \in Sessions : pc[t] \notin {"none", "done"}}

(* The thread of the last stop(); each start() and each stop() without a    *)
(* session takes one of the bound.                                          *)
Stopper == session + again

-------------------------------------------------------------------------------
(* The main thread *)

(* startPublish(): start(), then the encoders.  An encoder that fails to     *)
(* start, or that pausePublish() ended, is one that writes nothing.         *)
StartPublish ==
  /\ ui = "idle" /\ Stopper < MaxSessions
  /\ ui' = "live" /\ started' = TRUE
  /\ session' = session + 1
  /\ intr' = FALSE
  /\ Goto(Worker, "open")
  /\ overlap' = (overlap \/ Disconnecting # {})
  /\ UNCHANGED <<swallowed, cast, wire, from, frame, fields, videoFrameCacheNumber, ends, receiver, joining, orphan,
                 crash, mFlvTagCache, header, configured, enc, made, again>>

(* stopPublish(): stopEncode() joins the encoder threads, then stop() empties *)
(* the cache and interrupts the worker.                                     *)
StopPublish ==
  /\ ui = "live"
  /\ \A k \in Tracks : enc[k] = "idle"
  /\ started' = FALSE /\ mFlvTagCache' = <<>>
  /\ intr' = (pc[Worker] # "done")
  /\ ui' = "stopping" /\ made' = 0
  /\ UNCHANGED <<session, cast, pc, swallowed, from, frame, fields, videoFrameCacheNumber, ends, wire, receiver,
                 joining, orphan, crash, header, configured, enc, again, overlap>>

(* A plausible slip: flv.reset() is forgotten. *)
JoinedWithoutReset ==
  /\ ui = "stopping" /\ pc[Worker] = "done"
  /\ ui' = "idle" /\ wire' = <<>> /\ headless' = {} /\ swallowed' = FALSE
  /\ Goto(Stopper, "shutdown")
  /\ UNCHANGED <<session, skipped, intr, from, frame, fields, videoFrameCacheNumber, ends, receiver,
                 joining, orphan, crash, started, mFlvTagCache, header, configured, enc, made, again, overlap>>

(* worker.join() returns: flv.reset(), and disconnect() on a new thread. *)
WorkerJoined ==
  /\ ui = "stopping" /\ pc[Worker] = "done"
  /\ ui' = "idle" /\ wire' = <<>> /\ headless' = {} /\ swallowed' = FALSE
  /\ configured' = [k \in Tracks |-> FALSE]
  /\ Goto(Stopper, "shutdown")
  /\ UNCHANGED <<session, skipped, intr, from, frame, fields, videoFrameCacheNumber, ends, receiver,
                 joining, orphan, crash, started, mFlvTagCache, header, enc, made, again, overlap>>

(* stop() when there is no worker: another disconnect(). *)
StopAgain ==
  /\ ui = "idle" /\ Stopper < MaxSessions
  /\ started' = FALSE /\ mFlvTagCache' = <<>>
  /\ configured' = [k \in Tracks |-> FALSE]
  /\ again' = again + 1
  /\ Goto(Stopper + 1, "shutdown")
  /\ overlap' = (overlap \/ Disconnecting # {})
  /\ UNCHANGED <<session, cast, intr, swallowed, from, frame, fields, videoFrameCacheNumber, ends, wire,
                 receiver, joining, orphan, crash, ui, header, enc, made>>

-------------------------------------------------------------------------------
(* The encoder thread of track k: writeSampleData() *)

(* A sample of codec configuration makes the header, which can come again;  *)
(* any other sample is ignored until then.  No sample is encoded while the  *)
(* cache of video is full.  flvTagCacheAdd() puts the tag into the cache.   *)
WriteSample(k) ==
  /\ ui = "live" /\ enc[k] = "idle" /\ made < MaxTags
  /\ videoFrameCacheNumber < VGOP
  /\ \E hdr \in BOOLEAN :
       /\ IF k = "video" THEN hdr \/ configured[k] ELSE hdr = ~configured[k]
       /\ mFlvTagCache' = IF ~started THEN mFlvTagCache
            ELSE Append(mFlvTagCache, [track |-> k, hdr |-> hdr, sess |-> session, n |-> made + 1])
  /\ configured' = [configured EXCEPT ![k] = TRUE]
  /\ made' = made + 1
  /\ enc' = [enc EXCEPT ![k] = IF started /\ k = "video" THEN "count" ELSE "idle"]
  /\ UNCHANGED <<connVars, ui, started, header, again, overlap>>

(* The tag is counted after the worker can already take it. *)
CountTag(k) ==
  /\ enc[k] = "count"
  /\ videoFrameCacheNumber' = videoFrameCacheNumber + 1
  /\ enc' = [enc EXCEPT ![k] = "idle"]
  /\ UNCHANGED <<session, cast, pc, intr, swallowed, from, frame, fields, ends, wire, receiver, joining, orphan, crash,
                 ui, started, mFlvTagCache, header, configured, made, again, overlap>>

-------------------------------------------------------------------------------
(* The worker *)

(* connect() returns. *)
Connected ==
  /\ pc[Worker] \in {"accepted", "refused"}
  /\ Goto(Worker, IF pc[Worker] = "accepted" THEN "loop" ELSE "done")
  /\ header' = [k \in Tracks |-> FALSE]
  /\ UNCHANGED <<session, cast, intr, swallowed, from, frame, fields, videoFrameCacheNumber, ends, wire, receiver,
                 joining, orphan, crash, ui, started, mFlvTagCache, configured, enc, made,
                 again, overlap>>

(* while (!Thread.interrupted()) *)
Loop ==
  /\ pc[Worker] = "loop"
  /\ Goto(Worker, IF intr THEN "done" ELSE "drain")
  /\ intr' = FALSE
  /\ UNCHANGED <<session, cast, swallowed, from, frame, fields, videoFrameCacheNumber, ends, wire, receiver, joining,
                 orphan, crash, muxVars>>

(* while (!mFlvTagCache.isEmpty()) *)
Drain ==
  /\ pc[Worker] = "drain"
  /\ Goto(Worker, IF mFlvTagCache = <<>> THEN "wait" ELSE "poll")
  /\ UNCHANGED <<session, cast, intr, swallowed, from, frame, fields, videoFrameCacheNumber, ends, wire, receiver,
                 joining, orphan, crash, muxVars>>

(* poll(), which finds nothing if stop() emptied the cache since isEmpty(). *)
(* A tag before the header of its track is dropped, and stays counted.      *)
Poll ==
  /\ pc[Worker] = "poll"
  /\ IF mFlvTagCache = <<>>
     THEN Dies("frame") /\ UNCHANGED <<mFlvTagCache, header>>
     ELSE LET f == Head(mFlvTagCache) IN
          /\ mFlvTagCache' = Tail(mFlvTagCache)
          /\ header' = [header EXCEPT ![f.track] = @ \/ f.hdr]
          /\ IF header'[f.track] THEN Goto(Worker, "publish") /\ frame' = <<f>>
             ELSE Goto(Worker, "drain") /\ UNCHANGED frame
          /\ UNCHANGED <<session, cast, intr, swallowed, from, fields, videoFrameCacheNumber, ends, wire, receiver,
                         joining, orphan, crash>>
  /\ UNCHANGED <<ui, started, configured, enc, made, again, overlap>>

(* A plausible slip: the interrupt is not put back. *)
WaitSwallows ==
  /\ pc[Worker] = "wait"
  /\ Goto(Worker, "loop")
  /\ intr' = FALSE
  /\ UNCHANGED <<session, cast, swallowed, from, frame, fields, videoFrameCacheNumber, ends, wire, receiver,
                 joining, orphan, crash, muxVars>>

(* A plausible slip: wait() without a timeout, after the notify. *)
WaitForever ==
  /\ pc[Worker] = "wait" /\ intr
  /\ Goto(Worker, "loop")
  /\ UNCHANGED <<session, cast, intr, swallowed, from, frame, fields, videoFrameCacheNumber, ends, wire,
                 receiver, joining, orphan, crash, muxVars>>

(* txFrameLock.wait(500) ends; an interrupt is put back. *)
WaitFrame ==
  /\ pc[Worker] = "wait"
  /\ Goto(Worker, "loop")
  /\ UNCHANGED <<session, cast, intr, swallowed, from, frame, fields, videoFrameCacheNumber, ends, wire, receiver,
                 joining, orphan, crash, muxVars>>

(* disconnect() ends, on the thread t of a stop(). *)
Disconnected(t) ==
  /\ pc[t] = "returns"
  /\ Goto(t, "done")
  /\ header' = [k \in Tracks |-> FALSE]
  /\ UNCHANGED <<session, cast, intr, swallowed, from, frame, fields, videoFrameCacheNumber, ends, wire, receiver,
                 joining, orphan, crash, ui, started, mFlvTagCache, configured, enc, made,
                 again, overlap>>

-------------------------------------------------------------------------------
Works == Connected \/ Loop \/ Drain \/ Poll \/ WaitFrame

(* Nothing happens after a crash. *)
Next ==
  /\ crash = "none"
  /\ \/ StartPublish \/ StopPublish \/ WorkerJoined \/ StopAgain
     \/ \E k \in Tracks : WriteSample(k) \/ CountTag(k)
     \/ Works
     \/ \E t \in Sessions : Disconnected(t)
     \/ ConnNext /\ UNCHANGED muxVars

Spec == Init /\ [][Next]_vars

(* A write to a connection whose server does not read need not return, and  *)
(* neither need the handshake: the socket has no timeout.                   *)
WorkerBlocked ==
  /\ pc[Worker] \in {"handshake", "rtmpConnect", "createStream", "send"}
  /\ sock[session] = "open"
CloseBlocked(t) == pc[t] = "shutdown" /\ socket # 0 /\ sock[socket] = "open"
ReceiverBlocked(s) == rxpc[s] \in Commands /\ sock[s] = "open"

(* Every thread that can run and is not in such a call runs.  The user and  *)
(* the server need not: no fairness for starting, stopping, answering or    *)
(* closing.                                                                 *)
Alive(A) == crash = "none" /\ A
Fairness ==
  /\ WF_vars(Alive(~WorkerBlocked /\ (Works \/ ((WorkerConnects \/ Tearing(Worker)) /\ UNCHANGED muxVars))))
  /\ WF_vars(Alive(WorkerJoined))
  /\ \A t \in Sessions :
       WF_vars(Alive(~CloseBlocked(t) /\ (Disconnected(t) \/ (Tearing(t) /\ UNCHANGED muxVars))))
  /\ \A s \in Sessions : WF_vars(Alive(~ReceiverBlocked(s) /\ Receives(s) /\ UNCHANGED muxVars))
  /\ \A k \in Tracks : WF_vars(Alive(CountTag(k)))
FairSpec == Spec /\ Fairness

-------------------------------------------------------------------------------
(* Type invariant: every field of the muxer and of its connection keeps its *)
(* type.                                                                    *)
TypeOK ==
  /\ ConnTypeOK
  /\ frame \in {<<>>} \cup {<<f>> : f \in Tags}
  /\ ui \in {"idle", "live", "stopping"} /\ started \in BOOLEAN
  /\ \A i \in 1..Len(mFlvTagCache) : mFlvTagCache[i] \in Tags
  /\ header \in [Tracks -> BOOLEAN] /\ configured \in [Tracks -> BOOLEAN]
  /\ enc \in [Tracks -> {"idle", "count"}]
  /\ made \in 0..MaxTags /\ again \in Refs /\ Stopper \in Refs /\ overlap \in BOOLEAN

InLoop == pc[Worker] \in {"loop", "drain", "poll", "publish", "send", "wait"}

(* In hand, and to be counted once the encoder gets to it. *)
Handled == IF frame # <<>> /\ frame[1].track = "video" THEN 1 ELSE 0
Uncounted == IF enc["video"] = "count" THEN 1 ELSE 0

(* videoFrameCacheNumber, by which SrsEncoder judges the network, is the    *)
(* number of video tags that wait, through pauses and sessions, and of the  *)
(* ones that were given back for a negative time: only these leave without  *)
(* being counted down, and stall the encoder when there are VGOP of them.   *)
CountExact ==
  InLoop /\ ui = "live" /\ ~overlap /\ ~orphan =>
    videoFrameCacheNumber = Videos + Handled - Uncounted + skipped

(* What a session sends was encoded in that session, in the order of the    *)
(* cache, and every track starts with its sequence header, unless that one  *)
(* was given back for a negative time.                                      *)
WireOwnTags ==
  \A i \in 1..Len(wire) :
    /\ wire[i].sess = session
    /\ \/ wire[i].hdr \/ wire[i].track \in headless \/ overlap \/ orphan
       \/ \E j \in 1..(i - 1) : wire[j].track = wire[i].track /\ wire[j].hdr
    /\ \A j \in 1..(i - 1) : wire[j].track = wire[i].track => wire[j].n < wire[i].n

(* Once a session is stopped and disconnected its socket is closed and its  *)
(* receiver has ended, on every path through connect() and publish().       *)
Released ==
  ui = "idle" /\ Disconnecting = {} /\ ~overlap /\ ~orphan /\ crash = "none" =>
    \A s \in Sessions : sock[s] \in {"none", "closed"} /\ rxpc[s] \in {"none", "done"}

(* While each disconnect() ends before the next start() or stop(), no call  *)
(* dereferences what another one reset, and a session starts on a clean     *)
(* object.                                                                  *)
NoForeignReset ==
  ~overlap /\ ~orphan =>
    /\ crash \in {"none", "frame"}
    /\ pc[Worker] \in {"open", "tcp", "handshake", "rtmpConnect"} =>
         ~connected /\ ~publishPermitted /\ currentStreamId = 0

(* stop() returns to the main thread, unless the worker sits for good in    *)
(* the handshake or in a write, which nothing interrupts, or a wait()       *)
(* swallowed the interrupt just as publishing was permitted.                *)
StopEnds ==
  ui = "stopping" ~> \/ ui # "stopping" \/ crash # "none"
                     \/ []WorkerBlocked \/ (swallowed /\ InLoop)

(* A tag that waits while the session is up is taken from the cache, even   *)
(* if the notify of its encoder came before the worker's wait, unless the   *)
(* worker sits in a write.                                                  *)
CacheDrains ==
  (InLoop /\ mFlvTagCache # <<>>) ~>
    (mFlvTagCache = <<>> \/ crash # "none" \/ []WorkerBlocked)
===============================================================================
