-------------------------- MODULE WebSocketTransport --------------------------
(***************************************************************************)
(* WebSocketTransport.java: the signalling connection of the client.       *)
(*                                                                         *)
(* Three kinds of threads meet here.  The caller's thread runs connect(),  *)
(* sendMessage() and close().  The "socket" handler thread runs the tasks  *)
(* posted to mHandler, one at a time: the queue is FIFO and the delayed    *)
(* reconnect jobs come due at any moment.  okhttp's threads run the        *)
(* listener callbacks of a socket.  A callback that reads mClosed and then *)
(* acts on it is two steps, so that close() may come in between.           *)
(***************************************************************************)
EXTENDS Integers, Sequences

CONSTANTS
  Retries,     \* RetryStrategy.retries (10 in the code)
  MaxSends,    \* bound: sendMessage() calls
  MaxAccepts   \* bound: only the first MaxAccepts attempts may be accepted

ASSUME RetriesAssumption == Retries \in Nat \ {0}
ASSUME BoundsAssumption == MaxSends \in Nat /\ MaxAccepts \in Nat

VARIABLES
  mListener,   \* connect() has been called
  mClosed,
  mConnected,
  mWebSocket,  \* number of the socket it refers to, 0 for null
  retryCount,
  queue,       \* tasks posted to mHandler and not yet run
  delayed,     \* number of reconnect jobs posted with a delay and not yet run
  handler,     \* where the handler thread is inside the task it runs
  socks,       \* socks[a]: state of the a-th socket asked of okhttp
  callback,    \* callback[a]: the listener callback of socket a past its mClosed check
  sends,       \* number of sendMessage() calls that were accepted
  wire,        \* messages handed to an open socket, in order
  closer,      \* progress of the caller inside close()
  calls,       \* callbacks given to mListener, in order
  tries        \* history: sockets asked of okhttp since one was last accepted

socketVars == <<socks, callback>>
handlerVars == <<queue, delayed, handler>>
callerVars == <<mListener, sends, closer>>
vars == <<mListener, mClosed, mConnected, mWebSocket, retryCount, queue,
          delayed, handler, socks, callback, sends, wire, closer, calls, tries>>

Task(name, m) == [run |-> name, msg |-> m]
Tasks == {Task(name, 0) : name \in {"connect", "close"}}
         \cup {Task("send", m) : m \in 1 .. MaxSends}
(* The server's close frame leaves a socket "ending": onClosing() only logs *)
(* it, and okhttp says nothing more until the client answers or a write     *)
(* fails.  "stale" is an ending socket that has been written to since.      *)
Unanswered == {"ending", "stale"}
SocketStates == {"connecting", "open", "cancelled", "closing", "closed", "failed"}
                \cup Unanswered
Running == {"connecting", "open", "cancelled"}
Live == Running \cup Unanswered

-------------------------------------------------------------------------------
(* RetryStrategy *)

(* Mutation: one retry too many. *)
MayRetryOneMore == retryCount <= Retries + 1

MayRetry == retryCount <= Retries    \* getReconnectInterval() # -1

-------------------------------------------------------------------------------
Init ==
  /\ mListener = FALSE
  /\ mClosed = FALSE
  /\ mConnected = FALSE
  /\ mWebSocket = 0
  /\ retryCount = 1
  /\ queue = <<>>
  /\ delayed = 0
  /\ handler = "idle"
  /\ socks = <<>>
  /\ callback = <<>>
  /\ sends = 0
  /\ wire = <<>>
  /\ closer = "none"
  /\ calls = <<>>
  /\ tries = 0

(* The caller's thread *)

(* Mutation: connect() may be called again. *)
ConnectAgain ==
  /\ mListener' = TRUE
  /\ queue' = Append(queue, Task("connect", 0))
  /\ UNCHANGED <<mClosed, mConnected, mWebSocket, retryCount, delayed, handler,
                 socketVars, sends, wire, closer, calls, tries>>

Connect ==
  /\ ~mListener
  /\ mListener' = TRUE
  /\ queue' = Append(queue, Task("connect", 0))
  /\ UNCHANGED <<mClosed, mConnected, mWebSocket, retryCount, delayed, handler,
                 socketVars, sends, wire, closer, calls, tries>>

(* Mutation: postAtFrontOfQueue() instead of post(). *)
SendMessageAtFront ==
  /\ mListener
  /\ sends < MaxSends
  /\ ~mClosed
  /\ sends' = sends + 1
  /\ queue' = <<Task("send", sends + 1)>> \o queue
  /\ UNCHANGED <<mListener, mClosed, mConnected, mWebSocket, retryCount, delayed,
                 handler, socketVars, wire, closer, calls, tries>>

(* A closed transport throws IllegalStateException and posts nothing. *)
SendMessage ==
  /\ mListener
  /\ sends < MaxSends
  /\ ~mClosed
  /\ sends' = sends + 1
  /\ queue' = Append(queue, Task("send", sends + 1))
  /\ UNCHANGED <<mListener, mClosed, mConnected, mWebSocket, retryCount, delayed,
                 handler, socketVars, wire, closer, calls, tries>>

(* Mutation: close() does not wait for the latch. *)
CloseNoWait ==
  /\ mListener
  /\ closer = "none"
  /\ mClosed' = TRUE
  /\ closer' = "returned"
  /\ queue' = IF mClosed THEN queue ELSE Append(queue, Task("close", 0))
  /\ UNCHANGED <<mListener, mConnected, mWebSocket, retryCount, delayed, handler,
                 socketVars, sends, wire, calls, tries>>

(* close() up to countDownLatch.await(). *)
Close ==
  /\ mListener
  /\ closer = "none"
  /\ mClosed' = TRUE
  /\ IF mClosed
     THEN closer' = "returned" /\ UNCHANGED queue
     ELSE closer' = "waiting" /\ queue' = Append(queue, Task("close", 0))
  /\ UNCHANGED <<mListener, mConnected, mWebSocket, retryCount, delayed, handler,
                 socketVars, sends, wire, calls, tries>>

-------------------------------------------------------------------------------
(* The handler thread *)

AtHead(name) == queue # <<>> /\ Head(queue).run = name

newWebSocket(old) ==
  /\ mWebSocket' = 0
  /\ socks' = Append(old, "connecting")
  /\ callback' = Append(callback, "none")
  /\ tries' = tries + 1

(* okhttp's dispatcher().cancelAll(): every call still running fails. *)
cancelAll(s) == [a \in DOMAIN s |-> IF s[a] \in Running THEN "cancelled" ELSE s[a]]

RunConnect ==
  /\ handler = "idle"
  /\ AtHead("connect")
  /\ queue' = Tail(queue)
  /\ newWebSocket(socks)
  /\ UNCHANGED <<callerVars, mClosed, mConnected, retryCount, delayed, handler,
                 wire, calls>>

(* A send task reads mClosed, then writes to whatever mWebSocket is. *)
RunSendCheck ==
  /\ handler = "idle"
  /\ AtHead("send")
  /\ IF mClosed
     THEN queue' = Tail(queue) /\ UNCHANGED handler
     ELSE handler' = "sending" /\ UNCHANGED queue
  /\ UNCHANGED <<callerVars, mClosed, mConnected, mWebSocket, retryCount, delayed,
                 socketVars, wire, calls, tries>>

(* okhttp takes a message for every socket that has not failed and that    *)
(* the client has not closed, one the server has closed included; it       *)
(* refuses any other silently.                                             *)
Writable == mWebSocket # 0 /\ socks[mWebSocket] \in {"open"} \cup Unanswered

RunSend ==
  /\ handler = "sending"
  /\ handler' = "idle"
  /\ queue' = Tail(queue)
  /\ wire' = IF Writable THEN Append(wire, Head(queue).msg) ELSE wire
  /\ socks' = IF Writable /\ socks[mWebSocket] = "ending"
              THEN [socks EXCEPT ![mWebSocket] = "stale"] ELSE socks
  /\ UNCHANGED <<callerVars, mClosed, mConnected, mWebSocket, retryCount, delayed,
                 callback, calls, tries>>

(* webSocket.close(): a socket whose server has closed before is closed. *)
Shut(state) == IF state = "open" THEN "closing" ELSE "closed"

(* Mutation: countDown() only where there was a socket to close. *)
RunCloseNoCountDown ==
  /\ handler = "idle"
  /\ AtHead("close")
  /\ queue' = Tail(queue)
  /\ mWebSocket' = 0
  /\ socks' = IF Writable
              THEN [socks EXCEPT ![mWebSocket] = Shut(socks[mWebSocket])] ELSE socks
  /\ closer' = IF mWebSocket # 0 THEN "returned" ELSE closer
  /\ UNCHANGED <<mListener, mClosed, mConnected, retryCount, delayed, handler,
                 callback, sends, wire, calls, tries>>

RunClose ==
  /\ handler = "idle"
  /\ AtHead("close")
  /\ queue' = Tail(queue)
  /\ mWebSocket' = 0
  /\ socks' = IF Writable
              THEN [socks EXCEPT ![mWebSocket] = Shut(socks[mWebSocket])] ELSE socks
  /\ closer' = "returned"    \* countDown()
  /\ UNCHANGED <<mListener, mClosed, mConnected, retryCount, delayed, handler,
                 callback, sends, wire, calls, tries>>

(* The job of scheduleReconnect(), up to newWebSocket() ... *)
RunReconnect ==
  /\ handler = "idle"
  /\ delayed > 0
  /\ delayed' = delayed - 1
  /\ IF mClosed
     THEN UNCHANGED <<mWebSocket, socketVars, tries, handler>>
     ELSE newWebSocket(cancelAll(socks)) /\ handler' = "reconnecting"
  /\ UNCHANGED <<callerVars, mClosed, mConnected, retryCount, queue, wire, calls>>

(* ... and its last statement, retried(): okhttp may already be calling back. *)
RunRetried ==
  /\ handler = "reconnecting"
  /\ handler' = "idle"
  /\ retryCount' = retryCount + 1
  /\ UNCHANGED <<callerVars, mClosed, mConnected, mWebSocket, queue, delayed,
                 socketVars, wire, calls, tries>>

-------------------------------------------------------------------------------
(* okhttp's threads: what happens to socket a, and its listener callbacks.  *)
(* The callback proceeds only if it finds mClosed false when it starts.     *)

Happens(a, from, to, event) ==
  /\ callback[a] = "none"
  /\ socks[a] \in from
  /\ socks' = [socks EXCEPT ![a] = to]
  /\ callback' = [callback EXCEPT ![a] = IF mClosed THEN "none" ELSE event]

Accept(a) ==
  /\ a <= MaxAccepts
  /\ Happens(a, {"connecting"}, "open", "onOpen")
  /\ tries' = 0
  /\ UNCHANGED <<callerVars, mClosed, mConnected, mWebSocket, retryCount,
                 handlerVars, wire, calls>>

(* An ending socket is no longer read, only a write to it can fail. *)
Break(a) ==
  /\ Happens(a, Running \cup {"stale"}, "failed", "onFailure")
  /\ UNCHANGED <<callerVars, mClosed, mConnected, mWebSocket, retryCount,
                 handlerVars, wire, calls, tries>>

(* The server closes an open socket: onClosing() logs it and does not close *)
(* the socket in turn, so neither onClosed() nor onFailure() follows.       *)
ServerClose(a) ==
  /\ callback[a] = "none"
  /\ socks[a] = "open"
  /\ socks' = [socks EXCEPT ![a] = "ending"]
  /\ UNCHANGED <<callerVars, mClosed, mConnected, mWebSocket, retryCount,
                 handlerVars, callback, wire, calls, tries>>

(* The server answers the client's close frame.  onClosed() comes after the *)
(* client has closed the socket and only then, so it finds mClosed true and *)
(* returns: the rest of it never runs.                                      *)
ServerAnswer(a) ==
  /\ callback[a] = "none"
  /\ socks[a] = "closing"
  /\ socks' = [socks EXCEPT ![a] = "closed"]
  /\ UNCHANGED <<callerVars, mClosed, mConnected, mWebSocket, retryCount,
                 handlerVars, callback, wire, calls, tries>>

(* Mutation: mConnected is never set. *)
OnOpenUnmarked(a) ==
  /\ callback[a] = "onOpen"
  /\ mWebSocket' = a
  /\ calls' = Append(calls, "onOpen")
  /\ callback' = [callback EXCEPT ![a] = "reset"]
  /\ UNCHANGED <<callerVars, mClosed, mConnected, retryCount, handlerVars, socks,
                 wire, tries>>

OnOpen(a) ==
  /\ callback[a] = "onOpen"
  /\ mWebSocket' = a
  /\ mConnected' = TRUE
  /\ calls' = Append(calls, "onOpen")
  /\ callback' = [callback EXCEPT ![a] = "reset"]
  /\ UNCHANGED <<callerVars, mClosed, retryCount, handlerVars, socks, wire, tries>>

(* reset() is the last statement of onOpen, after the listener has run. *)
OnOpenReset(a) ==
  /\ callback[a] = "reset"
  /\ retryCount' = 0
  /\ callback' = [callback EXCEPT ![a] = "none"]
  /\ UNCHANGED <<callerVars, mClosed, mConnected, mWebSocket, handlerVars, socks,
                 wire, calls, tries>>

OnFailureRetry(a) ==
  /\ callback[a] = "onFailure"
  /\ MayRetry
  /\ delayed' = delayed + 1
  /\ calls' = Append(calls, IF mConnected THEN "onDisconnected" ELSE "onFail")
  /\ callback' = [callback EXCEPT ![a] = "none"]
  /\ UNCHANGED <<callerVars, mClosed, mConnected, mWebSocket, retryCount, queue,
                 handler, socks, wire, tries>>

(* Mutation: giving up leaves mClosed false. *)
OnFailureGiveUpOpen(a) ==
  /\ callback[a] = "onFailure"
  /\ ~MayRetry
  /\ retryCount' = 0
  /\ calls' = Append(calls, "onClose")
  /\ callback' = [callback EXCEPT ![a] = "none"]
  /\ UNCHANGED <<callerVars, mClosed, mConnected, mWebSocket, handlerVars, socks,
                 wire, tries>>

OnFailureGiveUp(a) ==
  /\ callback[a] = "onFailure"
  /\ ~MayRetry
  /\ mClosed' = TRUE
  /\ retryCount' = 0
  /\ calls' = Append(calls, "onClose")
  /\ callback' = [callback EXCEPT ![a] = "none"]
  /\ UNCHANGED <<callerVars, mConnected, mWebSocket, handlerVars, socks, wire,
                 tries>>

-------------------------------------------------------------------------------
HandlerStep == RunConnect \/ RunSendCheck \/ RunSend \/ RunClose
               \/ RunReconnect \/ RunRetried

CallbackStep(a) == OnOpen(a) \/ OnOpenReset(a) \/ OnFailureRetry(a) \/ OnFailureGiveUp(a)

SocketStep(a) == Accept(a) \/ Break(a) \/ ServerClose(a) \/ ServerAnswer(a)

Next ==
  \/ Connect \/ SendMessage \/ Close
  \/ HandlerStep
  \/ \E a \in DOMAIN socks : SocketStep(a) \/ CallbackStep(a)

Spec == Init /\ [][Next]_vars

(* The handler thread keeps running its tasks; a callback that was entered *)
(* is finished; okhttp settles every connection attempt one way or the     *)
(* other (it has a connect timeout).  An open socket need never break, the *)
(* server need never close it and the caller need never call anything.     *)
Settle(a) == socks[a] \in {"connecting", "cancelled"} /\ (Accept(a) \/ Break(a))

Fairness ==
  /\ WF_vars(HandlerStep)
  /\ WF_vars(\E a \in DOMAIN socks : CallbackStep(a))
  /\ WF_vars(\E a \in DOMAIN socks : Settle(a))

FairSpec == Spec /\ Fairness

-------------------------------------------------------------------------------
(* The listener's view of the transport. *)
Link == INSTANCE SignalLink WITH
  last   <- IF calls = <<>> THEN "none" ELSE calls[Len(calls)],
  opened <- \E i \in DOMAIN calls : calls[i] = "onOpen"

Flags == mListener \in BOOLEAN /\ mClosed \in BOOLEAN /\ mConnected \in BOOLEAN
Data ==
  /\ retryCount \in Nat /\ delayed \in Nat /\ tries \in Nat
  /\ sends \in 0 .. MaxSends
  /\ queue \in Seq(Tasks)
  /\ handler \in {"idle", "sending", "reconnecting"}
  /\ handler = "sending" => AtHead("send")
  /\ socks \in Seq(SocketStates)
  /\ callback \in Seq({"none", "onOpen", "reset", "onFailure"})
  /\ Len(callback) = Len(socks)
  /\ mWebSocket \in 0 .. Len(socks)
  /\ wire \in Seq(1 .. MaxSends)
  /\ closer \in {"none", "waiting", "returned"}
  /\ calls \in Seq(Link!Callbacks)

(* Every variable stays in its type; mWebSocket, when not null, is a socket *)
(* okhttp was asked for, and a send in progress is the task at the head.    *)
TypeOK == Flags /\ Data

(* mWebSocket never refers to a socket older than the newest one: a message *)
(* is never written to a connection that has been replaced.                 *)
CurrentSocket == mWebSocket \in {0, Len(socks)}

(* However failures, reconnect jobs and callbacks interleave, the client    *)
(* never has two connections to the server at once: connect() runs once and *)
(* every reconnect job comes from the failure of the socket before it, so   *)
(* a socket that may still live is the last one asked for, and mWebSocket   *)
(* is that one or null.                                                     *)
OneConnection ==
  /\ \A a \in DOMAIN socks : socks[a] \in Live => a = Len(socks)
  /\ CurrentSocket

(* RetryStrategy gives up: between two accepted connections at most         *)
(* Retries + 2 sockets are asked for, although retryCount starts at 1, is   *)
(* reset to 0, and retried() races with the callbacks of the new socket.    *)
RetryBound == tries <= Retries + 2

(* Messages reach the socket in the order of the sendMessage() calls and at *)
(* most once, across disconnections.                                        *)
InOrder == \A i, j \in DOMAIN wire : i < j => wire[i] < wire[j]

(* Once close() has returned, nothing more is handed to a socket.           *)
SilentAfterClose == [][closer = "returned" => wire' = wire]_vars

(* close() waits on a latch counted down by the handler thread: it returns. *)
CloseReturns == closer = "waiting" ~> closer = "returned"

(* A transport without a connection gets one or reports that it is closed:  *)
(* the chain of failure, reconnect job and new socket never breaks off,     *)
(* except where the server itself closed the connection.                    *)
Up == mWebSocket # 0 /\ socks[mWebSocket] = "open"
Ended == socks # <<>> /\ socks[Len(socks)] \in Unanswered
UpOrClosed == mListener /\ ~Up ~> Up \/ mClosed \/ Ended

(* Callbacks follow the contract of SignalLink.                             *)
ListenerContract == Link!LinkSpec

===============================================================================
