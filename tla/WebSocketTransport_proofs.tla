----------------------- MODULE WebSocketTransport_proofs -----------------------
(***************************************************************************)
(* Proofs about WebSocketTransport, for every number of retries, messages  *)
(* and accepted connections.  The invariants are proved in layers: types,  *)
(* the chain of connection attempts, the retry budget, message order and   *)
(* the silence after close().                                              *)
(***************************************************************************)
EXTENDS WebSocketTransport, SequenceTheorems, TLAPS

-------------------------------------------------------------------------------
(* A socket that okhttp is done with, or that the client has closed. *)
Finished(a) == socks[a] \notin Live /\ callback[a] = "none"

(* Only close() posts a close task, and only that task closes a socket. *)
Marked ==
  /\ \A i \in DOMAIN queue : queue[i].run = "close" => mClosed
  /\ \A a \in DOMAIN socks : socks[a] = "closing" => mClosed

(* Connection attempts form a chain: the connect task, then a socket, its   *)
(* failure callback, one reconnect job, the next socket.  Only one link of  *)
(* the chain exists at a time.                                              *)
Chain ==
  /\ ~mListener => queue = <<>> /\ socks = <<>> /\ delayed = 0
  /\ \A i \in DOMAIN queue :
        queue[i].run = "connect" => i = 1 /\ socks = <<>> /\ delayed = 0
  /\ \A a \in DOMAIN socks : a # Len(socks) => Finished(a)
  /\ delayed # 0 => delayed = 1 /\ socks # <<>> /\ Finished(Len(socks))
  /\ handler = "reconnecting" => socks # <<>>
  /\ \A a \in DOMAIN socks :
        /\ callback[a] \in {"onOpen", "reset"} => socks[a] \in {"open", "closing"}
        /\ callback[a] = "onFailure" => socks[a] = "failed"
  /\ mWebSocket \in {0, Len(socks)}

(* retryCount, plus the increment the handler thread may still owe, covers  *)
(* the attempts made since the last accepted one.                           *)
(* States of a socket the server accepted and that did not fail. *)
Reached == {"open", "closing", "closed"} \cup Unanswered

Owed == IF handler = "reconnecting" THEN 1 ELSE 0

Budget ==
  /\ socks = <<>> => tries = 0 /\ retryCount = 1
  /\ socks # <<>> /\ socks[Len(socks)] \in Reached => tries = 0
  /\ mClosed \/ tries <= retryCount + Owed
  /\ delayed # 0 => mClosed \/ tries <= Retries + 1
  /\ tries <= Retries + 2

(* The messages on the wire, then those still queued, are increasing. *)
IsSend(i) == queue[i].run = "send"

Ordered ==
  /\ \A i \in DOMAIN queue : IsSend(i) => queue[i].msg <= sends
  /\ \A i, j \in DOMAIN queue :
        i < j /\ IsSend(i) /\ IsSend(j) => queue[i].msg < queue[j].msg
  /\ \A k \in DOMAIN wire : wire[k] <= sends
  /\ \A k \in DOMAIN wire, i \in DOMAIN queue : IsSend(i) => wire[k] < queue[i].msg
  /\ \A i, j \in DOMAIN wire : i < j => wire[i] < wire[j]

(* A transport that closed by itself has no usable socket, and a send task  *)
(* that overtook close() finds none.                                        *)
AllGone == socks # <<>> /\ \A a \in DOMAIN socks : socks[a] \in {"failed", "closed"}

Quiet ==
  /\ closer # "none" => mClosed
  /\ mClosed /\ closer = "none" => AllGone
  /\ closer = "returned" /\ handler = "sending" => AllGone

-------------------------------------------------------------------------------
(* Replacing one element of a sequence keeps its type and its length.       *)
LEMMA ReplaceElement ==
  ASSUME NEW S, NEW s \in Seq(S), NEW a \in DOMAIN s, NEW x \in S
  PROVE  /\ [s EXCEPT ![a] = x] \in Seq(S)
         /\ Len([s EXCEPT ![a] = x]) = Len(s)
         /\ DOMAIN [s EXCEPT ![a] = x] = DOMAIN s
  BY ExceptSeq

(* cancelAll keeps the number of sockets and leaves the finished ones alone. *)
LEMMA CancelAllFacts ==
  ASSUME NEW s \in Seq(SocketStates)
  PROVE  /\ cancelAll(s) \in Seq(SocketStates)
         /\ Len(cancelAll(s)) = Len(s)
         /\ \A a \in DOMAIN s : s[a] \notin Running => cancelAll(s)[a] = s[a]
<1>1. DOMAIN s = 1 .. Len(s) /\ Len(s) \in Nat
  OBVIOUS
<1>2. \A a \in 1 .. Len(s) : cancelAll(s)[a] \in SocketStates
  BY <1>1 DEF cancelAll, SocketStates
<1>3. cancelAll(s) = [a \in 1 .. Len(s) |-> cancelAll(s)[a]]
  BY <1>1 DEF cancelAll
<1>4. cancelAll(s) \in Seq(SocketStates) /\ Len(cancelAll(s)) = Len(s)
  BY <1>1, <1>2, <1>3, SeqDef, LenProperties
<1> QED
  BY <1>4 DEF cancelAll

(* Posting a task keeps the queue well typed and its head in place.         *)
LEMMA PostFacts ==
  ASSUME NEW q \in Seq(Tasks), NEW t \in Tasks
  PROVE  /\ Append(q, t) \in Seq(Tasks)
         /\ Len(Append(q, t)) = Len(q) + 1
         /\ \A i \in 1 .. Len(q) : Append(q, t)[i] = q[i]
         /\ Append(q, t)[Len(q) + 1] = t
         /\ q # <<>> => Append(q, t) # <<>> /\ Head(Append(q, t)) = Head(q)
<1>1. q # <<>> => 1 \in 1 .. Len(q)
  OBVIOUS
<1> QED
  BY <1>1, AppendProperties

(* The three kinds of tasks are tasks; a send task carries its message.     *)
LEMMA TaskFacts ==
  /\ Task("connect", 0) \in Tasks /\ Task("close", 0) \in Tasks
  /\ \A m \in 1 .. MaxSends : Task("send", m) \in Tasks
  /\ \A t \in Tasks : t.run = "send" => t.msg \in 1 .. MaxSends
<1>1. Task("connect", 0) \in Tasks /\ Task("close", 0) \in Tasks
  BY DEF Tasks, Task
<1>2. \A m \in 1 .. MaxSends : Task("send", m) \in Tasks
  BY DEF Tasks
<1>3. \A t \in Tasks : t.run = "send" => t.msg \in 1 .. MaxSends
  BY DEF Tasks, Task
<1> QED
  BY <1>1, <1>2, <1>3

(* Writing a message only marks an ending socket as stale.                  *)
LEMMA SendFacts ==
  ASSUME socks \in Seq(SocketStates), mWebSocket \in 0 .. Len(socks), RunSend
  PROVE  /\ socks' \in Seq(SocketStates) /\ Len(socks') = Len(socks)
         /\ DOMAIN socks' = DOMAIN socks /\ (socks = <<>>) = (socks' = <<>>)
         /\ \A a \in DOMAIN socks :
               socks'[a] = socks[a] \/ (socks[a] = "ending" /\ socks'[a] = "stale")
<1>1. CASE socks' = socks
  BY <1>1
<1>2. CASE socks' # socks
  <2>1. /\ mWebSocket \in DOMAIN socks /\ socks[mWebSocket] = "ending"
        /\ socks' = [socks EXCEPT ![mWebSocket] = "stale"]
    BY <1>2 DEF RunSend, Writable
  <2>2. "stale" \in SocketStates
    BY DEF SocketStates, Unanswered
  <2> QED
    BY <2>1, <2>2, ReplaceElement
<1> QED
  BY <1>1, <1>2

(* The close task only closes a socket the server had accepted.             *)
LEMMA ShutFacts ==
  ASSUME socks \in Seq(SocketStates), mWebSocket \in 0 .. Len(socks), RunClose
  PROVE  /\ socks' \in Seq(SocketStates) /\ Len(socks') = Len(socks)
         /\ DOMAIN socks' = DOMAIN socks /\ (socks = <<>>) = (socks' = <<>>)
         /\ \A a \in DOMAIN socks :
               \/ socks'[a] = socks[a]
               \/ socks[a] = "open" /\ socks'[a] = "closing"
               \/ socks[a] \in Unanswered /\ socks'[a] = "closed"
<1>1. CASE socks' = socks
  BY <1>1
<1>2. CASE socks' # socks
  <2>1. /\ mWebSocket \in DOMAIN socks /\ socks[mWebSocket] \in {"open"} \cup Unanswered
        /\ socks' = [socks EXCEPT ![mWebSocket] = Shut(socks[mWebSocket])]
    BY <1>2 DEF RunClose, Writable
  <2>2. Shut(socks[mWebSocket]) \in SocketStates
    BY DEF SocketStates, Shut
  <2> QED
    BY <2>1, <2>2, ReplaceElement DEF Shut
<1> QED
  BY <1>1, <1>2

-------------------------------------------------------------------------------
(* The Boolean fields are only ever assigned Booleans. *)
LEMMA FlagsStep == Flags /\ [Next]_vars => Flags'
<1> SUFFICES ASSUME Flags, [Next]_vars PROVE Flags'
  OBVIOUS
<1>1. CASE Connect \/ SendMessage \/ Close
  BY <1>1 DEF Flags, Connect, SendMessage, Close
<1>2. CASE HandlerStep
  BY <1>2 DEF Flags, HandlerStep, RunConnect, RunSendCheck, RunSend, RunClose,
     RunReconnect, RunRetried, callerVars
<1>3. ASSUME NEW a \in DOMAIN socks, SocketStep(a) \/ CallbackStep(a) PROVE Flags'
  BY <1>3 DEF Flags, SocketStep, CallbackStep, Accept, Break, ServerClose, ServerAnswer, OnOpen,
     OnOpenReset, OnFailureRetry, OnFailureGiveUp, callerVars
<1>4. CASE UNCHANGED vars
  BY <1>4 DEF Flags, vars
<1> QED
  BY <1>1, <1>2, <1>3, <1>4 DEF Next

(* The other fields keep their types in every step of the three threads.    *)
LEMMA DataStep == Data /\ [Next]_vars => Data'
<1> SUFFICES ASSUME Data, [Next]_vars PROVE Data'
  OBVIOUS
<1> USE BoundsAssumption
<1>1. CASE Connect
  BY <1>1, PostFacts, TaskFacts DEF Data, Connect, AtHead, socketVars
<1>2. CASE SendMessage
  <2>1. sends + 1 \in 1 .. MaxSends
    BY <1>2 DEF Data, SendMessage
  <2>2. queue' \in Seq(Tasks) /\ (queue # <<>> => queue' # <<>> /\ Head(queue') = Head(queue))
    BY <1>2, <2>1, PostFacts, TaskFacts DEF Data, SendMessage
  <2> QED
    BY <1>2, <2>1, <2>2 DEF Data, SendMessage, AtHead, socketVars
<1>3. CASE Close
  <2>1. queue' \in Seq(Tasks) /\ (queue # <<>> => queue' # <<>> /\ Head(queue') = Head(queue))
    BY <1>3, PostFacts, TaskFacts DEF Data, Close
  <2> QED
    BY <1>3, <2>1 DEF Data, Close, AtHead, socketVars
<1>4. CASE RunConnect
  BY <1>4 DEF Data, RunConnect, newWebSocket, AtHead, callerVars, SocketStates
<1>5. CASE RunSendCheck
  <2>1. CASE mClosed
    <3>1. Tail(queue) \in Seq(Tasks)
      BY <1>5 DEF Data, RunSendCheck, AtHead
    <3> QED
      BY <1>5, <2>1, <3>1 DEF Data, RunSendCheck, AtHead, callerVars, socketVars
  <2>2. CASE ~mClosed
    BY <1>5, <2>2 DEF Data, RunSendCheck, AtHead, callerVars, socketVars
  <2> QED
    BY <2>1, <2>2
<1>6. CASE RunSend
  <2>1. queue # <<>> /\ Head(queue).msg \in 1 .. MaxSends /\ Tail(queue) \in Seq(Tasks)
    <3>1. queue # <<>> /\ Head(queue).run = "send"
      BY <1>6 DEF Data, RunSend, AtHead
    <3>2. Head(queue) \in Tasks /\ Tail(queue) \in Seq(Tasks)
      BY <3>1 DEF Data
    <3> QED
      BY <3>1, <3>2, TaskFacts
  <2>2. wire' \in Seq(1 .. MaxSends)
    <3>1. wire' = wire \/ wire' = Append(wire, Head(queue).msg)
      BY <1>6 DEF RunSend
    <3>2. wire \in Seq(1 .. MaxSends)
      BY DEF Data
    <3>3. \A m \in 1 .. MaxSends : Append(wire, m) \in Seq(1 .. MaxSends)
      BY <3>2, AppendProperties
    <3> QED
      BY <2>1, <3>1, <3>2, <3>3
  <2> QED
    BY <1>6, <2>1, <2>2, SendFacts DEF Data, RunSend, callerVars
<1>7. CASE RunClose
  <2>1. socks' \in Seq(SocketStates) /\ Len(socks') = Len(socks)
    BY <1>7, ShutFacts DEF Data
  <2> QED
    BY <1>7, <2>1 DEF Data, RunClose, AtHead
<1>8. CASE RunReconnect
  <2>1. CASE mClosed
    BY <1>8, <2>1 DEF Data, RunReconnect, AtHead, callerVars, socketVars
  <2>2. CASE ~mClosed
    <3>1. /\ socks' = Append(cancelAll(socks), "connecting")
          /\ callback' = Append(callback, "none")
      BY <1>8, <2>2 DEF RunReconnect, newWebSocket
    <3>2. /\ cancelAll(socks) \in Seq(SocketStates)
          /\ Len(cancelAll(socks)) = Len(socks)
      BY CancelAllFacts DEF Data
    <3>3. /\ socks' \in Seq(SocketStates) /\ Len(socks') = Len(socks) + 1
          /\ callback' \in Seq({"none", "onOpen", "reset", "onFailure"})
          /\ Len(callback') = Len(callback) + 1
      BY <3>1, <3>2 DEF Data, SocketStates
    <3> QED
      BY <1>8, <2>2, <3>3 DEF Data, RunReconnect, newWebSocket, AtHead, callerVars
  <2> QED
    BY <2>1, <2>2
<1>9. CASE RunRetried
  BY <1>9 DEF Data, RunRetried, AtHead, callerVars, socketVars
<1>10. ASSUME NEW a \in DOMAIN socks, SocketStep(a) PROVE Data'
  <2>1. /\ socks' \in Seq(SocketStates) /\ Len(socks') = Len(socks)
        /\ callback' \in Seq({"none", "onOpen", "reset", "onFailure"})
        /\ Len(callback') = Len(callback)
    <3>0. callback[a] = "none" => [callback EXCEPT ![a] = "none"] = callback
      BY <1>10 DEF Data
    <3>1. PICK x \in SocketStates, e \in {"none", "onOpen", "onFailure"} :
            /\ socks' = [socks EXCEPT ![a] = x]
            /\ callback' = [callback EXCEPT ![a] = e]
      BY <1>10, <3>0 DEF SocketStep, Accept, Break, ServerClose, ServerAnswer, Happens,
         SocketStates, Unanswered
    <3>2. /\ socks \in Seq(SocketStates) /\ a \in DOMAIN callback
          /\ callback \in Seq({"none", "onOpen", "reset", "onFailure"})
      BY <1>10 DEF Data
    <3> QED
      BY <1>10, <3>1, <3>2, ReplaceElement
  <2> QED
    BY SMTT(60), <1>10, <2>1
    DEF Data, SocketStep, Accept, Break, ServerClose, ServerAnswer, AtHead, callerVars, handlerVars
<1>11. ASSUME NEW a \in DOMAIN socks, CallbackStep(a) PROVE Data'
  <2>1. /\ callback' \in Seq({"none", "onOpen", "reset", "onFailure"})
        /\ Len(callback') = Len(callback)
    <3>1. PICK e \in {"none", "reset"} : callback' = [callback EXCEPT ![a] = e]
      BY <1>11
      DEF CallbackStep, OnOpen, OnOpenReset, OnFailureRetry, OnFailureGiveUp
    <3>2. /\ a \in DOMAIN callback
          /\ callback \in Seq({"none", "onOpen", "reset", "onFailure"})
      BY <1>11 DEF Data
    <3> QED
      BY <3>1, <3>2, ReplaceElement
  <2>2. socks' = socks /\ a \in 0 .. Len(socks)
    BY <1>11
    DEF Data, CallbackStep, OnOpen, OnOpenReset, OnFailureRetry, OnFailureGiveUp
  <2>3. calls' = calls \/ \E c \in Link!Callbacks : calls' = Append(calls, c)
    BY <1>11 DEF CallbackStep, OnOpen, OnOpenReset, OnFailureRetry,
       OnFailureGiveUp, Link!Callbacks
  <2>4. calls' \in Seq(Link!Callbacks)
    <3>1. calls \in Seq(Link!Callbacks)
      BY DEF Data
    <3> QED
      BY <2>3, <3>1, AppendProperties
  <2>5. retryCount' \in Nat /\ delayed' \in Nat /\ mWebSocket' \in 0 .. Len(socks)
    BY SMTT(60), <1>11, <2>2 DEF Data, CallbackStep, OnOpen, OnOpenReset, 
       OnFailureRetry, OnFailureGiveUp, handlerVars
  <2>6. UNCHANGED <<sends, queue, handler, wire, closer, tries>>
    BY <1>11 DEF CallbackStep, OnOpen, OnOpenReset, 
       OnFailureRetry, OnFailureGiveUp, handlerVars, callerVars
  <2> QED
    BY <2>1, <2>2, <2>4, <2>5, <2>6 DEF Data, AtHead
<1>12. CASE UNCHANGED vars
  BY <1>12 DEF Data, vars, AtHead
<1> QED
  BY <1>1, <1>2, <1>3, <1>4, <1>5, <1>6, <1>7, <1>8, <1>9, <1>10, <1>11, <1>12
  DEF Next, HandlerStep

(* Types hold in every behaviour of the transport. *)
THEOREM TypeCorrect == Spec => []TypeOK
<1>1. Init => Flags
  BY DEF Init, Flags
<1>2. Init => Data
  BY BoundsAssumption DEF Init, Data, AtHead
<1> QED
  BY <1>1, <1>2, FlagsStep, DataStep, PTL DEF Spec, TypeOK

-------------------------------------------------------------------------------
(* What an okhttp event does to the sockets. *)
LEMMA SocketStepFacts ==
  ASSUME Data, NEW a \in DOMAIN socks, SocketStep(a)
  PROVE  \E x \in SocketStates, e \in {"none", "onOpen", "onFailure"} :
           /\ Len(socks') = Len(socks) /\ DOMAIN socks' = DOMAIN socks
           /\ \A b \in DOMAIN socks : b # a => socks'[b] = socks[b] /\ callback'[b] = callback[b]
           /\ socks'[a] = x /\ callback'[a] = e
           /\ callback[a] = "none"
           /\ \/ socks[a] = "connecting" /\ x = "open" /\ e = "onOpen" /\ tries' = 0
              \/ socks[a] = "connecting" /\ x = "open" /\ e = "none" /\ tries' = 0 /\ mClosed
              \/ socks[a] \in Live /\ x = "failed" /\ e \in {"none", "onFailure"} /\ tries' = tries
              \/ socks[a] = "open" /\ x = "ending" /\ e = "none" /\ tries' = tries
              \/ socks[a] = "closing" /\ x = "closed" /\ e = "none" /\ tries' = tries
           /\ UNCHANGED <<mListener, mClosed, mWebSocket, queue, delayed, handler,
                          retryCount, sends, wire, closer>>
<1>0. callback[a] = "none" => [callback EXCEPT ![a] = "none"] = callback
  BY DEF Data
<1>1. PICK x \in SocketStates, e \in {"none", "onOpen", "onFailure"} :
        /\ socks' = [socks EXCEPT ![a] = x]
        /\ callback' = [callback EXCEPT ![a] = e]
        /\ callback[a] = "none"
        /\ \/ socks[a] = "connecting" /\ x = "open" /\ e = "onOpen" /\ tries' = 0
           \/ socks[a] = "connecting" /\ x = "open" /\ e = "none" /\ tries' = 0 /\ mClosed
           \/ socks[a] \in Live /\ x = "failed" /\ e \in {"none", "onFailure"} /\ tries' = tries
           \/ socks[a] = "open" /\ x = "ending" /\ e = "none" /\ tries' = tries
           \/ socks[a] = "closing" /\ x = "closed" /\ e = "none" /\ tries' = tries
  BY <1>0 DEF SocketStep, Accept, Break, ServerClose, ServerAnswer, Happens,
     SocketStates, Live, Running, Unanswered
<1>2. /\ socks \in Seq(SocketStates) /\ a \in DOMAIN callback
      /\ callback \in Seq({"none", "onOpen", "reset", "onFailure"})
      /\ Len(callback) = Len(socks)
  BY DEF Data
<1>3. /\ Len(socks') = Len(socks) /\ DOMAIN socks' = DOMAIN socks
      /\ \A b \in DOMAIN socks : b # a => socks'[b] = socks[b] /\ callback'[b] = callback[b]
      /\ socks'[a] = x /\ callback'[a] = e
  BY <1>1, <1>2
<1>4. UNCHANGED <<mListener, mClosed, mWebSocket, queue, delayed, handler,
                  retryCount, sends, wire, closer>>
  BY DEF SocketStep, Accept, Break, ServerClose, ServerAnswer, handlerVars, callerVars
<1> QED
  BY <1>1, <1>3, <1>4

(* mClosed is set before a socket is closed and is never cleared. *)
LEMMA MarkedStep == Data /\ Marked /\ [Next]_vars => Marked'
<1> SUFFICES ASSUME Data, Marked, [Next]_vars PROVE Marked'
  OBVIOUS
<1> USE BoundsAssumption
<1>q. /\ queue \in Seq(Tasks) /\ socks \in Seq(SocketStates)
      /\ mWebSocket \in 0 .. Len(socks)
  BY DEF Data
<1>1. CASE Connect \/ SendMessage \/ Close
  <2>1. \/ queue' = queue
        \/ mClosed' /\ \E t \in Tasks : queue' = Append(queue, t)
        \/ \E t \in Tasks : queue' = Append(queue, t) /\ t.run # "close"
    <3>1. CASE Connect
      BY <3>1, TaskFacts DEF Connect, Task
    <3>2. CASE SendMessage
      <4>1. sends + 1 \in 1 .. MaxSends
        BY <3>2 DEF Data, SendMessage
      <4>2. Task("send", sends + 1) \in Tasks /\ Task("send", sends + 1).run = "send"
        BY <4>1, TaskFacts DEF Task
      <4>3. queue' = Append(queue, Task("send", sends + 1))
        BY <3>2 DEF SendMessage
      <4> QED
        BY <4>2, <4>3
    <3>3. CASE Close
      BY <3>3, TaskFacts DEF Close
    <3> QED
      BY <1>1, <3>1, <3>2, <3>3
  <2>2. \A i \in DOMAIN queue' : queue'[i].run = "close" =>
           mClosed' \/ (i \in DOMAIN queue /\ queue'[i] = queue[i])
    BY <1>q, <2>1, PostFacts
  <2> QED
    BY <1>1, <2>2 DEF Marked, Connect, SendMessage, Close, socketVars
<1>2. CASE RunConnect \/ RunSendCheck \/ RunSend
  <2>1. queue' = queue \/ (queue # <<>> /\ queue' = Tail(queue))
    BY <1>2 DEF RunConnect, RunSendCheck, RunSend, AtHead, Data
  <2>2. \A i \in DOMAIN queue' : queue'[i].run = "close" => mClosed
    BY <1>q, <2>1 DEF Marked
  <2>3. \A a \in DOMAIN socks' : socks'[a] = "closing" => a \in DOMAIN socks /\ socks[a] = "closing"
    <3>1. CASE RunSend
      BY <1>q, <3>1, SendFacts
    <3>2. CASE RunConnect \/ RunSendCheck
      <4>1. socks' = socks \/ socks' = Append(socks, "connecting")
        BY <3>2 DEF RunConnect, newWebSocket, RunSendCheck, socketVars
      <4> QED
        BY <1>q, <4>1 DEF SocketStates
    <3> QED
      BY <1>2, <3>1, <3>2
  <2> QED
    BY <1>2, <2>2, <2>3 DEF Marked, RunConnect, RunSendCheck, RunSend
<1>3. CASE RunClose
  <2>1. mClosed /\ mClosed'
    BY <1>3, <1>q DEF RunClose, AtHead, Marked
  <2> QED
    BY <2>1 DEF Marked
<1>4. CASE RunReconnect
  <2>1. \A a \in DOMAIN socks' : socks'[a] = "closing" => a \in DOMAIN socks /\ socks[a] = "closing"
    <3>1. CASE mClosed
      BY <1>4, <3>1 DEF RunReconnect, socketVars
    <3>2. CASE ~mClosed
      <4>1. socks' = Append(cancelAll(socks), "connecting")
        BY <1>4, <3>2 DEF RunReconnect, newWebSocket
      <4>2. cancelAll(socks) \in Seq(SocketStates) /\ Len(cancelAll(socks)) = Len(socks)
        BY <1>q, CancelAllFacts
      <4>3. \A a \in DOMAIN socks : cancelAll(socks)[a] = "closing" => socks[a] = "closing"
        BY DEF cancelAll
      <4> QED
        BY <1>q, <4>1, <4>2, <4>3
    <3> QED
      BY <3>1, <3>2
  <2> QED
    BY <1>4, <2>1 DEF Marked, RunReconnect
<1>5. CASE RunRetried
  BY <1>5 DEF Marked, RunRetried, socketVars
<1>6. ASSUME NEW a \in DOMAIN socks, SocketStep(a) PROVE Marked'
  BY <1>6, SocketStepFacts DEF Marked
<1>7. ASSUME NEW a \in DOMAIN socks, CallbackStep(a) PROVE Marked'
  BY <1>7 DEF Marked, CallbackStep, OnOpen, OnOpenReset, OnFailureRetry,
     OnFailureGiveUp, handlerVars
<1>8. CASE UNCHANGED vars
  BY <1>8 DEF Marked, vars
<1> QED
  BY <1>1, <1>2, <1>3, <1>4, <1>5, <1>6, <1>7, <1>8 DEF Next, HandlerStep

(* The chain of connection attempts is never doubled. *)
LEMMA ChainStep == Data /\ Marked /\ Chain /\ [Next]_vars => Chain'
<1> SUFFICES ASSUME Data, Marked, Chain, [Next]_vars PROVE Chain'
  OBVIOUS
<1> USE BoundsAssumption
<1>q. /\ queue \in Seq(Tasks) /\ socks \in Seq(SocketStates)
      /\ callback \in Seq({"none", "onOpen", "reset", "onFailure"})
      /\ Len(callback) = Len(socks) /\ delayed \in Nat
      /\ mWebSocket \in 0 .. Len(socks)
  BY DEF Data
<1>1. CASE Connect
  <2>1. queue = <<>> /\ socks = <<>> /\ delayed = 0
    BY <1>1 DEF Chain, Connect
  <2>2. DOMAIN queue' = {1}
    BY <1>1, <2>1 DEF Connect
  <2> QED
    BY <1>1, <2>1, <2>2 DEF Chain, Connect, socketVars
<1>2. CASE SendMessage \/ Close
  <2>1. \/ queue' = queue
        \/ \E t \in Tasks : queue' = Append(queue, t) /\ t.run # "connect"
    BY <1>2, TaskFacts, <1>q DEF Data, SendMessage, Close, Task
  <2>2. \A i \in DOMAIN queue' :
           queue'[i].run = "connect" => i \in DOMAIN queue /\ queue'[i] = queue[i]
    BY <1>q, <2>1, PostFacts
  <2> QED
    BY <1>2, <2>2 DEF Chain, SendMessage, Close, socketVars, Finished
<1>3. CASE RunConnect
  <2>1. queue # <<>> /\ queue[1].run = "connect" /\ socks = <<>> /\ delayed = 0
    BY <1>3, <1>q DEF RunConnect, AtHead, Chain
  <2>2. \A i \in DOMAIN queue' : queue'[i].run # "connect"
    BY <1>3, <1>q, <2>1 DEF RunConnect, Chain
  <2>3. socks' = <<"connecting">> /\ callback' = <<"none">>
    BY <1>3, <1>q, <2>1 DEF RunConnect, newWebSocket
  <2> QED
    BY <1>3, <1>q, <2>1, <2>2, <2>3
    DEF RunConnect, newWebSocket, Chain, callerVars, Finished
<1>4. CASE RunSendCheck \/ RunSend
  <2>1. \/ queue' = queue
        \/ queue # <<>> /\ queue[1].run = "send" /\ queue' = Tail(queue)
    <3>1. CASE RunSendCheck
      BY <3>1, <1>q DEF RunSendCheck, AtHead
    <3>2. CASE RunSend
      BY <3>2, <1>q DEF RunSend, AtHead, Data
    <3> QED
      BY <1>4, <3>1, <3>2
  <2>2. \A i \in DOMAIN queue' : queue'[i].run # "connect" \/ queue' = queue
    <3>1. queue' = Tail(queue) /\ queue # <<>> =>
             \A i \in DOMAIN queue' :
                /\ i + 1 \in DOMAIN queue /\ i + 1 # 1 /\ queue'[i] = queue[i + 1]
      BY <1>q
    <3> QED
      BY <2>1, <3>1 DEF Chain
  <2>3. queue = <<>> => queue' = <<>>
    BY <2>1
  <2>4. handler' # "reconnecting" \/ handler' = handler
    BY <1>4 DEF RunSendCheck, RunSend
  <2>5. /\ Len(socks') = Len(socks) /\ DOMAIN socks' = DOMAIN socks
        /\ (socks = <<>>) = (socks' = <<>>)
        /\ \A a \in DOMAIN socks :
              socks'[a] = socks[a] \/ (socks[a] = "ending" /\ socks'[a] = "stale")
    BY <1>4, <1>q, SendFacts DEF RunSendCheck, socketVars
  <2>6. UNCHANGED <<mListener, mWebSocket, delayed, callback>>
    BY <1>4 DEF RunSendCheck, RunSend, callerVars, socketVars
  <2>7. \A a \in DOMAIN socks : Finished(a) => Finished(a)'
    BY <2>5, <2>6 DEF Finished, Live, Unanswered
  <2>8. socks # <<>> => Len(socks) \in DOMAIN socks
    BY <1>q
  <2> QED
    BY <2>2, <2>3, <2>4, <2>5, <2>6, <2>7, <2>8 DEF Chain
<1>5. CASE RunClose
  <2>1. \A i \in DOMAIN queue' : queue'[i].run # "connect"
    BY <1>5, <1>q DEF RunClose, AtHead, Chain
  <2>2. queue # <<>>
    BY <1>5 DEF RunClose, AtHead
  <2>3. /\ Len(socks') = Len(socks) /\ DOMAIN socks' = DOMAIN socks
        /\ (socks = <<>>) = (socks' = <<>>)
        /\ \A a \in DOMAIN socks :
              \/ socks'[a] = socks[a]
              \/ socks[a] = "open" /\ socks'[a] = "closing"
              \/ socks[a] \in Unanswered /\ socks'[a] = "closed"
    BY <1>5, <1>q, ShutFacts
  <2> QED
    BY <1>5, <1>q, <2>1, <2>2, <2>3 DEF RunClose, Chain, Finished, Live, Running, Unanswered
<1>6. CASE RunReconnect
  <2>1. delayed = 1 /\ socks # <<>> /\ \A a \in DOMAIN socks : Finished(a)
    BY <1>6, <1>q DEF RunReconnect, Chain
  <2>2. CASE mClosed
    BY <1>6, <2>1, <2>2 DEF RunReconnect, Chain, callerVars, socketVars, Finished
  <2>3. CASE ~mClosed
    <3>1. /\ Len(socks') = Len(socks) + 1 /\ Len(callback') = Len(socks) + 1
          /\ DOMAIN socks' = 1 .. Len(socks) + 1
          /\ \A a \in 1 .. Len(socks) : socks'[a] = socks[a] /\ callback'[a] = callback[a]
          /\ socks'[Len(socks) + 1] = "connecting" /\ callback'[Len(socks) + 1] = "none"
      <4>1. /\ socks' = Append(cancelAll(socks), "connecting")
            /\ callback' = Append(callback, "none")
        BY <1>6, <2>3 DEF RunReconnect, newWebSocket
      <4>2. /\ cancelAll(socks) \in Seq(SocketStates)
            /\ Len(cancelAll(socks)) = Len(socks)
            /\ \A a \in 1 .. Len(socks) : cancelAll(socks)[a] = socks[a]
        BY <1>q, <2>1, CancelAllFacts, SMTT(20) DEF Finished, Live
      <4> QED
        BY <1>q, <4>1, <4>2 DEF SocketStates
    <3>2. \A a \in 1 .. Len(socks) : Finished(a)'
      BY <1>q, <2>1, <3>1 DEF Finished
    <3>3. socks' # <<>>
      BY <3>1, <1>q
    <3>4. /\ delayed' = 0 /\ queue' = queue /\ mListener' = mListener
          /\ mWebSocket' = 0
      BY <1>6, <1>q, <2>1, <2>3 DEF RunReconnect, newWebSocket, callerVars
    <3>5. mListener /\ \A i \in DOMAIN queue : queue[i].run # "connect"
      BY <2>1 DEF Chain
    <3>6. \A a \in DOMAIN socks' : a # Len(socks') => Finished(a)'
      BY <1>q, <3>1, <3>2
    <3>7. \A a \in DOMAIN socks' :
             /\ callback'[a] \in {"onOpen", "reset"} => socks'[a] \in {"open", "closing"}
             /\ callback'[a] = "onFailure" => socks'[a] = "failed"
      <4> SUFFICES ASSUME NEW a \in DOMAIN socks'
                   PROVE  callback'[a] = "none"
        OBVIOUS
      <4>1. CASE a = Len(socks) + 1
        BY <3>1, <4>1
      <4>2. CASE a \in 1 .. Len(socks)
        BY <3>2, <4>2 DEF Finished
      <4> QED
        BY <1>q, <3>1, <4>1, <4>2
    <3> QED
      BY <3>3, <3>4, <3>5, <3>6, <3>7 DEF Chain
  <2> QED
    BY <2>2, <2>3
<1>7. CASE RunRetried
  BY <1>7 DEF RunRetried, Chain, callerVars, socketVars, Finished
<1>8. ASSUME NEW a \in DOMAIN socks, SocketStep(a) PROVE Chain'
  <2>1. PICK x \in SocketStates, e \in {"none", "onOpen", "onFailure"} :
          /\ Len(socks') = Len(socks) /\ DOMAIN socks' = DOMAIN socks
          /\ \A b \in DOMAIN socks : b # a => socks'[b] = socks[b] /\ callback'[b] = callback[b]
          /\ socks'[a] = x /\ callback'[a] = e
          /\ callback[a] = "none"
          /\ \/ socks[a] \in Live /\ e = "onOpen" /\ x = "open"
             \/ socks[a] \in Live /\ e = "onFailure" /\ x = "failed"
             \/ socks[a] \in Live /\ e = "none"
             \/ socks[a] \notin Live /\ x \notin Live /\ e = "none"
          /\ UNCHANGED <<mListener, mWebSocket, queue, delayed, handler>>
    BY <1>8, SocketStepFacts DEF Marked, Live, Running, Unanswered
  <2>2. socks # <<>> /\ socks' # <<>> /\ a \in 1 .. Len(socks)
    BY <1>8, <1>q, <2>1
  <2>3. socks[a] \in Live => a = Len(socks) /\ delayed = 0
    BY <1>8, <1>q, <2>2 DEF Chain, Finished
  <2>4. \A b \in DOMAIN socks : b # a /\ Finished(b) => Finished(b)'
    BY <2>1 DEF Finished
  <2>5. socks[a] \notin Live => Finished(a)'
    BY <2>1 DEF Finished, Live, Running
  <2>6. e \in {"onOpen", "reset"} => x \in {"open", "closing"}
    BY <2>1 DEF Live, Running
  <2>7. e = "onFailure" => x = "failed"
    BY <2>1 DEF Live, Running
  <2>8. Len(socks) \in DOMAIN socks
    BY <1>q, <2>2
  <2> QED
    BY <1>q, <2>1, <2>2, <2>3, <2>4, <2>5, <2>6, <2>7, <2>8 DEF Chain
<1>9. ASSUME NEW a \in DOMAIN socks, CallbackStep(a) PROVE Chain'
  <2>1. callback[a] # "none" /\ a = Len(socks) /\ delayed = 0 /\ socks # <<>>
    BY <1>9, <1>q DEF CallbackStep, OnOpen, OnOpenReset, OnFailureRetry,
       OnFailureGiveUp, Chain, Finished
  <2>2. PICK e \in {"none", "reset"} :
          /\ callback' = [callback EXCEPT ![a] = e]
          /\ e = "reset" => callback[a] = "onOpen" /\ delayed' = 0
          /\ delayed' # 0 => callback[a] = "onFailure" /\ delayed' = 1
          /\ mWebSocket' \in {mWebSocket, a}
    BY <1>9, <2>1 DEF CallbackStep, OnOpen, OnOpenReset, OnFailureRetry,
       OnFailureGiveUp, handlerVars
  <2>3. UNCHANGED <<mListener, socks, queue, handler>>
    BY <1>9 DEF CallbackStep, OnOpen, OnOpenReset, OnFailureRetry,
       OnFailureGiveUp, handlerVars, callerVars
  <2>4. /\ \A b \in DOMAIN socks : b # a => callback'[b] = callback[b]
        /\ callback'[a] = e
    BY <1>9, <1>q, <2>2
  <2> QED
    BY <1>9, <1>q, <2>1, <2>2, <2>3, <2>4
    DEF Chain, Finished, Live, Running, Unanswered
<1>10. CASE UNCHANGED vars
  BY <1>10 DEF Chain, vars, Finished
<1> QED
  BY <1>1, <1>2, <1>3, <1>4, <1>5, <1>6, <1>7, <1>8, <1>9, <1>10
  DEF Next, HandlerStep

-------------------------------------------------------------------------------
(* The attempts since the last accepted connection stay within the budget.  *)
LEMMA BudgetStep ==
  Data /\ Marked /\ Chain /\ Budget /\ [Next]_vars => Budget'
<1> SUFFICES ASSUME Data, Marked, Chain, Budget, [Next]_vars PROVE Budget'
  OBVIOUS
<1> USE RetriesAssumption
<1>q. /\ socks \in Seq(SocketStates) /\ Len(callback) = Len(socks)
      /\ callback \in Seq({"none", "onOpen", "reset", "onFailure"})
      /\ tries \in Nat /\ retryCount \in Nat /\ delayed \in Nat
      /\ queue \in Seq(Tasks) /\ mWebSocket \in 0 .. Len(socks)
      /\ Owed \in {0, 1}
  BY DEF Data, Owed
<1>1. CASE Connect \/ SendMessage \/ Close
  BY <1>1 DEF Budget, Connect, SendMessage, Close, socketVars, Owed
<1>2. CASE RunConnect
  <2>1. socks = <<>> /\ delayed = 0 /\ Owed = 0
    BY <1>2, <1>q DEF RunConnect, AtHead, Chain, Owed
  <2>2. socks' = <<"connecting">> /\ tries' = 1 /\ retryCount' = 1
    BY <1>2, <2>1, <1>q DEF RunConnect, newWebSocket, Budget
  <2>3. socks'[Len(socks')] = "connecting" /\ socks' # <<>>
    BY <2>2
  <2> QED
    BY <1>2, <1>q, <2>1, <2>2, <2>3 DEF RunConnect, Budget, Owed, Reached, Unanswered
<1>3. CASE RunSendCheck \/ RunSend
  <2>1. Owed' = Owed
    BY <1>3 DEF RunSendCheck, RunSend, Owed
  <2>2. /\ Len(socks') = Len(socks) /\ (socks = <<>>) = (socks' = <<>>)
        /\ socks # <<>> => \/ socks'[Len(socks)] = socks[Len(socks)]
                           \/ socks[Len(socks)] = "ending"
    BY <1>3, <1>q, SendFacts DEF RunSendCheck, socketVars
  <2> QED
    BY <1>3, <2>1, <2>2 DEF Budget, RunSendCheck, RunSend, Reached, Unanswered
<1>4. CASE RunClose
  <2>1. mClosed /\ mClosed'
    BY <1>4, <1>q DEF RunClose, AtHead, Marked
  <2>2. /\ Len(socks') = Len(socks) /\ (socks' = <<>>) = (socks = <<>>)
        /\ socks # <<>> => \/ socks'[Len(socks)] = socks[Len(socks)]
                           \/ socks[Len(socks)] \in Reached
    BY <1>4, <1>q, ShutFacts DEF Reached
  <2> QED
    BY <1>4, <2>1, <2>2 DEF Budget, RunClose
<1>5. CASE RunReconnect
  <2>1. delayed # 0 /\ socks # <<>>
    BY <1>5, <1>q DEF RunReconnect, Chain
  <2>2. CASE mClosed
    BY <1>5, <2>1, <2>2 DEF Budget, RunReconnect, socketVars, Owed
  <2>3. CASE ~mClosed
    <3>1. /\ tries' = tries + 1 /\ Owed = 0 /\ Owed' = 1 /\ retryCount' = retryCount
          /\ mClosed' = mClosed
          /\ socks' = Append(cancelAll(socks), "connecting")
      BY <1>5, <2>3 DEF RunReconnect, newWebSocket, Owed
    <3>2. socks' # <<>> /\ socks'[Len(socks')] = "connecting"
      BY <1>q, <3>1, CancelAllFacts DEF SocketStates
    <3>3. delayed' = 0
      BY <1>5, <1>q, <2>1 DEF RunReconnect, Chain
    <3>4. tries <= retryCount /\ tries <= Retries + 1
      BY <1>q, <2>1, <2>3, <3>1 DEF Budget
    <3> QED
      BY <1>q, <3>1, <3>2, <3>3, <3>4 DEF Budget, Reached, Unanswered
  <2> QED
    BY <2>2, <2>3
<1>6. CASE RunRetried
  <2>1. Owed = 1 /\ Owed' = 0 /\ retryCount' = retryCount + 1 /\ socks # <<>>
    BY <1>6 DEF RunRetried, Owed, Chain
  <2> QED
    BY <1>6, <1>q, <2>1 DEF Budget, RunRetried, socketVars
<1>7. ASSUME NEW a \in DOMAIN socks, SocketStep(a) PROVE Budget'
  <2>1. /\ Len(socks') = Len(socks) /\ socks # <<>> /\ socks' # <<>>
        /\ tries' \in {0, tries}
        /\ tries' = 0 \/ a # Len(socks) \/ socks'[a] = "failed" \/
           socks[a] \in Reached
        /\ \A b \in DOMAIN socks : b # a => socks'[b] = socks[b]
        /\ UNCHANGED <<mClosed, delayed, handler, retryCount>>
    BY <1>7, <1>q, SocketStepFacts DEF Reached
  <2> QED
    BY <1>7, <1>q, <2>1 DEF Budget, Owed, Reached, Unanswered
<1>8. ASSUME NEW a \in DOMAIN socks, CallbackStep(a) PROVE Budget'
  <2>1. a = Len(socks) /\ socks # <<>>
    BY <1>8, <1>q DEF CallbackStep, OnOpen, OnOpenReset, OnFailureRetry,
       OnFailureGiveUp, Chain, Finished
  <2>2. UNCHANGED <<socks, tries, handler>>
    BY <1>8 DEF CallbackStep, OnOpen, OnOpenReset, OnFailureRetry,
       OnFailureGiveUp, handlerVars
  <2>3. CASE OnOpen(a)
    BY <2>1, <2>2, <2>3 DEF OnOpen, Budget, Owed, handlerVars
  <2>4. CASE OnOpenReset(a)
    <3>1. tries = 0
      BY <1>8, <2>1, <2>4 DEF OnOpenReset, Chain, Budget, Reached
    <3> QED
      BY <1>q, <2>1, <2>2, <2>4, <3>1 DEF OnOpenReset, Budget, Owed, handlerVars
  <2>5. CASE OnFailureRetry(a)
    <3>1. retryCount <= Retries /\ retryCount' = retryCount /\ mClosed' = mClosed
      BY <2>5 DEF OnFailureRetry, MayRetry
    <3> QED
      BY <1>q, <2>1, <2>2, <3>1 DEF Budget, Owed
  <2>6. CASE OnFailureGiveUp(a)
    BY <1>q, <2>1, <2>2, <2>6 DEF OnFailureGiveUp, Budget, handlerVars
  <2> QED
    BY <1>8, <2>3, <2>4, <2>5, <2>6 DEF CallbackStep
<1>9. CASE UNCHANGED vars
  BY <1>9 DEF Budget, vars, Owed
<1> QED
  BY <1>1, <1>2, <1>3, <1>4, <1>5, <1>6, <1>7, <1>8, <1>9 DEF Next, HandlerStep

-------------------------------------------------------------------------------
(* Queued and written messages stay in the order of the calls. *)
LEMMA OrderedStep == Data /\ Ordered /\ [Next]_vars => Ordered'
<1> SUFFICES ASSUME Data, Ordered, [Next]_vars PROVE Ordered'
  OBVIOUS
<1> USE BoundsAssumption
<1>q. /\ queue \in Seq(Tasks) /\ wire \in Seq(1 .. MaxSends)
      /\ sends \in Nat
      /\ \A i \in DOMAIN queue : IsSend(i) => queue[i].msg \in 1 .. MaxSends
  BY TaskFacts DEF Data, IsSend
<1>1. CASE SendMessage
  <2>1. /\ queue' = Append(queue, Task("send", sends + 1))
        /\ sends' = sends + 1 /\ wire' = wire
        /\ Task("send", sends + 1) \in Tasks
    BY <1>1, TaskFacts DEF SendMessage, Data
  <2>2. /\ Len(queue') = Len(queue) + 1 /\ queue' \in Seq(Tasks)
        /\ \A i \in 1 .. Len(queue) : queue'[i] = queue[i]
        /\ queue'[Len(queue) + 1].msg = sends + 1
    <3>1. Task("send", sends + 1).msg = sends + 1
      BY DEF Task
    <3> QED
      BY <1>q, <2>1, <3>1, PostFacts
  <2>3. \A i \in DOMAIN queue' :
           \/ i \in DOMAIN queue /\ queue'[i] = queue[i] /\ i < Len(queue) + 1
           \/ i = Len(queue) + 1 /\ queue'[i].msg = sends + 1
    <3>1. DOMAIN queue' = 1 .. Len(queue) + 1 /\ DOMAIN queue = 1 .. Len(queue)
          /\ Len(queue) \in Nat
      BY <1>q, <2>2
    <3> QED
      BY <2>2, <3>1
  <2>4. \A i \in DOMAIN queue : i \in 1 .. Len(queue)
    BY <1>q
  <2>5. \A i \in DOMAIN queue' : IsSend(i)' => queue'[i].msg <= sends'
    BY <1>q, <2>1, <2>3 DEF Ordered, IsSend
  <2>6. \A i, j \in DOMAIN queue' :
           i < j /\ IsSend(i)' /\ IsSend(j)' => queue'[i].msg < queue'[j].msg
    <3> SUFFICES ASSUME NEW i \in DOMAIN queue', NEW j \in DOMAIN queue', i < j,
                        IsSend(i)', IsSend(j)'
                 PROVE  queue'[i].msg < queue'[j].msg
      OBVIOUS
    <3>1. i \in DOMAIN queue /\ queue'[i] = queue[i] /\ IsSend(i)
      <4>1. i # Len(queue) + 1
        BY <1>q, <2>3, <2>4
      <4> QED
        BY <2>3, <4>1 DEF IsSend
    <3>2. CASE j \in DOMAIN queue /\ queue'[j] = queue[j]
      BY <3>1, <3>2 DEF Ordered, IsSend
    <3>3. CASE j = Len(queue) + 1 /\ queue'[j].msg = sends + 1
      BY <1>q, <3>1, <3>3 DEF Ordered
    <3> QED
      BY <2>3, <3>2, <3>3
  <2>7. \A k \in DOMAIN wire' : wire'[k] <= sends'
    BY <1>q, <2>1 DEF Ordered
  <2>8. \A k \in DOMAIN wire', i \in DOMAIN queue' : IsSend(i)' => wire'[k] < queue'[i].msg
    <3> SUFFICES ASSUME NEW k \in DOMAIN wire, NEW i \in DOMAIN queue', IsSend(i)'
                 PROVE  wire[k] < queue'[i].msg
      BY <2>1
    <3>1. CASE i \in DOMAIN queue /\ queue'[i] = queue[i]
      BY <3>1 DEF Ordered, IsSend
    <3>2. CASE i = Len(queue) + 1 /\ queue'[i].msg = sends + 1
      <4>1. wire[k] <= sends /\ wire[k] \in Nat
        BY <1>q DEF Ordered
      <4> QED
        BY <1>q, <3>2, <4>1
    <3> QED
      BY <2>3, <3>1, <3>2
  <2>9. \A i, j \in DOMAIN wire' : i < j => wire'[i] < wire'[j]
    BY <2>1 DEF Ordered
  <2> QED
    BY <2>5, <2>6, <2>7, <2>8, <2>9 DEF Ordered
<1>2. CASE Connect \/ Close
  <2>1. \/ queue' = queue
        \/ \E t \in Tasks : queue' = Append(queue, t) /\ t.run # "send"
    BY <1>2, TaskFacts DEF Connect, Close, Task
  <2>2. \A i \in DOMAIN queue' :
           IsSend(i)' => i \in DOMAIN queue /\ queue'[i] = queue[i]
    <3>1. CASE queue' = queue
      BY <3>1 DEF IsSend
    <3>2. ASSUME NEW t \in Tasks, queue' = Append(queue, t), t.run # "send"
          PROVE  \A i \in DOMAIN queue' :
                    queue'[i].run = "send" => i \in DOMAIN queue /\ queue'[i] = queue[i]
      BY <1>q, <3>2, PostFacts
    <3> QED
      BY <2>1, <3>1, <3>2 DEF IsSend
  <2>3. UNCHANGED <<sends, wire>>
    BY <1>2 DEF Connect, Close
  <2> QED
    BY <2>2, <2>3 DEF Ordered, IsSend
<1>3. CASE RunConnect \/ RunSendCheck \/ RunClose
  <2>1. queue' = queue \/ (queue # <<>> /\ queue' = Tail(queue))
    BY <1>3 DEF RunConnect, RunSendCheck, RunClose, AtHead
  <2>2. UNCHANGED <<sends, wire>>
    BY <1>3 DEF RunConnect, RunSendCheck, RunClose, callerVars
  <2> QED
    <3>1. CASE queue' = queue
      BY <2>2, <3>1 DEF Ordered, IsSend
    <3>2. CASE queue # <<>> /\ queue' = Tail(queue)
      <4>1. \A i \in DOMAIN queue' : i \in Nat /\ i + 1 \in DOMAIN queue /\ queue'[i] = queue[i + 1]
        BY <1>q, <3>2
      <4>2. \A i \in DOMAIN queue' : IsSend(i)' => IsSend(i + 1)
        BY <4>1 DEF IsSend
      <4> QED
        BY <2>2, <4>1, <4>2 DEF Ordered
    <3> QED
      BY <2>1, <3>1, <3>2
<1>4. CASE RunSend
  <2>1. queue # <<>> /\ 1 \in DOMAIN queue /\ IsSend(1) /\ Head(queue) = queue[1]
    BY <1>4, <1>q DEF RunSend, Data, AtHead, IsSend
  <2>2. queue' = Tail(queue) /\ sends' = sends
        /\ (wire' = wire \/ wire' = Append(wire, queue[1].msg))
    BY <1>4, <2>1 DEF RunSend, callerVars
  <2>3. /\ Len(queue') = Len(queue) - 1 /\ DOMAIN queue' = 1 .. Len(queue) - 1
        /\ \A i \in DOMAIN queue' : i + 1 \in DOMAIN queue /\ queue'[i] = queue[i + 1]
    BY <1>q, <2>1, <2>2
  <2>4. \A k \in DOMAIN wire' :
           \/ k \in DOMAIN wire /\ wire'[k] = wire[k]
           \/ k = Len(wire) + 1 /\ wire'[k] = queue[1].msg
    <3>1. CASE wire' = wire
      BY <3>1
    <3>2. CASE wire' = Append(wire, queue[1].msg)
      <4>1. queue[1].msg \in 1 .. MaxSends
        BY <1>q, <2>1
      <4> QED
        BY <1>q, <3>2, <4>1, AppendProperties
    <3> QED
      BY <2>2, <3>1, <3>2
  <2>5. \A i \in DOMAIN queue' : IsSend(i)' => IsSend(i + 1)
    BY <2>3 DEF IsSend
  <2>6. DOMAIN wire = 1 .. Len(wire)
    BY <1>q
  <2>7. /\ \A i \in DOMAIN queue' : IsSend(i)' => queue'[i].msg <= sends'
        /\ \A i, j \in DOMAIN queue' :
              i < j /\ IsSend(i)' /\ IsSend(j)' => queue'[i].msg < queue'[j].msg
    BY <1>q, <2>2, <2>3, <2>5 DEF Ordered
  <2>8. \A k \in DOMAIN wire' : wire'[k] <= sends'
    BY <1>q, <2>1, <2>2, <2>4 DEF Ordered
  <2>9. \A k \in DOMAIN wire', i \in DOMAIN queue' : IsSend(i)' => wire'[k] < queue'[i].msg
    <3> SUFFICES ASSUME NEW k \in DOMAIN wire', NEW i \in DOMAIN queue', IsSend(i)'
                 PROVE  wire'[k] < queue'[i].msg
      OBVIOUS
    <3>1. /\ i + 1 \in DOMAIN queue /\ IsSend(i + 1) /\ queue'[i] = queue[i + 1]
          /\ 1 < i + 1
      BY <2>3, <2>5, <1>q
    <3> QED
      BY <1>q, <2>1, <2>4, <3>1 DEF Ordered
  <2>10. \A i, j \in DOMAIN wire' : i < j => wire'[i] < wire'[j]
    BY <1>q, <2>1, <2>4, <2>6 DEF Ordered
  <2> QED
    BY <2>7, <2>8, <2>9, <2>10 DEF Ordered
<1>5. CASE RunReconnect \/ RunRetried
  BY <1>5 DEF Ordered, IsSend, RunReconnect, RunRetried, callerVars
<1>6. ASSUME NEW a \in DOMAIN socks, SocketStep(a) PROVE Ordered'
  BY <1>6, SocketStepFacts DEF Ordered, IsSend
<1>7. ASSUME NEW a \in DOMAIN socks, CallbackStep(a) PROVE Ordered'
  BY <1>7 DEF Ordered, IsSend, CallbackStep, OnOpen, OnOpenReset, 
     OnFailureRetry, OnFailureGiveUp, handlerVars, callerVars
<1>8. CASE UNCHANGED vars
  BY <1>8 DEF Ordered, IsSend, vars
<1> QED
  BY <1>1, <1>2, <1>3, <1>4, <1>5, <1>6, <1>7, <1>8 DEF Next, HandlerStep

-------------------------------------------------------------------------------
(* A transport that has closed writes nothing once close() has returned.    *)
LEMMA QuietStep ==
  Data /\ Marked /\ Chain /\ Quiet /\ [Next]_vars => Quiet'
<1> SUFFICES ASSUME Data, Marked, Chain, Quiet, [Next]_vars PROVE Quiet'
  OBVIOUS
<1>q. /\ socks \in Seq(SocketStates) /\ Len(callback) = Len(socks)
      /\ mWebSocket \in 0 .. Len(socks) /\ queue \in Seq(Tasks)
      /\ closer \in {"none", "waiting", "returned"}
  BY DEF Data
<1>1. CASE Connect
  BY <1>1 DEF Connect, Quiet, socketVars, AllGone
<1>2. CASE SendMessage
  BY <1>2 DEF SendMessage, Quiet, socketVars, AllGone
<1>3. CASE Close
  <2>1. CASE mClosed
    BY <1>3, <2>1 DEF Close, Quiet, socketVars, AllGone
  <2>2. CASE ~mClosed
    BY <1>3, <2>2 DEF Close, Quiet, socketVars, AllGone
  <2> QED
    BY <2>1, <2>2
<1>4. CASE RunConnect
  <2>1. socks = <<>> /\ queue # <<>> /\ 1 \in DOMAIN queue
    BY <1>4, <1>q DEF RunConnect, AtHead, Chain
  <2> QED
    BY <1>4, <2>1 DEF RunConnect, Quiet, callerVars, AllGone
<1>5. CASE RunSendCheck
  BY <1>5 DEF RunSendCheck, Quiet, callerVars, socketVars, AllGone
<1>6. CASE RunSend
  <2>1. AllGone => AllGone'
    BY <1>6, <1>q, SendFacts DEF AllGone
  <2> QED
    BY <1>6, <2>1 DEF RunSend, Quiet, callerVars
<1>7. CASE RunClose
  <2>1. mClosed /\ mClosed'
    BY <1>7, <1>q DEF RunClose, AtHead, Marked
  <2> QED
    BY <1>7, <2>1 DEF RunClose, Quiet
<1>8. CASE RunReconnect
  <2>1. CASE mClosed
    BY <1>8, <2>1 DEF RunReconnect, Quiet, callerVars, socketVars, AllGone
  <2>2. CASE ~mClosed
    BY <1>8, <2>2 DEF RunReconnect, Quiet, callerVars
  <2> QED
    BY <2>1, <2>2
<1>9. CASE RunRetried
  BY <1>9 DEF RunRetried, Quiet, callerVars, socketVars, AllGone
<1>10. ASSUME NEW a \in DOMAIN socks, SocketStep(a) PROVE Quiet'
  <2>1. /\ UNCHANGED <<mClosed, closer, handler>>
        /\ AllGone => FALSE
    BY <1>10, SocketStepFacts DEF AllGone, Live, Running, Unanswered
  <2> QED
    BY <2>1 DEF Quiet
<1>11. ASSUME NEW a \in DOMAIN socks, CallbackStep(a) PROVE Quiet'
  <2>1. /\ UNCHANGED <<closer, handler, socks>>
        /\ callback[a] # "none"
        /\ mClosed => mClosed'
        /\ mClosed' # mClosed => callback[a] = "onFailure"
    BY <1>11 DEF CallbackStep, OnOpen, OnOpenReset, OnFailureRetry,
       OnFailureGiveUp, handlerVars, callerVars
  <2>2. a = Len(socks) /\ socks # <<>>
    BY <1>11, <1>q, <2>1 DEF Chain, Finished
  <2>3. ~mClosed /\ callback[a] = "onFailure" => AllGone
    BY <1>11, <1>q, <2>2 DEF Chain, Finished, Marked, AllGone, Live, Running, Unanswered, SocketStates
  <2>4. AllGone' = AllGone
    BY <2>1 DEF AllGone
  <2>5. closer # "none" => mClosed'
    BY <2>1 DEF Quiet
  <2>6. mClosed' /\ closer = "none" => AllGone
    <3>1. CASE mClosed
      BY <3>1 DEF Quiet
    <3>2. CASE ~mClosed
      BY <2>1, <2>3, <3>2
    <3> QED
      BY <3>1, <3>2
  <2> QED
    BY <2>1, <2>4, <2>5, <2>6 DEF Quiet
<1>12. CASE UNCHANGED vars
  BY <1>12 DEF Quiet, vars, AllGone
<1> QED
  BY <1>1, <1>2, <1>3, <1>4, <1>5, <1>6, <1>7, <1>8, <1>9, <1>10, <1>11, <1>12
  DEF Next, HandlerStep

-------------------------------------------------------------------------------
IndInv == Data /\ Marked /\ Chain /\ Budget /\ Ordered /\ Quiet

(* The layers together are an invariant of the transport. *)
LEMMA IndInvAlways == Spec => []IndInv
<1>1. Init => IndInv
  <2> SUFFICES ASSUME Init PROVE IndInv
    OBVIOUS
  <2>1. Data
    BY BoundsAssumption DEF Init, Data, AtHead
  <2>2. socks = <<>> /\ queue = <<>> /\ callback = <<>> /\ wire = <<>>
    BY DEF Init
  <2>3. Marked /\ Chain
    BY <2>2 DEF Init, Marked, Chain
  <2>4. Budget
    BY <2>2, RetriesAssumption DEF Init, Budget, Owed
  <2>5. Ordered
    BY <2>2 DEF Ordered
  <2>6. Quiet
    BY DEF Init, Quiet
  <2> QED
    BY <2>1, <2>3, <2>4, <2>5, <2>6 DEF IndInv
<1>2. IndInv /\ [Next]_vars => IndInv'
  BY DataStep, MarkedStep, ChainStep, BudgetStep, OrderedStep, QuietStep DEF IndInv
<1> QED
  BY <1>1, <1>2, PTL DEF Spec

(* The client never has two live connections, and mWebSocket never refers   *)
(* to one that has been replaced, whatever fails and however often: the     *)
(* onFailure / scheduleReconnect / newWebSocket cycle of the transport.     *)
THEOREM SingleConnection == Spec => []OneConnection
<1>1. IndInv => OneConnection
  BY DEF IndInv, Chain, Finished, OneConnection, CurrentSocket
<1> QED
  BY <1>1, IndInvAlways, PTL

(* RetryStrategy bounds the attempts between two accepted connections by    *)
(* Retries + 2, whatever the race between retried() and the callbacks.      *)
THEOREM RetriesBounded == Spec => []RetryBound
<1>1. IndInv => RetryBound
  BY DEF IndInv, Budget, RetryBound
<1> QED
  BY <1>1, IndInvAlways, PTL

(* sendMessage() keeps the order of its calls and duplicates nothing.       *)
THEOREM MessagesInOrder == Spec => []InOrder
<1>1. IndInv => InOrder
  BY DEF IndInv, Ordered, InOrder
<1> QED
  BY <1>1, IndInvAlways, PTL

(* After close() has returned no message is handed to a socket, even if a   *)
(* send task had passed its mClosed check before.                           *)
THEOREM NothingAfterClose == Spec => SilentAfterClose
<1>1. IndInv /\ [Next]_vars => [closer = "returned" => wire' = wire]_vars
  <2> SUFFICES ASSUME IndInv, Next, closer = "returned" PROVE wire' = wire
    BY DEF vars
  <2>1. CASE RunSend
    <3>1. AllGone /\ mWebSocket \in {0, Len(socks)}
      BY <2>1 DEF RunSend, IndInv, Quiet, Chain
    <3>2. socks \in Seq(SocketStates)
      BY DEF IndInv, Data
    <3>3. ~Writable
      BY <3>1, <3>2 DEF AllGone, Writable, Unanswered
    <3> QED
      BY <2>1, <3>3 DEF RunSend
  <2>2. CASE ~RunSend
    BY <2>2 DEF Next, HandlerStep, Connect, SendMessage, Close, RunConnect,
       RunSendCheck, RunClose, RunReconnect, RunRetried, SocketStep, Accept, Break,
       ServerClose, ServerAnswer, CallbackStep, OnOpen, OnOpenReset, OnFailureRetry,
       OnFailureGiveUp
  <2> QED
    BY <2>1, <2>2
<1> QED
  BY <1>1, IndInvAlways, PTL DEF Spec, SilentAfterClose

-------------------------------------------------------------------------------
(* The refinement of SignalLink.  What the listener was told last agrees    *)
(* with the sockets: after onClose no callback is left to run, after onOpen *)
(* no second one is on its way, and mConnected tells whether there was one. *)
LastCall == IF calls = <<>> THEN "none" ELSE calls[Len(calls)]
EverOpened == \E i \in DOMAIN calls : calls[i] = "onOpen"

Listened ==
  /\ LastCall = "onClose" => mClosed /\ \A a \in DOMAIN socks : callback[a] = "none"
  /\ LastCall = "onOpen" => /\ socks # <<>> /\ socks[Len(socks)] # "connecting"
                            /\ delayed = 0
                            /\ \A a \in DOMAIN socks : callback[a] # "onOpen"
  /\ LastCall # "onClose" => (mConnected <=> EverOpened)

(* A callback given to the listener becomes its last one.                   *)
LEMMA CallFacts ==
  ASSUME Data, NEW c \in Link!Callbacks, calls' = Append(calls, c)
  PROVE  LastCall' = c /\ (EverOpened' <=> EverOpened \/ c = "onOpen")
<1>1. calls \in Seq(Link!Callbacks)
  BY DEF Data
<1>2. /\ Len(calls') = Len(calls) + 1 /\ calls' # <<>> /\ Len(calls) \in Nat
      /\ calls'[Len(calls) + 1] = c
      /\ \A i \in 1 .. Len(calls) : calls'[i] = calls[i]
      /\ DOMAIN calls = 1 .. Len(calls) /\ DOMAIN calls' = 1 .. Len(calls) + 1
  BY <1>1, AppendProperties
<1>3. LastCall' = c
  BY <1>2 DEF LastCall
<1>4. \A i \in 1 .. Len(calls) + 1 : i \in 1 .. Len(calls) \/ i = Len(calls) + 1
  BY <1>2
<1>5. \A i \in 1 .. Len(calls) : i \in 1 .. Len(calls) + 1
  BY <1>2
<1>6. Len(calls) + 1 \in 1 .. Len(calls) + 1
  BY <1>2
<1>7. EverOpened' => EverOpened \/ c = "onOpen"
  BY <1>2, <1>4 DEF EverOpened
<1>8. EverOpened \/ c = "onOpen" => EverOpened'
  BY <1>2, <1>5, <1>6 DEF EverOpened
<1> QED
  BY <1>3, <1>7, <1>8

(* Only the last socket has a callback to run, and what the callback tells  *)
(* the listener.                                                            *)
LEMMA CallbackFacts ==
  ASSUME Data, Chain, Listened, NEW a \in DOMAIN socks, CallbackStep(a)
  PROVE  /\ a = Len(socks) /\ socks # <<>> /\ socks' = socks
         /\ LastCall # "onClose"
         /\ \/ OnOpenReset(a) /\ UNCHANGED <<calls, mConnected, mClosed, delayed>>
            \/ OnOpen(a) /\ calls' = Append(calls, "onOpen") /\ LastCall # "onOpen"
            \/ OnFailureRetry(a) /\ mConnected /\ calls' = Append(calls, "onDisconnected")
            \/ OnFailureRetry(a) /\ ~mConnected /\ calls' = Append(calls, "onFail")
            \/ OnFailureGiveUp(a) /\ calls' = Append(calls, "onClose")
<1>1. callback[a] # "none" /\ socks' = socks
  BY DEF CallbackStep, OnOpen, OnOpenReset, OnFailureRetry, OnFailureGiveUp
<1>2. a = Len(socks) /\ socks # <<>>
  BY <1>1 DEF Data, Chain, Finished
<1>3. LastCall # "onClose"
  BY <1>1 DEF Listened
<1>4. OnOpen(a) => LastCall # "onOpen"
  BY DEF Listened, OnOpen
<1>5. OnFailureRetry(a) => calls' = Append(calls, IF mConnected THEN "onDisconnected" ELSE "onFail")
  BY DEF OnFailureRetry
<1>6. OnOpenReset(a) => UNCHANGED <<calls, mConnected, mClosed, delayed>>
  BY DEF OnOpenReset, handlerVars
<1>7. /\ OnOpen(a) => calls' = Append(calls, "onOpen")
      /\ OnFailureGiveUp(a) => calls' = Append(calls, "onClose")
  BY DEF OnOpen, OnFailureGiveUp
<1> QED
  BY <1>1, <1>2, <1>3, <1>4, <1>5, <1>6, <1>7 DEF CallbackStep

(* The listener's view stays in agreement with the sockets.                 *)
LEMMA ListenedStep == Data /\ Chain /\ Listened /\ [Next]_vars => Listened'
<1> SUFFICES ASSUME Data, Chain, Listened, [Next]_vars PROVE Listened'
  OBVIOUS
<1>q. /\ socks \in Seq(SocketStates) /\ Len(callback) = Len(socks) /\ delayed \in Nat
      /\ callback \in Seq({"none", "onOpen", "reset", "onFailure"})
  BY DEF Data
<1>s. UNCHANGED calls => UNCHANGED <<LastCall, EverOpened>>
  BY DEF LastCall, EverOpened
<1>1. CASE Connect \/ SendMessage \/ Close
  BY <1>1, <1>s DEF Connect, SendMessage, Close, socketVars, Listened
<1>2. CASE RunSendCheck \/ RunRetried
  BY <1>2, <1>s DEF RunSendCheck, RunRetried, socketVars, callerVars, Listened
<1>9. CASE RunSend
  <2>1. UNCHANGED <<calls, callback, mClosed, mConnected, delayed>>
    BY <1>9 DEF RunSend
  <2>2. socks # <<>> => Len(socks) \in DOMAIN socks
    BY <1>q
  <2>3. /\ DOMAIN socks' = DOMAIN socks /\ Len(socks') = Len(socks)
        /\ \A a \in DOMAIN socks : socks'[a] \in {socks[a], "stale"}
        /\ socks # <<>> => socks' # <<>>
    BY <1>9, <1>q, SendFacts DEF Data
  <2> QED
    BY <1>s, <2>1, <2>2, <2>3 DEF Listened
<1>3. CASE RunConnect
  <2>1. socks = <<>> /\ delayed = 0
    BY <1>3 DEF RunConnect, AtHead, Chain, Data
  <2>2. LastCall # "onOpen" /\ callback = <<>>
    BY <2>1, <1>q DEF Listened
  <2>3. /\ Len(callback') = 1 /\ Len(socks') = 1 /\ callback'[1] = "none"
        /\ DOMAIN socks' = 1 .. 1 /\ UNCHANGED <<calls, mClosed, mConnected>>
    BY <1>3, <2>1, <2>2 DEF RunConnect, newWebSocket
  <2> QED
    BY <1>s, <2>2, <2>3 DEF Listened
<1>4. CASE RunClose
  <2>1. /\ DOMAIN socks' = DOMAIN socks /\ Len(socks') = Len(socks)
        /\ \A a \in DOMAIN socks : socks'[a] \in {socks[a], "closing", "closed"}
        /\ socks # <<>> => socks' # <<>>
    BY <1>4, <1>q, ShutFacts DEF Data
  <2>2. UNCHANGED <<calls, callback, mClosed, mConnected, delayed>>
    BY <1>4 DEF RunClose
  <2>3. socks # <<>> => Len(socks) \in DOMAIN socks
    BY <1>q
  <2> QED
    BY <1>s, <2>1, <2>2, <2>3 DEF Listened
<1>5. CASE RunReconnect
  <2>1. LastCall # "onOpen" /\ UNCHANGED <<calls, mClosed, mConnected>>
    BY <1>5, <1>q DEF RunReconnect, Listened
  <2>2. CASE mClosed
    BY <1>5, <1>s, <2>1, <2>2 DEF RunReconnect, Listened, socketVars
  <2>3. CASE ~mClosed
    BY <1>s, <2>1, <2>3 DEF Listened
  <2> QED
    BY <2>2, <2>3
<1>6. ASSUME NEW a \in DOMAIN socks, SocketStep(a) PROVE Listened'
  <2>0. UNCHANGED <<calls, mConnected>>
    BY <1>6 DEF SocketStep, Accept, Break, ServerClose, ServerAnswer
  <2>1. PICK x \in SocketStates, e \in {"none", "onOpen", "onFailure"} :
           /\ Len(socks') = Len(socks) /\ DOMAIN socks' = DOMAIN socks
           /\ \A b \in DOMAIN socks : b # a => socks'[b] = socks[b] /\ callback'[b] = callback[b]
           /\ socks'[a] = x /\ callback'[a] = e
           /\ e = "onOpen" => socks[a] = "connecting"
           /\ x # "connecting"
           /\ UNCHANGED <<mClosed, delayed>>
    BY <1>6, SocketStepFacts
  <2>2. mClosed => callback'[a] = "none"
    <3>0. callback[a] = "none" => [callback EXCEPT ![a] = "none"] = callback
      BY <1>6, <1>q
    <3>1. mClosed => callback' = [callback EXCEPT ![a] = "none"]
      BY <1>6, <3>0 DEF SocketStep, Accept, Break, ServerClose, ServerAnswer, Happens
    <3>2. a \in DOMAIN callback
      BY <1>6, <1>q
    <3> QED
      BY <3>1, <3>2
  <2>3. socks # <<>> /\ socks' # <<>> /\ Len(socks) \in DOMAIN socks
    BY <1>6, <1>q, <2>1
  <2>4. LastCall = "onOpen" => e # "onOpen"
    BY <1>6, <2>1, <2>3 DEF Listened, Chain, Finished, Live, Running
  <2>5. LastCall = "onClose" => mClosed' /\ \A b \in DOMAIN socks' : callback'[b] = "none"
    BY <2>1, <2>2 DEF Listened
  <2>6. LastCall = "onOpen" => /\ socks'[Len(socks')] # "connecting" /\ delayed' = 0
                              /\ \A b \in DOMAIN socks' : callback'[b] # "onOpen"
    BY <2>1, <2>3, <2>4 DEF Listened
  <2> QED
    BY <1>s, <2>0, <2>3, <2>5, <2>6 DEF Listened
<1>7. ASSUME NEW a \in DOMAIN socks, CallbackStep(a) PROVE Listened'
  <2>1. /\ a = Len(socks) /\ socks # <<>> /\ socks' = socks
        /\ LastCall # "onClose" /\ (mConnected <=> EverOpened)
    BY <1>7, CallbackFacts DEF Listened
  <2>2. \A b \in DOMAIN socks : b # a => callback[b] = "none"
    BY <2>1 DEF Chain, Finished
  <2>3. PICK e \in {"none", "reset"} : callback' = [callback EXCEPT ![a] = e]
    BY <1>7 DEF CallbackStep, OnOpen, OnOpenReset, OnFailureRetry, OnFailureGiveUp
  <2>4. /\ callback'[a] = e
        /\ \A b \in DOMAIN socks : b # a => callback'[b] = "none"
    BY <1>7, <1>q, <2>2, <2>3
  <2>5. CASE OnOpenReset(a)
    <3>1. UNCHANGED <<calls, mConnected, mClosed, delayed>>
      BY <2>5 DEF OnOpenReset, handlerVars
    <3> QED
      BY <1>s, <2>1, <2>4, <3>1 DEF Listened
  <2>6. CASE OnOpen(a)
    <3>1. LastCall' = "onOpen" /\ EverOpened' /\ mConnected'
      BY <2>6, CallFacts DEF OnOpen, Link!Callbacks
    <3>2. socks[a] # "connecting" /\ delayed' = 0
      BY <1>7, <2>1, <2>6 DEF OnOpen, Chain, Finished, handlerVars
    <3> QED
      BY <2>1, <2>4, <3>1, <3>2 DEF Listened
  <2>7. CASE OnFailureGiveUp(a)
    <3>1. LastCall' = "onClose" /\ mClosed'
      BY <2>7, CallFacts DEF OnFailureGiveUp, Link!Callbacks
    <3>2. callback'[a] = "none"
      BY <1>7, <1>q, <2>7 DEF OnFailureGiveUp
    <3> QED
      BY <2>1, <2>4, <3>1, <3>2 DEF Listened
  <2>8. CASE OnFailureRetry(a)
    <3>1. PICK c \in {"onDisconnected", "onFail"} : calls' = Append(calls, c)
      BY <2>8 DEF OnFailureRetry
    <3>2. LastCall' = c /\ (EverOpened' <=> EverOpened) /\ mConnected' = mConnected
      BY <2>8, <3>1, CallFacts DEF OnFailureRetry, Link!Callbacks
    <3> QED
      BY <2>1, <3>2 DEF Listened
  <2> QED
    BY <1>7, <2>5, <2>6, <2>7, <2>8 DEF CallbackStep
<1>8. CASE UNCHANGED vars
  BY <1>8, <1>s DEF vars, Listened
<1> QED
  BY <1>1, <1>2, <1>3, <1>4, <1>5, <1>6, <1>7, <1>8, <1>9
  DEF Next, HandlerStep

(* WebSocketTransport implements SignalLink: its initial state is one of    *)
(* the contract and every step gives the listener at most one callback, one *)
(* that the contract allows.  In particular onOpen is not repeated without  *)
(* a disconnection, and nothing follows onClose.                            *)
THEOREM ContractKept == Spec => ListenerContract
<1>1. Init => Listened /\ Link!LinkInit
  BY DEF Init, Listened, LastCall, EverOpened, Link!LinkInit
<1>2. IndInv /\ Listened /\ [Next]_vars => Listened'
  BY ListenedStep DEF IndInv
<1>3. Flags /\ IndInv /\ Listened /\ [Next]_vars => [Link!LinkNext]_(Link!linkVars)
  <2> SUFFICES ASSUME Flags, IndInv, Listened, [Next]_vars, ~UNCHANGED calls
               PROVE  Link!LinkNext
    BY DEF Link!linkVars
  <2>1. PICK a \in DOMAIN socks : CallbackStep(a)
    BY DEF Next, HandlerStep, Connect, SendMessage, Close, RunConnect,
       RunSendCheck, RunSend, RunClose, RunReconnect, RunRetried, SocketStep, Accept,
       Break, ServerClose, ServerAnswer, vars
  <2>2. LastCall # "onClose" /\ (mConnected <=> EverOpened)
    BY <2>1, CallbackFacts DEF IndInv, Listened
  <2>3. CASE calls' = Append(calls, "onOpen") /\ LastCall # "onOpen"
    <3>1. LastCall' = "onOpen" /\ EverOpened' = TRUE
      BY <2>3, CallFacts DEF IndInv, Link!Callbacks, EverOpened
    <3> QED
      BY <2>2, <2>3, <3>1 DEF Link!LinkNext, Link!Open, LastCall, EverOpened
  <2>4. CASE calls' = Append(calls, "onClose")
    <3>1. LastCall' = "onClose" /\ EverOpened' = EverOpened
      BY <2>4, CallFacts DEF IndInv, Link!Callbacks, EverOpened
    <3> QED
      BY <2>2, <3>1 DEF Link!LinkNext, Link!End, LastCall, EverOpened
  <2>5. CASE mConnected /\ calls' = Append(calls, "onDisconnected")
    <3>1. LastCall' = "onDisconnected" /\ EverOpened' = EverOpened
      BY <2>5, CallFacts DEF IndInv, Link!Callbacks, EverOpened
    <3> QED
      BY <2>2, <2>5, <3>1 DEF Link!LinkNext, Link!Disconnect, LastCall, EverOpened
  <2>6. CASE ~mConnected /\ calls' = Append(calls, "onFail")
    <3>1. LastCall' = "onFail" /\ EverOpened' = EverOpened
      BY <2>6, CallFacts DEF IndInv, Link!Callbacks, EverOpened
    <3> QED
      BY <2>2, <2>6, <3>1 DEF Link!LinkNext, Link!Fail, LastCall, EverOpened
  <2> QED
    BY <2>1, <2>3, <2>4, <2>5, <2>6, CallbackFacts DEF IndInv
<1>4. Init => Flags
  BY DEF Init, Flags
<1> QED
  BY <1>1, <1>2, <1>3, <1>4, FlagsStep, IndInvAlways, PTL
  DEF Spec, ListenerContract, Link!LinkSpec
===============================================================================
