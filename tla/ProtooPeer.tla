------------------------------ MODULE ProtooPeer ------------------------------
(***************************************************************************)
(* Peer.java and Protoo.java: requests and responses over a signalling     *)
(* transport, which is taken at its contract, SignalLink.                  *)
(*                                                                         *)
(* The caller is RoomClient's worker thread: it makes one request at a     *)
(* time, and syncRequest() blocks it until the request is settled.  The    *)
(* transport's thread handles responses, the main thread runs the timers.  *)
(* mSends is a plain HashMap shared by the three.                          *)
(***************************************************************************)
EXTENDS Integers, Sequences, SignalLink

CONSTANTS
  Requests,      \* request ids (Message.createRequest draws them at random)
  SyncRequests   \* the ones made with syncRequest()

ASSUME SyncAssumption == SyncRequests \subseteq Requests

VARIABLES
  mClosed, mConnected,
  mSends,        \* ids in the map of pending sent requests
  transportClosed,
  closer,        \* progress of close()
  issued,        \* requests made so far
  sending,       \* request given to the transport and not yet put in mSends
  awaiting,      \* request whose syncRequest() blocks the caller
  timers,        \* timeout checks posted on the main looper
  due,           \* timeout checks taken off the looper and about to run
  answering,     \* responses taken by handleResponse() and not yet delivered
  outbox,        \* request messages the transport has yet to write
  atServer,      \* requests the server has received
  responses,     \* responses on their way: <<id, ok>>
  outcome,       \* outcome[r]: what the ClientRequestHandler of r was told
  raced          \* history: answered while their timer was about to run

callerVars == <<issued, sending, awaiting>>
netVars == <<outbox, atServer, responses>>
mapVars == <<mSends, timers, due, answering>>
vars == <<linkVars, mClosed, mConnected, transportClosed, closer, callerVars,
          mapVars, netVars, outcome, raced>>

Init ==
  /\ LinkInit
  /\ mClosed = FALSE /\ mConnected = FALSE /\ transportClosed = FALSE
  /\ closer = "none"
  /\ issued = {} /\ sending = {} /\ awaiting = {}
  /\ mSends = {} /\ timers = {} /\ due = {} /\ answering = {}
  /\ outbox = {} /\ atServer = {} /\ responses = {}
  /\ outcome = [r \in Requests |-> <<>>]
  /\ raced = {}

CallerIdle == sending = {} /\ awaiting = {} /\ closer \in {"none", "returned"}

Settle(r, how) == outcome' = [outcome EXCEPT ![r] = Append(@, how)]

-------------------------------------------------------------------------------
(* The caller: request() sends the message first ... *)

Send(r) ==
  /\ CallerIdle
  /\ r \notin issued
  /\ issued' = issued \cup {r}
  /\ IF transportClosed
     THEN Settle(r, "thrown") /\ UNCHANGED <<sending, outbox>>
     ELSE /\ sending' = {r}
          /\ outbox' = outbox \cup {r}
          /\ UNCHANGED outcome
  /\ UNCHANGED <<linkVars, mClosed, mConnected, transportClosed, closer, awaiting,
                 mapVars, atServer, responses, raced>>

(* ... and then puts the handler into mSends, with its timer.  The put may  *)
(* be lost if another thread is inside the HashMap at the same time.        *)
InsideMap == due # {} \/ answering # {}

(* Mutation: the timeout check is never posted. *)
RegisterNoTimer(r) ==
  /\ r \in sending
  /\ sending' = {}
  /\ mSends' = mSends \cup {r}
  /\ awaiting' = {r} \cap SyncRequests
  /\ UNCHANGED <<linkVars, mClosed, mConnected, transportClosed, closer, issued,
                 timers, due, answering, netVars, outcome, raced>>

Register(r) ==
  /\ r \in sending
  /\ sending' = {}
  /\ mSends' \in {mSends \cup {r}} \cup (IF InsideMap THEN {mSends} ELSE {})
  /\ timers' = timers \cup {r}
  /\ awaiting' = {r} \cap SyncRequests
  /\ UNCHANGED <<linkVars, mClosed, mConnected, transportClosed, closer, issued,
                 due, answering, netVars, outcome, raced>>

(* blockingFirst() returns the first item or throws the first error. *)
SyncReturn(r) ==
  /\ r \in awaiting
  /\ outcome[r] # <<>>
  /\ awaiting' = {}
  /\ UNCHANGED <<linkVars, mClosed, mConnected, transportClosed, closer, issued,
                 sending, mapVars, netVars, outcome, raced>>

(* close(): the flags and mTransport.close() ... *)
Close ==
  /\ CallerIdle
  /\ closer = "none"
  /\ IF mClosed
     THEN closer' = "returned" /\ UNCHANGED <<mClosed, mConnected, transportClosed>>
     ELSE /\ closer' = "closing"
          /\ mClosed' = TRUE /\ mConnected' = FALSE /\ transportClosed' = TRUE
  /\ UNCHANGED <<linkVars, callerVars, mapVars, netVars, outcome, raced>>

(* ... then the loop over mSends, which throws                              *)
(* ConcurrentModificationException if another thread changes the map.       *)
ClosePending ==
  /\ closer = "closing"
  /\ \/ /\ closer' = "returned"
        /\ timers' = timers \ mSends
        /\ mSends' = {}
     \/ /\ InsideMap /\ mSends # {}
        /\ closer' = "crashed"
        /\ UNCHANGED <<timers, mSends>>
  /\ UNCHANGED <<linkVars, mClosed, mConnected, transportClosed, callerVars, due,
                 answering, netVars, outcome, raced>>

-------------------------------------------------------------------------------
(* The transport writes a message if it has a connection, else drops it. *)

Write(r) ==
  /\ r \in outbox
  /\ outbox' = outbox \ {r}
  /\ atServer' = IF last = "onOpen" /\ ~transportClosed
                 THEN atServer \cup {r} ELSE atServer
  /\ UNCHANGED <<linkVars, mClosed, mConnected, transportClosed, closer, callerVars,
                 mapVars, responses, outcome, raced>>

(* The server answers a request once, with a success or an error. *)
Respond(r, ok) ==
  /\ r \in atServer
  /\ atServer' = atServer \ {r}
  /\ responses' = responses \cup {<<r, ok>>}
  /\ UNCHANGED <<linkVars, mClosed, mConnected, transportClosed, closer, callerVars,
                 mapVars, outbox, outcome, raced>>

-------------------------------------------------------------------------------
(* The transport's thread: onMessage() and handleResponse() ... *)

TakeResponse(r, ok) ==
  /\ <<r, ok>> \in responses
  /\ answering = {}
  /\ responses' = responses \ {<<r, ok>>}
  /\ IF mClosed \/ r \notin mSends
     THEN UNCHANGED <<mSends, answering>>      \* "does not match any sent request"
     ELSE mSends' = mSends \ {r} /\ answering' = {<<r, ok>>}
  /\ UNCHANGED <<linkVars, mClosed, mConnected, transportClosed, closer, callerVars,
                 timers, due, outbox, atServer, outcome, raced>>

(* Mutation: the timeout check is not removed. *)
AnswerKeepsTimer(r, ok) ==
  /\ <<r, ok>> \in answering
  /\ answering' = {}
  /\ raced' = IF r \in timers THEN raced ELSE raced \cup {r}
  /\ Settle(r, IF ok THEN "resolved" ELSE "rejected")
  /\ UNCHANGED <<linkVars, mClosed, mConnected, transportClosed, closer, callerVars,
                 mSends, timers, due, netVars>>

(* ... then close() on the proxy and resolve() or reject(). *)
Answer(r, ok) ==
  /\ <<r, ok>> \in answering
  /\ answering' = {}
  /\ timers' = timers \ {r}
  /\ raced' = IF r \in timers THEN raced ELSE raced \cup {r}
  /\ Settle(r, IF ok THEN "resolved" ELSE "rejected")
  /\ UNCHANGED <<linkVars, mClosed, mConnected, transportClosed, closer, callerVars,
                 mSends, due, netVars>>

(* The main thread: a timeout check leaves the looper and runs. *)
TimerDue(r) ==
  /\ r \in timers
  /\ timers' = timers \ {r}
  /\ due' = due \cup {r}
  /\ UNCHANGED <<linkVars, mClosed, mConnected, transportClosed, closer, callerVars,
                 mSends, answering, netVars, outcome, raced>>

(* Mutation: a timeout is reported only for an entry of mSends. *)
TimerRunIfPresent(r) ==
  /\ r \in due
  /\ due' = due \ {r}
  /\ mSends' = mSends \ {r}
  /\ IF r \in mSends THEN Settle(r, "timeout") ELSE UNCHANGED outcome
  /\ UNCHANGED <<linkVars, mClosed, mConnected, transportClosed, closer, callerVars,
                 timers, answering, netVars, raced>>

TimerRun(r) ==
  /\ r \in due
  /\ due' = due \ {r}
  /\ mSends' = mSends \ {r}
  /\ Settle(r, "timeout")
  /\ UNCHANGED <<linkVars, mClosed, mConnected, transportClosed, closer, callerVars,
                 timers, answering, netVars, raced>>

-------------------------------------------------------------------------------
(* Callbacks of the transport; what a lost connection carried is lost. *)

OnOpen ==
  /\ Open
  /\ mConnected' = IF mClosed THEN mConnected ELSE TRUE
  /\ UNCHANGED <<mClosed, transportClosed, closer, callerVars, mapVars, netVars,
                 outcome, raced>>

OnFail ==
  /\ Fail
  /\ mConnected' = IF mClosed THEN mConnected ELSE FALSE
  /\ UNCHANGED <<mClosed, transportClosed, closer, callerVars, mapVars, netVars,
                 outcome, raced>>

OnDisconnected ==
  /\ Disconnect
  /\ mConnected' = IF mClosed THEN mConnected ELSE FALSE
  /\ atServer' = {} /\ responses' = {}
  /\ UNCHANGED <<mClosed, transportClosed, closer, callerVars, mapVars, outbox,
                 outcome, raced>>

OnClose ==
  /\ End
  /\ mClosed' = TRUE /\ mConnected' = FALSE /\ transportClosed' = TRUE
  /\ atServer' = {} /\ responses' = {}
  /\ UNCHANGED <<closer, callerVars, mapVars, outbox, outcome, raced>>

-------------------------------------------------------------------------------
CallerStep == \/ ClosePending
              \/ \E r \in Requests : Register(r) \/ SyncReturn(r)

AnswerStep == \E r \in Requests, ok \in BOOLEAN : Answer(r, ok)
TimerStep == \E r \in Requests : TimerDue(r) \/ TimerRun(r)

Next ==
  \/ Close \/ CallerStep \/ AnswerStep \/ TimerStep
  \/ \E r \in Requests : Send(r) \/ Write(r)
  \/ \E r \in Requests, ok \in BOOLEAN : Respond(r, ok) \/ TakeResponse(r, ok)
  \/ OnOpen \/ OnFail \/ OnDisconnected \/ OnClose

Spec == Init /\ [][Next]_vars

(* The three threads keep running what they have started or posted; the     *)
(* network, the server and the user promise nothing.                        *)
FairSpec == /\ Spec
            /\ WF_vars(CallerStep)
            /\ WF_vars(AnswerStep)
            /\ WF_vars(TimerStep)

-------------------------------------------------------------------------------
(* Every variable stays in its type, and a thread is inside one call only.  *)
TypeOK ==
  /\ last \in Callbacks \cup {"none"} /\ opened \in BOOLEAN
  /\ mClosed \in BOOLEAN /\ mConnected \in BOOLEAN /\ transportClosed \in BOOLEAN
  /\ closer \in {"none", "closing", "returned", "crashed"}
  /\ issued \subseteq Requests /\ mSends \subseteq issued
  /\ timers \subseteq issued /\ due \subseteq issued
  /\ raced \subseteq issued
  /\ outbox \subseteq issued /\ atServer \subseteq issued
  /\ responses \subseteq issued \X BOOLEAN
  /\ answering = {} \/ \E r \in issued, ok \in BOOLEAN : answering = {<<r, ok>>}
  /\ sending = {} \/ \E r \in issued : sending = {r}
  /\ awaiting = {} \/ \E r \in issued \cap SyncRequests : awaiting = {r}
  /\ outcome \in [Requests -> Seq({"thrown", "resolved", "rejected", "timeout"})]

Answering(r) == \E ok \in BOOLEAN : <<r, ok>> \in answering
Pending(r) == r \in issued /\ outcome[r] = <<>>

(* A request that has been made and not settled is never forgotten: until   *)
(* close() drops it, its registration, its timer or its response handler is *)
(* still to come, even when the response arrived before the registration,   *)
(* the HashMap lost the entry or the connection went away.                  *)
NeverForgotten ==
  \A r \in Requests :
     Pending(r) => \/ r \in sending \cup timers \cup due
                   \/ Answering(r)
                   \/ closer = "returned"

(* A request is settled twice only when its timeout was already running     *)
(* while its response was handled; never more often.                        *)
SettledOnce ==
  \A r \in Requests :
     Len(outcome[r]) > 1 => Len(outcome[r]) = 2 /\ r \in raced

(* Every request is settled, or dropped by close(): nobody waits forever.   *)
(* syncRequest() blocks the worker thread, and never for good: what it      *)
(* waits for comes from other threads, even after close().                  *)
EveryRequestSettles ==
  /\ \A r \in Requests : Pending(r) ~> ~Pending(r) \/ closer \in {"returned", "crashed"}
  /\ awaiting # {} ~> awaiting = {}

===============================================================================
