-------------------------- MODULE RoomClient_proofs --------------------------
(***************************************************************************)
(* Proofs about RoomClient, for any number of connections, losses, offered *)
(* consumers and queued tasks: joinImpl() never meets a transport of an    *)
(* earlier connection, and no producer or consumer of one survives as a    *)
(* current one.  What makes it so is the order of the tasks on the worker: *)
(* between two joins of one link there is always a "disconnected".  All of *)
(* it holds until joinRoom() has made a second link.                       *)
(***************************************************************************)
EXTENDS RoomClient, SequenceTheorems, TLAPS

Names == {"protoo", "join", "fail", "disconnected", "ended", "close",
          "enableMic", "unmuteMic"}
ConsumerNames == {"newConsumer", "consumerClosed"}
Tasks == [do : Names] \cup [do : ConsumerNames, id : Nat]

Types ==
  /\ work \in Seq(Tasks) /\ links \in Seq({"connecting", "open", "down", "closed"})
  /\ joins \in Nat /\ offered \in Nat
  /\ send \in Nat /\ recv \in Nat
  /\ mConsumers \subseteq [id : Nat, on : Nat \ {0}, known : BOOLEAN]

(* What matters of a queue of tasks. *)
Without(q, name) == \A i \in DOMAIN q : q[i].do # name
Disposes(q) == \E k \in DOMAIN q : q[k].do = "disconnected"

(* Two joins have a disposal between them. *)
Apart(q) ==
  \A i, j \in DOMAIN q :
     i < j /\ q[i].do = "join" /\ q[j].do = "join" =>
       \E k \in DOMAIN q : i < k /\ k < j /\ q[k].do = "disconnected"

(* Each join has a disposal before it, or after it. *)
Led(q) ==
  \A j \in DOMAIN q : q[j].do = "join" =>
     \E k \in DOMAIN q : k < j /\ q[k].do = "disconnected"
Covered(q) ==
  \A i \in DOMAIN q : q[i].do = "join" =>
     \E k \in DOMAIN q : i < k /\ q[k].do = "disconnected"

(* With the link in state l and transports there or not (none), the link    *)
(* only opens when every transport and every join that is queued has its    *)
(* disposal queued too.                                                     *)
Safe(q, l, none) ==
  /\ l \in {"none", "connecting"} => Without(q, "join") /\ none
  /\ Apart(q)
  /\ ~none => Led(q)
  /\ l = "down" => Covered(q) /\ (~none => Disposes(q))

Empty == send = 0 /\ recv = 0

Sequenced ==
  /\ quit => work = <<>>
  /\ Single => (quit => link \in {"none", "closed"}) /\ Safe(work, link, Empty)

(* While a call lasts RoomManagement does not leave the connecting states.  *)
Watched ==
  /\ ~mClosed => state # "CLOSED" /\ seen # "CLOSED"
  /\ state \in States /\ seen \in States
  /\ seen # "NEW" => state # "NEW"
  /\ calling /\ ~mClosed /\ (mic # 0 \/ \E c \in mConsumers : c.known) => isConnecting

IndInv == Types /\ Sequenced /\ Watched /\ NoLeak /\ MediaCurrent
-------------------------------------------------------------------------------
(* Taking the first task off a queue.                                       *)
LEMMA TailFacts ==
  ASSUME NEW q \in Seq(Tasks), q # <<>>
  PROVE  /\ Tail(q) \in Seq(Tasks) /\ Head(q) = q[1] /\ Head(q) \in Tasks
         /\ 1 \in DOMAIN q
         /\ \A i \in DOMAIN Tail(q) : i + 1 \in DOMAIN q /\ Tail(q)[i] = q[i + 1] /\ i \in Nat \ {0}
         /\ \A i \in DOMAIN q : i # 1 => i - 1 \in DOMAIN Tail(q) /\ Tail(q)[i - 1] = q[i]
         /\ \A i \in DOMAIN q : i \in Nat \ {0}
  BY HeadTailProperties

(* What a queue guarantees survives the first task, when that is no disposal. *)
LEMMA TailKeeps ==
  ASSUME NEW q \in Seq(Tasks), q # <<>>
  PROVE  /\ \A n : Without(q, n) => Without(Tail(q), n)
         /\ Apart(q) => Apart(Tail(q))
         /\ Covered(q) => Covered(Tail(q))
         /\ Led(q) /\ Head(q).do # "disconnected" => Led(Tail(q))
         /\ Disposes(q) /\ Head(q).do # "disconnected" => Disposes(Tail(q))
         /\ Led(q) => Head(q).do # "join"
         /\ Apart(q) /\ Head(q).do = "join" => Led(Tail(q))
         /\ Covered(q) /\ Head(q).do = "join" => Disposes(Tail(q))
<1> DEFINE t == Tail(q)
<1>1. /\ Head(q) = q[1] /\ 1 \in DOMAIN q
      /\ \A i \in DOMAIN t : i + 1 \in DOMAIN q /\ t[i] = q[i + 1] /\ i \in Nat \ {0}
      /\ \A i \in DOMAIN q : i # 1 => i - 1 \in DOMAIN t /\ t[i - 1] = q[i]
      /\ \A i \in DOMAIN q : i \in Nat \ {0}
  BY TailFacts
<1> HIDE DEF t
<1>2. ASSUME NEW n, Without(q, n) PROVE Without(t, n)
  BY <1>1, <1>2 DEF Without
<1>3. ASSUME Apart(q) PROVE Apart(t)
  <2> SUFFICES ASSUME NEW i \in DOMAIN t, NEW j \in DOMAIN t, i < j,
                      t[i].do = "join", t[j].do = "join"
               PROVE  \E k \in DOMAIN t : i < k /\ k < j /\ t[k].do = "disconnected"
    BY DEF Apart
  <2>1. i + 1 \in DOMAIN q /\ j + 1 \in DOMAIN q /\ i + 1 < j + 1
        /\ q[i + 1].do = "join" /\ q[j + 1].do = "join" /\ i \in Nat \ {0} /\ j \in Nat
    BY <1>1
  <2>2. PICK k \in DOMAIN q : i + 1 < k /\ k < j + 1 /\ q[k].do = "disconnected"
    BY <1>3, <2>1 DEF Apart
  <2>3. k \in Nat /\ k # 1 /\ i < k - 1 /\ k - 1 < j
    BY <1>1, <2>1, <2>2
  <2> QED
    BY <1>1, <2>2, <2>3
<1>4. ASSUME Covered(q) PROVE Covered(t)
  <2> SUFFICES ASSUME NEW i \in DOMAIN t, t[i].do = "join"
               PROVE  \E k \in DOMAIN t : i < k /\ t[k].do = "disconnected"
    BY DEF Covered
  <2>1. i + 1 \in DOMAIN q /\ q[i + 1].do = "join" /\ i \in Nat \ {0}
    BY <1>1
  <2>2. PICK k \in DOMAIN q : i + 1 < k /\ q[k].do = "disconnected"
    BY <1>4, <2>1 DEF Covered
  <2>3. k \in Nat /\ k # 1 /\ i < k - 1
    BY <1>1, <2>1, <2>2
  <2> QED
    BY <1>1, <2>2, <2>3
<1>5. ASSUME Led(q), q[1].do # "disconnected" PROVE Led(t)
  <2> SUFFICES ASSUME NEW j \in DOMAIN t, t[j].do = "join"
               PROVE  \E k \in DOMAIN t : k < j /\ t[k].do = "disconnected"
    BY DEF Led
  <2>1. j + 1 \in DOMAIN q /\ q[j + 1].do = "join" /\ j \in Nat \ {0}
    BY <1>1
  <2>2. PICK k \in DOMAIN q : k < j + 1 /\ q[k].do = "disconnected"
    BY <1>5, <2>1 DEF Led
  <2>3. k \in Nat /\ k # 1 /\ k - 1 < j
    BY <1>1, <1>5, <2>1, <2>2
  <2> QED
    BY <1>1, <2>2, <2>3
<1>6. ASSUME Disposes(q), q[1].do # "disconnected" PROVE Disposes(t)
  BY <1>1, <1>6 DEF Disposes
<1>7. Led(q) => q[1].do # "join"
  BY <1>1 DEF Led
<1>8. ASSUME Apart(q), q[1].do = "join" PROVE Led(t)
  <2> SUFFICES ASSUME NEW j \in DOMAIN t, t[j].do = "join"
               PROVE  \E k \in DOMAIN t : k < j /\ t[k].do = "disconnected"
    BY DEF Led
  <2>1. j + 1 \in DOMAIN q /\ q[j + 1].do = "join" /\ 1 < j + 1 /\ j \in Nat \ {0}
    BY <1>1
  <2>2. PICK k \in DOMAIN q : 1 < k /\ k < j + 1 /\ q[k].do = "disconnected"
    BY <1>1, <1>8, <2>1 DEF Apart
  <2>3. k \in Nat /\ k # 1 /\ k - 1 < j
    BY <1>1, <2>1, <2>2
  <2> QED
    BY <1>1, <2>2, <2>3
<1>9. ASSUME Covered(q), q[1].do = "join" PROVE Disposes(t)
  <2>1. PICK k \in DOMAIN q : 1 < k /\ q[k].do = "disconnected"
    BY <1>1, <1>9 DEF Covered
  <2>2. k # 1
    BY <1>1, <2>1
  <2> QED
    BY <1>1, <2>1, <2>2 DEF Disposes
<1> QED
  BY <1>1, <1>2, <1>3, <1>4, <1>5, <1>6, <1>7, <1>8, <1>9 DEF t

(* Posting a task at the end of a queue.                                    *)
LEMMA PostKeeps ==
  ASSUME NEW q \in Seq(Tasks), NEW t \in Tasks
  PROVE  /\ Append(q, t) \in Seq(Tasks)
         /\ \A n : Without(q, n) /\ t.do # n => Without(Append(q, t), n)
         /\ Disposes(q) \/ t.do = "disconnected" => Disposes(Append(q, t))
         /\ Apart(q) /\ (t.do # "join" \/ Covered(q)) => Apart(Append(q, t))
         /\ Led(q) /\ (t.do # "join" \/ Disposes(q)) => Led(Append(q, t))
         /\ Covered(q) /\ t.do # "join" => Covered(Append(q, t))
         /\ t.do = "disconnected" => Covered(Append(q, t))
<1> DEFINE p == Append(q, t)
<1> DEFINE n == Len(q)
<1>1. /\ p \in Seq(Tasks) /\ n \in Nat
      /\ \A i \in DOMAIN p : i \in Nat /\ ((i \in DOMAIN q /\ p[i] = q[i] /\ i < n + 1) \/ i = n + 1)
      /\ \A i \in DOMAIN q : i \in DOMAIN p /\ p[i] = q[i] /\ i < n + 1 /\ i \in Nat
      /\ n + 1 \in DOMAIN p /\ p[n + 1] = t
  BY AppendProperties
<1> HIDE DEF p, n
<1>2. ASSUME NEW m, Without(q, m), t.do # m PROVE Without(p, m)
  BY <1>1, <1>2 DEF Without
<1>3. ASSUME Disposes(q) \/ t.do = "disconnected" PROVE Disposes(p)
  BY <1>1, <1>3 DEF Disposes
<1>4. ASSUME Apart(q), t.do # "join" \/ Covered(q) PROVE Apart(p)
  <2> SUFFICES ASSUME NEW i \in DOMAIN p, NEW j \in DOMAIN p, i < j,
                      p[i].do = "join", p[j].do = "join"
               PROVE  \E k \in DOMAIN p : i < k /\ k < j /\ p[k].do = "disconnected"
    BY DEF Apart
  <2>1. i \in DOMAIN q /\ q[i] = p[i]
    BY <1>1
  <2>2. CASE j \in DOMAIN q /\ p[j] = q[j]
    <3>1. PICK k \in DOMAIN q : i < k /\ k < j /\ q[k].do = "disconnected"
      BY <1>4, <2>1, <2>2 DEF Apart
    <3> QED
      BY <1>1, <3>1
  <2>3. CASE j = n + 1
    <3>1. Covered(q)
      BY <1>1, <1>4, <2>3
    <3>2. PICK k \in DOMAIN q : i < k /\ q[k].do = "disconnected"
      BY <2>1, <3>1 DEF Covered
    <3> QED
      BY <1>1, <2>3, <3>2
  <2> QED
    BY <1>1, <2>2, <2>3
<1>5. ASSUME Led(q), t.do # "join" \/ Disposes(q) PROVE Led(p)
  <2> SUFFICES ASSUME NEW j \in DOMAIN p, p[j].do = "join"
               PROVE  \E k \in DOMAIN p : k < j /\ p[k].do = "disconnected"
    BY DEF Led
  <2>1. CASE j \in DOMAIN q /\ p[j] = q[j]
    <3>1. PICK k \in DOMAIN q : k < j /\ q[k].do = "disconnected"
      BY <1>5, <2>1 DEF Led
    <3> QED
      BY <1>1, <3>1
  <2>2. CASE j = n + 1
    <3>1. PICK k \in DOMAIN q : q[k].do = "disconnected"
      BY <1>1, <1>5, <2>2 DEF Disposes
    <3> QED
      BY <1>1, <2>2, <3>1
  <2> QED
    BY <1>1, <2>1, <2>2
<1>6. ASSUME Covered(q), t.do # "join" PROVE Covered(p)
  <2> SUFFICES ASSUME NEW i \in DOMAIN p, p[i].do = "join"
               PROVE  \E k \in DOMAIN p : i < k /\ p[k].do = "disconnected"
    BY DEF Covered
  <2>1. i \in DOMAIN q /\ q[i].do = "join"
    BY <1>1, <1>6
  <2>2. PICK k \in DOMAIN q : i < k /\ q[k].do = "disconnected"
    BY <1>6, <2>1 DEF Covered
  <2> QED
    BY <1>1, <2>2
<1>7. ASSUME t.do = "disconnected" PROVE Covered(p)
  BY <1>1, <1>7 DEF Covered
<1> QED
  BY <1>1, <1>2, <1>3, <1>4, <1>5, <1>6, <1>7 DEF p

(* Taking off a task that neither joins nor disposes keeps the queue safe,  *)
LEMMA SafeTail ==
  ASSUME NEW q \in Seq(Tasks), q # <<>>, NEW l, NEW none,
         Safe(q, l, none), Head(q).do \notin {"join", "disconnected"}
  PROVE  Safe(Tail(q), l, none)
  BY TailKeeps DEF Safe

(* and so does posting one that does not join.                              *)
LEMMA SafePost ==
  ASSUME NEW q \in Seq(Tasks), NEW t \in Tasks, NEW l, NEW none,
         Safe(q, l, none), t.do # "join"
  PROVE  Safe(Append(q, t), l, none)
  BY PostKeeps DEF Safe

-------------------------------------------------------------------------------
(* The tasks that the code posts.                                           *)
LEMMA TaskFacts ==
  /\ \A n \in Names : [do |-> n] \in Tasks
  /\ \A n \in ConsumerNames, m \in Nat : [do |-> n, id |-> m] \in Tasks
  /\ \A t \in Tasks : t.do = "newConsumer" => t.id \in Nat
  BY DEF Tasks, Names, ConsumerNames

(* What close() does to the worker's queue.                                 *)
LEMMA CloseFacts ==
  ASSUME NEW q \in Seq(Tasks), closeRoom(q)
  PROVE  /\ mClosed'
         /\ work' = q \/ (~quit /\ work' = Append(q, [do |-> "close"]))
         /\ mClosed => UNCHANGED <<mClosed, state>>
         /\ ~mClosed => state' = "CLOSED"
         /\ quit => work' = q
  BY DEF closeRoom, Posted

(* How the list of links changes, and what that means for the last of them: *)
(* one link changes its state, a new one is added or the last one is closed. *)
LEMMA LinkChange ==
  ASSUME Types, NEW i \in DOMAIN links, NEW v \in {"connecting", "open", "down", "closed"},
         links' = [links EXCEPT ![i] = v]
  PROVE  /\ links' \in Seq({"connecting", "open", "down", "closed"})
         /\ Single' = Single
         /\ Single => link = links[i] /\ link' = v
<1>1. links \in Seq({"connecting", "open", "down", "closed"})
  BY DEF Types
<1>2. /\ links' \in Seq({"connecting", "open", "down", "closed"})
      /\ Len(links') = Len(links) /\ links'[i] = v /\ DOMAIN links = 1 .. Len(links)
      /\ Len(links) \in Nat
  BY <1>1
<1>3. Single' = Single
  BY <1>2 DEF Single
<1>4. ASSUME Single PROVE link = links[i] /\ link' = v
  <2>1. Len(links) = 1 /\ i = 1 /\ links # <<>> /\ links' # <<>>
    BY <1>1, <1>2, <1>4 DEF Single
  <2> QED
    BY <1>2, <2>1 DEF link
<1> QED
  BY <1>2, <1>3, <1>4

LEMMA LinkAdd ==
  ASSUME Types, links' = Append(links, "connecting")
  PROVE  /\ links' \in Seq({"connecting", "open", "down", "closed"})
         /\ Single' => Single /\ link = "none" /\ link' = "connecting"
<1>1. links \in Seq({"connecting", "open", "down", "closed"})
  BY DEF Types
<1>2. /\ links' \in Seq({"connecting", "open", "down", "closed"}) /\ Len(links) \in Nat
      /\ Len(links') = Len(links) + 1 /\ links'[Len(links')] = "connecting"
  BY <1>1
<1>3. ASSUME Single' PROVE Single /\ link = "none" /\ link' = "connecting"
  <2>1. Len(links) = 0 /\ links = <<>> /\ links' # <<>>
    BY <1>1, <1>2, <1>3 DEF Single
  <2> QED
    BY <1>2, <2>1 DEF Single, link
<1> QED
  BY <1>2, <1>3

LEMMA LinkClose ==
  ASSUME Types, links' = closeLink
  PROVE  /\ links' \in Seq({"connecting", "open", "down", "closed"})
         /\ Single' = Single /\ link' \in {"none", "closed"}
<1>1. links \in Seq({"connecting", "open", "down", "closed"}) /\ DOMAIN links = 1 .. Len(links)
      /\ Len(links) \in Nat
  BY DEF Types
<1>2. /\ links' \in Seq({"connecting", "open", "down", "closed"})
      /\ Len(links') = Len(links) /\ (Len(links) # 0 => links'[Len(links)] = "closed")
  BY <1>1 DEF closeLink
<1> QED
  BY <1>1, <1>2 DEF Single, link

LEMMA LinksStep ==
  ASSUME Types, [Next]_vars
  PROVE  /\ links' \in Seq({"connecting", "open", "down", "closed"})
         /\ Single' => Single
<1>1. CASE UNCHANGED links
  BY <1>1 DEF Types, Single
<1>2. CASE RunProtoo
  BY <1>2, LinkAdd DEF RunProtoo
<1>3. CASE RunClose
  BY <1>3, LinkClose DEF RunClose
<1>4. ASSUME NEW i \in DOMAIN links, LinkOpens(i) \/ LinkFails(i) \/ LinkEnds(i)
      PROVE  links' \in Seq({"connecting", "open", "down", "closed"}) /\ (Single' => Single)
  <2>1. UNCHANGED links \/ \E v \in {"open", "down", "closed"} : links' = [links EXCEPT ![i] = v]
    BY <1>4 DEF LinkOpens, LinkFails, LinkEnds
  <2> QED
    BY <1>1, <2>1, LinkChange
<1>5. ASSUME NEW i \in DOMAIN links, OfferConsumer(i) \/ \E c \in mConsumers : CloseConsumer(i, c.id)
      PROVE  UNCHANGED links
  BY <1>5 DEF OfferConsumer, CloseConsumer
<1>6. CASE Main \/ UNCHANGED vars
  BY <1>1, <1>6 DEF Main, JoinRoom, HangUp, DestroyRoom, Destroy, UnmuteMic, RunMain, Observe, vars
<1>7. CASE RunFail \/ RunDisconnected \/ RunEnded \/ RunUnmuteMic \/ RunConsumerClosed
  BY <1>1, <1>7 DEF RunFail, RunDisconnected, RunEnded, RunUnmuteMic, RunConsumerClosed
<1>8. ASSUME NEW steps \in 0 .. 4, RunJoin(steps) PROVE UNCHANGED links
  BY <1>8 DEF RunJoin
<1>9. ASSUME NEW ok \in BOOLEAN, RunEnableMic(ok) \/ RunNewConsumer(ok) PROVE UNCHANGED links
  BY <1>9 DEF RunEnableMic, RunNewConsumer
<1> QED
  BY <1>1, <1>2, <1>3, <1>4, <1>5, <1>6, <1>7, <1>8, <1>9 DEF Next, Worker, Link

(* The consumers, the transports and the queue keep their types.            *)
LEMMA TypesStep == Types /\ [Next]_vars => Types'
<1> SUFFICES ASSUME Types, [Next]_vars PROVE Types'
  OBVIOUS
<1>w. /\ work \in Seq(Tasks)
      /\ \A n \in Names : [do |-> n] \in Tasks /\ Append(work, [do |-> n]) \in Seq(Tasks)
      /\ work # <<>> => Tail(work) \in Seq(Tasks) /\ Head(work) \in Tasks
  BY TaskFacts, PostKeeps, TailFacts DEF Types
<1> USE DEF manager, media, counts
<1>l. links' \in Seq({"connecting", "open", "down", "closed"})
  BY LinksStep
<1>1. ASSUME work' \in Seq(Tasks), UNCHANGED <<joins, offered, send, recv, mConsumers>>
      PROVE  Types'
  BY <1>1, <1>l DEF Types
<1>2. CASE JoinRoom \/ UnmuteMic \/ \E i \in DOMAIN links : LinkOpens(i) \/ LinkFails(i) \/ LinkEnds(i)
  BY <1>1, <1>2, <1>w DEF JoinRoom, UnmuteMic, LinkOpens, LinkFails, LinkEnds, Post, Posted, Names
<1>3. CASE HangUp \/ DestroyRoom \/ Destroy \/ RunMain \/ Observe
  BY <1>1, <1>3, <1>w DEF HangUp, DestroyRoom, Destroy, RunMain, Observe, closeRoom, Post, Posted, Names
<1>4. ASSUME NEW i \in DOMAIN links, OfferConsumer(i) PROVE Types'
  <2>1. offered' = offered + 1 /\ [do |-> "newConsumer", id |-> offered + 1] \in Tasks
    BY <1>4, TaskFacts DEF OfferConsumer, Types, ConsumerNames
  <2>2. work' \in Seq(Tasks)
    BY <1>4, <1>w, <2>1, PostKeeps DEF OfferConsumer, Post, Posted
  <2> QED
    BY <1>4, <1>l, <2>1, <2>2 DEF OfferConsumer, Types
<1>5. ASSUME NEW i \in DOMAIN links, NEW c \in mConsumers, CloseConsumer(i, c.id) PROVE Types'
  <2>1. [do |-> "consumerClosed", id |-> c.id] \in Tasks
    BY TaskFacts DEF Types, ConsumerNames
  <2>2. work' \in Seq(Tasks)
    BY <1>5, <1>w, <2>1, PostKeeps DEF CloseConsumer, Post, Posted
  <2> QED
    BY <1>5, <1>1, <2>2 DEF CloseConsumer
<1>6. CASE RunProtoo \/ RunFail \/ RunEnded \/ RunUnmuteMic
  <2>1. /\ Tail(work) \in Seq(Tasks)
        /\ \A n \in Names : Append(Tail(work), [do |-> n]) \in Seq(Tasks)
    BY <1>6, <1>w, PostKeeps DEF RunProtoo, RunFail, RunEnded, RunUnmuteMic, Run
  <2> QED
    BY <1>1, <1>6, <2>1 DEF RunProtoo, RunFail, RunEnded, RunUnmuteMic, onConnectFail,
       closeRoom, Posted, Names
<1>7. ASSUME NEW steps \in 0 .. 4, RunJoin(steps) PROVE Types'
  BY <1>7, <1>l, <1>w DEF RunJoin, Run, Types, createSendTransport, createRecvTransport
<1>8. CASE RunDisconnected \/ RunClose
  <2>1. /\ send' = 0 /\ recv' = 0 /\ mConsumers' \subseteq mConsumers
        /\ UNCHANGED <<joins, offered>> /\ work' \in {Tail(work), <<>>} /\ work # <<>>
    BY <1>8 DEF RunDisconnected, RunClose, Run, disposeTransportDevice
  <2>2. <<>> \in Seq(Tasks)
    BY EmptySeq
  <2>3. work' \in Seq(Tasks)
    BY <1>w, <2>1, <2>2
  <2> QED
    BY <1>l, <2>1, <2>3 DEF Types
<1>9. ASSUME NEW ok \in BOOLEAN, RunEnableMic(ok) PROVE Types'
  BY <1>9, <1>w, <1>1 DEF RunEnableMic, Run
<1>10. ASSUME NEW ok \in BOOLEAN, RunNewConsumer(ok) PROVE Types'
  <2>1. Head(work).id \in Nat /\ Tail(work) \in Seq(Tasks)
    BY <1>10, <1>w, TaskFacts DEF RunNewConsumer, Run
  <2>2. isConnecting \in BOOLEAN
    BY DEF isConnecting
  <2>3. mConsumers' \subseteq [id : Nat, on : Nat \ {0}, known : BOOLEAN]
    <3>1. CASE ok /\ recv # 0
      <4>1. mConsumers' = mConsumers \cup {[id |-> Head(work).id, on |-> recv, known |-> isConnecting]}
        BY <1>10, <3>1 DEF RunNewConsumer
      <4>2. [id |-> Head(work).id, on |-> recv, known |-> isConnecting]
               \in [id : Nat, on : Nat \ {0}, known : BOOLEAN]
        BY <2>1, <2>2, <3>1 DEF Types
      <4> QED
        BY <4>1, <4>2 DEF Types
    <3>2. CASE ~(ok /\ recv # 0)
      BY <1>10, <3>2 DEF RunNewConsumer, Types
    <3> QED
      BY <3>1, <3>2
  <2> QED
    BY <1>10, <1>l, <2>1, <2>3 DEF RunNewConsumer, Types
<1>11. CASE RunConsumerClosed
  BY <1>11, <1>l, <1>w DEF RunConsumerClosed, Run, Types
<1>12. CASE UNCHANGED vars
  BY <1>12, <1>1, <1>w DEF vars
<1> QED
  BY <1>2, <1>3, <1>4, <1>5, <1>6, <1>7, <1>8, <1>9, <1>10, <1>11, <1>12
  DEF Next, Worker, Main, Link

(* A looper that has quit holds no task.                                    *)
LEMMA QuitStep ==
  ASSUME Types, Sequenced, [Next]_vars
  PROVE  quit' => work' = <<>>
<1>1. quit => work = <<>>
  BY DEF Sequenced
<1> USE DEF manager, media, counts, Post, Posted, closeRoom
<1>2. CASE Main
  BY <1>1, <1>2 DEF Main, JoinRoom, HangUp, DestroyRoom, Destroy, UnmuteMic, RunMain, Observe
<1>3. CASE Link
  BY <1>1, <1>3 DEF Link, LinkOpens, LinkFails, LinkEnds, OfferConsumer, CloseConsumer
<1>4. CASE Worker
  BY <1>1, <1>4 DEF Worker, Run, RunProtoo, RunJoin, RunFail, RunDisconnected, RunEnded, RunClose,
     RunEnableMic, RunNewConsumer, RunUnmuteMic, RunConsumerClosed, onConnectFail
<1>5. CASE UNCHANGED vars
  BY <1>1, <1>5 DEF vars
<1> QED
  BY <1>2, <1>3, <1>4, <1>5 DEF Next

(* With one link every callback is one of mProtoo's link.                   *)
LEMMA LinkOne == ASSUME Types, Single, NEW i \in DOMAIN links PROVE link = links[i]
<1>1. links \in Seq({"connecting", "open", "down", "closed"})
  BY DEF Types
<1>2. DOMAIN links = 1 .. Len(links) /\ Len(links) \in Nat
  BY <1>1
<1>3. Len(links) = 1 /\ i = 1
  BY <1>2 DEF Single
<1>4. links # <<>>
  BY <1>1, <1>3
<1> QED
  BY <1>3, <1>4 DEF link

(* The worker's queue stays safe whatever the link and the user do.         *)
LEMMA SequencedStep == Types /\ Sequenced /\ [Next]_vars => Sequenced'
<1> SUFFICES ASSUME Types, Sequenced, [Next]_vars, Single' PROVE Sequenced'
  BY QuitStep DEF Sequenced
<1> USE DEF manager, media, counts
<1>q. quit' => work' = <<>>
  BY QuitStep DEF Sequenced
<1>w. /\ work \in Seq(Tasks) /\ Single /\ Safe(work, link, Empty)
      /\ quit => work = <<>> /\ link \in {"none", "closed"}
      /\ work # <<>> => Tail(work) \in Seq(Tasks) /\ Head(work) \in Tasks
  BY TailFacts, LinksStep DEF Types, Sequenced
<1>t. /\ \A n \in Names : [do |-> n] \in Tasks
      /\ \A n \in ConsumerNames, m \in Nat : [do |-> n, id |-> m] \in Tasks
  BY TaskFacts
<1>1. ASSUME NEW q \in Seq(Tasks), Safe(q, link, Empty), quit => q = <<>>,
             NEW t \in Tasks, t.do # "join",
             UNCHANGED <<links, send, recv, quit>>,
             work' \in {q, Posted(q, t)}
      PROVE  Sequenced'
  <2>1. Safe(work', link, Empty)
    <3>1. Safe(Append(q, t), link, Empty)
      BY <1>1, SafePost
    <3> QED
      BY <1>1, <3>1 DEF Posted
  <2>2. Empty' = Empty /\ link' = link
    BY <1>1 DEF Empty, link
  <2>3. Sequenced' = ((quit' => work' = <<>>) /\ (Single' => (quit' => link' \in {"none", "closed"})
                                                   /\ Safe(work', link', Empty')))
    BY DEF Sequenced, Safe, Without, Apart, Led, Covered, Disposes
  <2> QED
    BY <1>1, <1>q, <1>w, <2>1, <2>2, <2>3
<1>s. ASSUME quit' => link' \in {"none", "closed"}, Safe(work', link', Empty')
      PROVE  Sequenced'
  <2>1. Sequenced' = ((quit' => work' = <<>>) /\ (Single' => (quit' => link' \in {"none", "closed"})
                                                   /\ Safe(work', link', Empty')))
    BY DEF Sequenced, Safe, Without, Apart, Led, Covered, Disposes
  <2> QED
    BY <1>q, <1>s, <2>1
<1>2. CASE JoinRoom
  <2>1. work' = Posted(work, [do |-> "protoo"]) /\ [do |-> "protoo"] \in Tasks
    BY <1>2, <1>t DEF JoinRoom, Post, Names
  <2> QED
    BY <1>1, <1>2, <1>w, <2>1 DEF JoinRoom
<1>3. CASE HangUp \/ DestroyRoom \/ Destroy
  <2>1. work' \in {work, Posted(work, [do |-> "close"])} /\ [do |-> "close"] \in Tasks
    BY <1>3, <1>t DEF HangUp, DestroyRoom, Destroy, closeRoom, Names
  <2>2. UNCHANGED <<links, send, recv, quit>>
    BY <1>3 DEF HangUp, DestroyRoom, Destroy
  <2> QED
    BY <1>1, <1>w, <2>1, <2>2
<1>4. CASE RunMain
  <2>1. PICK n \in {"close", "enableMic"} : work' \in {work, Posted(work, [do |-> n])}
    BY <1>4 DEF RunMain, closeRoom, Post
  <2>2. UNCHANGED <<links, send, recv, quit>> /\ [do |-> n] \in Tasks
    BY <1>4, <1>t DEF RunMain, Names
  <2> QED
    BY <1>1, <1>w, <2>1, <2>2
<1>5. CASE UnmuteMic
  <2>1. work' = Posted(work, [do |-> "unmuteMic"]) /\ [do |-> "unmuteMic"] \in Tasks
    BY <1>5, <1>t DEF UnmuteMic, Post, Names
  <2> QED
    BY <1>1, <1>5, <1>w, <2>1 DEF UnmuteMic
<1>6. CASE Observe \/ UNCHANGED vars
  <2>1. UNCHANGED <<work, links, send, recv, quit>> /\ [do |-> "close"] \in Tasks
    BY <1>6, <1>t DEF Observe, vars, Names
  <2> QED
    BY <1>1, <1>w, <2>1
<1>7. ASSUME NEW i \in DOMAIN links, LinkOpens(i) PROVE Sequenced'
  <2>1. /\ link \in {"connecting", "down"} /\ link' = "open" /\ ~quit /\ quit' = quit
        /\ Empty' = Empty
    <3>1. links[i] \in {"connecting", "down"} /\ links' = [links EXCEPT ![i] = "open"]
      BY <1>7 DEF LinkOpens
    <3>2. link = links[i] /\ link' = "open"
      BY <1>w, <3>1, LinkChange
    <3> QED
      BY <1>7, <1>w, <3>1, <3>2 DEF LinkOpens, Empty
  <2>2. work' = Append(work, [do |-> "join"]) /\ [do |-> "join"] \in Tasks
    BY <1>7, <1>t, <2>1 DEF LinkOpens, Post, Posted, Names
  <2>3. Covered(work) /\ (~Empty => Disposes(work))
    BY <1>w, <2>1 DEF Safe, Without, Covered
  <2>4. Safe(work', "open", Empty)
    BY <1>w, <2>1, <2>2, <2>3, PostKeeps DEF Safe
  <2> QED
    BY <1>s, <2>1, <2>4
<1>8. ASSUME NEW i \in DOMAIN links, LinkFails(i) PROVE Sequenced'
  <2>1. link = links[i] /\ ~quit /\ quit' = quit /\ Empty' = Empty
    <3>1. link = links[i]
      BY <1>w, LinkOne
    <3> QED
      BY <1>8, <1>w, <3>1 DEF LinkFails, Empty
  <2>2. CASE link = "connecting"
    <3>1. work' = Posted(work, [do |-> "fail"]) /\ [do |-> "fail"] \in Tasks
      BY <1>8, <1>t, <2>1, <2>2 DEF LinkFails, Post, Names
    <3> QED
      BY <1>1, <1>8, <1>w, <2>1, <2>2, <3>1 DEF LinkFails
  <2>3. CASE link # "connecting"
    <3>1. /\ work' = Append(work, [do |-> "disconnected"]) /\ [do |-> "disconnected"] \in Tasks
          /\ links' = [links EXCEPT ![i] = "down"] /\ link \in {"open", "down"}
      BY <1>8, <1>t, <2>1, <2>3 DEF LinkFails, Post, Posted, Names
    <3>2. link' = "down"
      BY <1>w, <3>1, LinkChange
    <3>3. Safe(work', "down", Empty)
      BY <1>w, <3>1, PostKeeps DEF Safe
    <3> QED
      BY <1>s, <2>1, <3>2, <3>3
  <2> QED
    BY <2>2, <2>3
<1>9. ASSUME NEW i \in DOMAIN links, LinkEnds(i) PROVE Sequenced'
  <2>1. /\ link \in {"connecting", "open", "down"} /\ link' = "closed" /\ ~quit /\ quit' = quit
        /\ Empty' = Empty
    <3>1. links[i] \in {"connecting", "open", "down"} /\ links' = [links EXCEPT ![i] = "closed"]
      BY <1>9 DEF LinkEnds
    <3>2. link = links[i] /\ link' = "closed"
      BY <1>w, <3>1, LinkChange
    <3> QED
      BY <1>9, <1>w, <3>1, <3>2 DEF LinkEnds, Empty
  <2>2. work' = work \/ work' = Append(work, [do |-> "ended"])
    BY <1>9, <2>1 DEF LinkEnds, Post, Posted
  <2>3. Safe(work', link, Empty)
    BY <1>t, <1>w, <2>2, SafePost DEF Names
  <2>4. Safe(work', "closed", Empty)
    BY <2>1, <2>3 DEF Safe
  <2> QED
    BY <1>s, <2>1, <2>4
<1>10. ASSUME NEW i \in DOMAIN links, OfferConsumer(i) PROVE Sequenced'
  <2>1. /\ work' = Posted(work, [do |-> "newConsumer", id |-> offered + 1])
        /\ [do |-> "newConsumer", id |-> offered + 1] \in Tasks
    BY <1>10, <1>t DEF OfferConsumer, Post, ConsumerNames, Types
  <2> QED
    BY <1>1, <1>10, <1>w, <2>1 DEF OfferConsumer
<1>11. ASSUME NEW i \in DOMAIN links, NEW c \in mConsumers, CloseConsumer(i, c.id) PROVE Sequenced'
  <2>1. /\ work' = Posted(work, [do |-> "consumerClosed", id |-> c.id])
        /\ [do |-> "consumerClosed", id |-> c.id] \in Tasks
    BY <1>11, <1>t DEF CloseConsumer, Post, ConsumerNames, Types
  <2> QED
    BY <1>1, <1>11, <1>w, <2>1 DEF CloseConsumer
<1>12. CASE RunProtoo
  <2>1. /\ work # <<>> /\ Head(work).do = "protoo" /\ work' = Tail(work)
        /\ links' = Append(links, "connecting") /\ ~quit /\ quit' = quit /\ Empty' = Empty
    BY <1>12 DEF RunProtoo, Run, Empty
  <2>2. link = "none" /\ link' = "connecting"
    BY <2>1, LinkAdd
  <2>3. Safe(Tail(work), "none", Empty)
    BY <1>w, <2>1, <2>2, SafeTail
  <2>4. Safe(Tail(work), "connecting", Empty)
    BY <2>3 DEF Safe
  <2> QED
    BY <1>s, <2>1, <2>2, <2>4
<1>13. CASE RunFail \/ RunEnded
  <2>1. /\ work # <<>> /\ Head(work).do \notin {"join", "disconnected"} /\ ~quit
        /\ work' \in {Tail(work), Posted(Tail(work), [do |-> "close"])}
        /\ UNCHANGED <<links, send, recv, quit>> /\ [do |-> "close"] \in Tasks
    BY <1>13, <1>t DEF RunFail, RunEnded, Run, onConnectFail, closeRoom, Names
  <2>2. Safe(Tail(work), link, Empty)
    BY <1>w, <2>1, SafeTail
  <2> QED
    BY <1>1, <1>w, <2>1, <2>2
<1>14. ASSUME NEW ok \in BOOLEAN,
              RunEnableMic(ok) \/ RunNewConsumer(ok) \/ RunUnmuteMic \/ RunConsumerClosed
       PROVE  Sequenced'
  <2>1. /\ work # <<>> /\ Head(work).do \notin {"join", "disconnected"} /\ ~quit
        /\ work' \in {Tail(work), Posted(Tail(work), [do |-> "enableMic"])}
        /\ UNCHANGED <<links, send, recv, quit>> /\ [do |-> "enableMic"] \in Tasks
    BY <1>14, <1>t DEF RunEnableMic, RunNewConsumer, RunUnmuteMic, RunConsumerClosed, Run,
       Posted, Names
  <2>2. Safe(Tail(work), link, Empty)
    BY <1>w, <2>1, SafeTail
  <2> QED
    BY <1>1, <1>w, <2>1, <2>2
<1>15. ASSUME NEW steps \in 0 .. 4, RunJoin(steps) PROVE Sequenced'
  <2>1. /\ work # <<>> /\ Head(work).do = "join" /\ ~quit /\ work' = Tail(work)
        /\ UNCHANGED <<links, quit>> /\ link' = link
    BY <1>15 DEF RunJoin, Run, link
  <2>2. link \notin {"none", "connecting"}
    BY <1>w, <2>1, TailFacts DEF Safe, Without
  <2>3. Apart(Tail(work)) /\ Led(Tail(work))
    BY <1>w, <2>1, <2>2, TailKeeps DEF Safe
  <2>4. link = "down" => Covered(Tail(work)) /\ Disposes(Tail(work))
    BY <1>w, <2>1, TailKeeps DEF Safe
  <2>5. Safe(Tail(work), link, Empty')
    BY <2>2, <2>3, <2>4 DEF Safe
  <2> QED
    BY <1>s, <2>1, <2>5
<1>16. CASE RunDisconnected
  <2>1. /\ work # <<>> /\ ~quit /\ work' = Tail(work) /\ UNCHANGED <<links, quit>> /\ Empty'
        /\ link' = link
    BY <1>16 DEF link, RunDisconnected, disposeTransportDevice, Run, Empty
  <2>2. Safe(Tail(work), link, Empty')
    BY <1>w, <2>1, TailKeeps DEF Safe
  <2> QED
    BY <1>s, <2>1, <2>2
<1>17. CASE RunClose
  <2>1. work' = <<>> /\ link' \in {"none", "closed"} /\ Empty'
    BY <1>17, LinkClose DEF RunClose, disposeTransportDevice, Empty
  <2>2. Safe(work', link', TRUE)
    BY <2>1 DEF Safe, Without, Apart
  <2> QED
    BY <1>s, <2>1, <2>2 DEF Safe
<1> QED
  BY <1>2, <1>3, <1>4, <1>5, <1>6, <1>7, <1>8, <1>9, <1>10, <1>11, <1>12, <1>13, <1>14,
     <1>15, <1>16, <1>17 DEF Next, Worker, Main, Link

-------------------------------------------------------------------------------
(* A join finds no transport of an earlier connection.                      *)
LEMMA JoinFindsNone ==
  ASSUME Types, Sequenced, Single, NEW steps \in 0 .. 4, RunJoin(steps)
  PROVE  Empty
<1>1. work \in Seq(Tasks) /\ work # <<>> /\ Head(work).do = "join" /\ (~Empty => Led(work))
  BY DEF Types, Sequenced, Safe, RunJoin, Run
<1> QED
  BY <1>1, TailKeeps

(* disposeTransportDevice() leaves no transport, and while RoomManagement   *)
(* sees the room connecting nothing that was made on one.                   *)
LEMMA DisposeFacts ==
  ASSUME NoLeak, Single, disposeTransportDevice
  PROVE  /\ live' = {} /\ send' = 0 /\ recv' = 0
         /\ mConsumers' \subseteq mConsumers /\ mic' \in {0, mic}
         /\ isConnecting /\ mic = send => mic' = 0
         /\ isConnecting => \A c \in mConsumers' : c.on # recv
  BY DEF NoLeak, disposeTransportDevice

(* The live transports are the current ones.                                *)
LEMMA NoLeakStep == Types /\ Sequenced /\ NoLeak /\ [Next]_vars => NoLeak'
<1> SUFFICES ASSUME Types, Sequenced, NoLeak, [Next]_vars, Single' PROVE NoLeak'
  BY DEF NoLeak
<1>s. Single
  BY LinksStep
<1> USE DEF manager, media, counts
<1>1. ASSUME UNCHANGED <<live, send, recv, quit>> PROVE NoLeak'
  BY <1>1, <1>s DEF NoLeak
<1>2. ASSUME NEW steps \in 0 .. 4, RunJoin(steps) PROVE NoLeak'
  <2>1. send = 0 /\ recv = 0 /\ live = {} /\ ~quit /\ quit' = quit
    <3>1. send = 0 /\ recv = 0 /\ ~quit /\ quit' = quit
      BY <1>2, <1>s, JoinFindsNone DEF Empty, RunJoin, Run
    <3> QED
      BY <1>s, <3>1 DEF NoLeak
  <2>2. live' = live \cup ({<<"send", send'>>, <<"recv", recv'>>} \ {<<"send", 0>>, <<"recv", 0>>})
    BY <1>2 DEF RunJoin
  <2> QED
    BY <2>1, <2>2 DEF NoLeak
<1>3. CASE RunDisconnected \/ RunClose
  <2>1. live' = {} /\ send' = 0 /\ recv' = 0
    BY <1>3, <1>s, DisposeFacts DEF RunDisconnected, RunClose
  <2> QED
    BY <2>1 DEF NoLeak
<1>4. CASE Main \/ Link \/ RunProtoo \/ RunFail \/ RunEnded \/ RunUnmuteMic \/ RunConsumerClosed
  BY <1>1, <1>4 DEF Main, JoinRoom, HangUp, DestroyRoom, Destroy, UnmuteMic, RunMain, Observe,
     Link, LinkOpens, LinkFails, LinkEnds, OfferConsumer, CloseConsumer, RunProtoo, RunFail,
     RunEnded, RunUnmuteMic, RunConsumerClosed
<1>5. ASSUME NEW ok \in BOOLEAN, RunEnableMic(ok) \/ RunNewConsumer(ok) PROVE NoLeak'
  BY <1>1, <1>5 DEF RunEnableMic, RunNewConsumer
<1>6. CASE UNCHANGED vars
  BY <1>1, <1>6 DEF vars
<1> QED
  BY <1>2, <1>3, <1>4, <1>5, <1>6 DEF Next, Worker

(* The flags of a call only go one way, and closing marks the room.         *)
LEMMA FlagSteps ==
  ASSUME Watched, [Next]_vars
  PROVE  /\ calling' => calling
         /\ mClosed => mClosed'
         /\ ~mClosed' => state' # "CLOSED" /\ seen' # "CLOSED"
         /\ state' \in States /\ seen' \in States
         /\ (state # "NEW" => state' # "NEW")
         /\ seen' \in {seen, state}
         /\ calling' /\ ~mClosed' /\ isConnecting => isConnecting'
<1> USE DEF manager, media, counts
<1>1. /\ state \in States /\ seen \in States
      /\ ~mClosed => state # "CLOSED" /\ seen # "CLOSED"
      /\ seen # "NEW" => state # "NEW"
  BY DEF Watched
<1>2. CASE Main
  <2>1. /\ calling' => calling
        /\ mClosed => mClosed'
        /\ state' \in {state, "CLOSED", "CONNECTING"}
        /\ ~mClosed' => state' # "CLOSED" \/ state' = state
        /\ seen' = seen \/ seen' = state
    BY <1>2 DEF Main, JoinRoom, HangUp, DestroyRoom, Destroy, UnmuteMic, RunMain, Observe,
       closeRoom
  <2> QED
    BY <1>1, <2>1 DEF States, isConnecting
<1>3. CASE Link
  <2>1. UNCHANGED <<mClosed, state, manager>>
    BY <1>3 DEF Link, LinkOpens, LinkFails, LinkEnds, OfferConsumer, CloseConsumer
  <2> QED
    BY <1>1, <2>1 DEF isConnecting
<1>4. CASE Worker
  <2>1. /\ UNCHANGED manager
        /\ mClosed => mClosed'
        /\ state' \in {state, "CLOSED", "CONNECTING", "CONNECTED", "DISCONNECTED"}
        /\ ~mClosed' => state' # "CLOSED" \/ state' = state
    BY <1>4 DEF Worker, RunProtoo, RunJoin, RunFail, RunDisconnected, RunEnded, RunClose,
       RunEnableMic, RunNewConsumer, RunUnmuteMic, RunConsumerClosed, closeRoom, onConnectFail
  <2> QED
    BY <1>1, <2>1 DEF States, isConnecting
<1>5. CASE UNCHANGED vars
  BY <1>1, <1>5 DEF vars, isConnecting
<1> QED
  BY <1>2, <1>3, <1>4, <1>5 DEF Next

(* There is a producer, or a consumer that RoomManagement knows of. *)
Made == mic # 0 \/ \E c \in mConsumers : c.known

(* A call with a producer or a known consumer is one RoomManagement sees as *)
(* connecting, and stays so until it ends.                                  *)
LEMMA WatchedStep == Watched /\ [Next]_vars => Watched'
<1> SUFFICES ASSUME Watched, [Next]_vars PROVE Watched'
  OBVIOUS
<1> USE DEF manager, media, counts
<1>1. /\ calling' => calling
      /\ mClosed => mClosed'
      /\ ~mClosed' => state' # "CLOSED" /\ seen' # "CLOSED"
      /\ state' \in States /\ seen' \in States
      /\ (state # "NEW" => state' # "NEW")
      /\ seen' \in {seen, state}
      /\ calling' /\ ~mClosed' /\ isConnecting => isConnecting'
  BY FlagSteps
<1>2. seen' # "NEW" => state' # "NEW"
  BY <1>1 DEF Watched
<1>3. calling /\ ~mClosed /\ Made => isConnecting
  BY DEF Watched, Made
<1>4. Made' => Made \/ isConnecting
  <2>1. CASE UNCHANGED <<mic, mConsumers>>
    BY <2>1 DEF Made
  <2>2. CASE RunDisconnected \/ RunClose
    <3>1. mConsumers' \subseteq mConsumers /\ mic' \in {0, mic}
      BY <2>2 DEF RunDisconnected, RunClose, disposeTransportDevice
    <3> QED
      BY <3>1 DEF Made
  <2>3. ASSUME NEW ok \in BOOLEAN, RunEnableMic(ok) PROVE Made' => Made \/ isConnecting
    BY <2>3 DEF RunEnableMic, Made
  <2>4. ASSUME NEW ok \in BOOLEAN, RunNewConsumer(ok) PROVE Made' => Made \/ isConnecting
    BY <2>4 DEF RunNewConsumer, Made
  <2>5. CASE RunConsumerClosed
    BY <2>5 DEF RunConsumerClosed, Made
  <2>6. CASE \/ Main \/ Link \/ RunProtoo \/ RunFail \/ RunEnded \/ RunUnmuteMic
             \/ \E steps \in 0 .. 4 : RunJoin(steps)
             \/ UNCHANGED vars
    <3>1. UNCHANGED <<mic, mConsumers>>
      BY <2>6 DEF Main, JoinRoom, HangUp, DestroyRoom, Destroy, UnmuteMic, RunMain, Observe,
         Link, LinkOpens, LinkFails, LinkEnds, OfferConsumer, CloseConsumer, RunProtoo, RunFail,
         RunEnded, RunUnmuteMic, RunJoin, vars
    <3> QED
      BY <2>1, <3>1
  <2> QED
    BY <2>2, <2>3, <2>4, <2>5, <2>6 DEF Next, Worker
<1>5. calling' /\ ~mClosed' /\ Made' => isConnecting'
  BY <1>1, <1>3, <1>4
<1> QED
  BY <1>1, <1>2, <1>5 DEF Watched, Made

(* The producer and the known consumers stay those of the current           *)
(* transports.                                                              *)
LEMMA MediaStep ==
  Types /\ Sequenced /\ Watched /\ NoLeak /\ MediaCurrent /\ [Next]_vars => MediaCurrent'
<1> SUFFICES ASSUME Types, Sequenced, Watched, NoLeak, MediaCurrent, [Next]_vars,
                    Single', calling', ~mClosed'
             PROVE  (mic' # 0 => mic' = send') /\ \A c \in mConsumers' : c.known => c.on = recv'
  BY DEF MediaCurrent, MicCurrent, ConsumersCurrent
<1> USE DEF manager, media, counts
<1>1. calling /\ ~mClosed /\ Single
  BY FlagSteps, LinksStep
<1>2. (mic # 0 => mic = send) /\ \A c \in mConsumers : c.known => c.on = recv
  BY <1>1 DEF MediaCurrent, MicCurrent, ConsumersCurrent
<1>3. ASSUME NEW steps \in 0 .. 4, RunJoin(steps)
      PROVE  (mic' # 0 => mic' = send') /\ \A c \in mConsumers' : c.known => c.on = recv'
  <2>1. send = 0 /\ recv = 0 /\ UNCHANGED <<mic, mConsumers>>
    BY <1>1, <1>3, JoinFindsNone DEF Empty, RunJoin
  <2>2. \A c \in mConsumers : c.on # 0
    BY DEF Types
  <2> QED
    BY <1>2, <2>1, <2>2
<1>4. CASE RunDisconnected \/ RunClose
  <2>1. /\ mConsumers' \subseteq mConsumers /\ mic' \in {0, mic}
        /\ isConnecting /\ mic = send => mic' = 0
        /\ isConnecting => \A c \in mConsumers' : c.on # recv
    BY <1>1, <1>4, DisposeFacts DEF RunDisconnected, RunClose
  <2>2. mic # 0 \/ (\E c \in mConsumers : c.known) => isConnecting
    BY <1>1 DEF Watched
  <2> QED
    BY <1>2, <2>1, <2>2
<1>5. ASSUME NEW ok \in BOOLEAN, RunEnableMic(ok)
      PROVE  (mic' # 0 => mic' = send') /\ \A c \in mConsumers' : c.known => c.on = recv'
  BY <1>2, <1>5 DEF RunEnableMic
<1>6. ASSUME NEW ok \in BOOLEAN, RunNewConsumer(ok)
      PROVE  (mic' # 0 => mic' = send') /\ \A c \in mConsumers' : c.known => c.on = recv'
  BY <1>2, <1>6 DEF RunNewConsumer
<1>7. CASE RunConsumerClosed
  BY <1>2, <1>7 DEF RunConsumerClosed
<1>8. CASE \/ Main \/ Link \/ RunProtoo \/ RunFail \/ RunEnded \/ RunUnmuteMic
           \/ UNCHANGED vars
  <2>1. UNCHANGED <<mic, mConsumers, send, recv>>
    BY <1>8 DEF Main, JoinRoom, HangUp, DestroyRoom, Destroy, UnmuteMic, RunMain, Observe,
       Link, LinkOpens, LinkFails, LinkEnds, OfferConsumer, CloseConsumer, RunProtoo, RunFail,
       RunEnded, RunUnmuteMic, vars
  <2> QED
    BY <1>2, <2>1
<1> QED
  BY <1>3, <1>4, <1>5, <1>6, <1>7, <1>8 DEF Next, Worker

(* The layers hold together in every behaviour of the room.                 *)
LEMMA IndInvAlways == Spec => []IndInv
<1>1. Init => IndInv
  <2> SUFFICES ASSUME Init PROVE IndInv
    OBVIOUS
  <2>1. Types
    BY DEF Init, Types
  <2>2. Sequenced
    BY DEF Init, Sequenced, Safe, Without, Apart, Empty, link
  <2>3. Watched
    BY DEF Init, Watched, States
  <2>4. NoLeak /\ MediaCurrent
    BY DEF Init, NoLeak, MediaCurrent, MicCurrent, ConsumersCurrent
  <2> QED
    BY <2>1, <2>2, <2>3, <2>4 DEF IndInv
<1>2. IndInv /\ [Next]_vars => IndInv'
  BY TypesStep, SequencedStep, WatchedStep, NoLeakStep, MediaStep DEF IndInv
<1> QED
  BY <1>1, <1>2, PTL DEF Spec

(* joinImpl() never overwrites a transport that disposeTransportDevice()    *)
(* has not disposed, however often the link is lost and regained, and none  *)
(* is left when the worker's looper has quit, as long as joinRoom() has     *)
(* made no second link.                                                     *)
THEOREM TransportsDisposed == Spec => []NoLeak
<1>1. IndInv => NoLeak
  BY DEF IndInv
<1> QED
  BY <1>1, IndInvAlways, PTL

(* During a call mMicProducer and the consumers that RoomManagement knows   *)
(* of were made on the current transports, through every lost link, failed  *)
(* join and rejoin of one link.                                             *)
THEOREM MediaFollowsTransport == Spec => []MediaCurrent
<1>1. IndInv => MediaCurrent
  BY DEF IndInv
<1> QED
  BY <1>1, IndInvAlways, PTL
===============================================================================
