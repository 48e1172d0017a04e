-------------------------- MODULE ProtooPeer_proofs --------------------------
(***************************************************************************)
(* Proofs about ProtooPeer, for every set of requests, whichever of them   *)
(* are synchronous: the map and the timers lose no request and settle none *)
(* twice, but for the one race that the code leaves open.                  *)
(***************************************************************************)
EXTENDS ProtooPeer, SequenceTheorems, TLAPS

Outcomes == {"thrown", "resolved", "rejected", "timeout"}

(* Where the token of a request may be.  A request that is in mSends or has *)
(* its timer on the looper has not been settled; one whose timer is about   *)
(* to run may have been answered meanwhile, one that is being answered may  *)
(* have timed out meanwhile, and never both.                                *)
Fresh(r) ==
  /\ r \notin issued => outcome[r] = <<>>
  /\ r \in sending => r \notin mSends \cup timers \cup due /\ ~Answering(r)
  /\ r \in sending \cup mSends \cup timers => outcome[r] = <<>>

Exclusive(r) ==
  /\ r \in mSends => ~Answering(r)
  /\ r \in timers => r \notin due
  /\ outcome[r] # <<>> => r \notin due \/ ~Answering(r)

Settled(r) ==
  /\ Len(outcome[r]) <= 2
  /\ r \in due \/ Answering(r) => Len(outcome[r]) <= 1
  /\ r \in due /\ outcome[r] # <<>> => r \in raced
  /\ Len(outcome[r]) = 2 => r \in raced

Tokens == \A r \in Requests : Fresh(r) /\ Exclusive(r) /\ Settled(r)

IndInv == TypeOK /\ NeverForgotten /\ Tokens

-------------------------------------------------------------------------------
(* What a handler is told is appended to the outcome of its own request.    *)
LEMMA SettleFacts ==
  ASSUME TypeOK, NEW r \in Requests, NEW how \in Outcomes, Settle(r, how)
  PROVE  /\ outcome' \in [Requests -> Seq(Outcomes)]
         /\ outcome'[r] # <<>>
         /\ Len(outcome'[r]) = Len(outcome[r]) + 1
         /\ \A q \in Requests : q # r => outcome'[q] = outcome[q]
<1>1. outcome \in [Requests -> Seq(Outcomes)]
  BY DEF TypeOK, Outcomes
<1>2. outcome[r] \in Seq(Outcomes)
  BY <1>1
<1>3. /\ Append(outcome[r], how) \in Seq(Outcomes)
      /\ Append(outcome[r], how) # <<>>
      /\ Len(Append(outcome[r], how)) = Len(outcome[r]) + 1
  BY <1>2, AppendProperties
<1>4. outcome' = [outcome EXCEPT ![r] = Append(outcome[r], how)]
  BY DEF Settle
<1> QED
  BY <1>1, <1>3, <1>4

(* Lengths of outcomes are naturals, and 0 for the empty one only.          *)
LEMMA OutcomeLength ==
  ASSUME TypeOK, NEW r \in Requests
  PROVE  Len(outcome[r]) \in Nat /\ (outcome[r] = <<>> <=> Len(outcome[r]) = 0)
<1>1. outcome[r] \in Seq(Outcomes)
  BY DEF TypeOK, Outcomes
<1> QED
  BY <1>1, EmptySeq, LenProperties

-------------------------------------------------------------------------------
(* Every step of the three threads and of the network keeps the types.      *)
LEMMA TypeStep == TypeOK /\ [Next]_vars => TypeOK'
<1> SUFFICES ASSUME TypeOK, [Next]_vars PROVE TypeOK'
  OBVIOUS
<1> USE DEF linkVars, callerVars, mapVars, netVars
<1>1. CASE Close \/ ClosePending
  <2>1. CASE Close
    BY <2>1 DEF TypeOK, Close
  <2>2. CASE ClosePending
    <3>1. timers' \subseteq timers /\ mSends' \subseteq mSends /\ closer' \in {"returned", "crashed"}
      BY <2>2 DEF ClosePending
    <3> QED
      BY <2>2, <3>1 DEF TypeOK, ClosePending
  <2> QED
    BY <1>1, <2>1, <2>2
<1>2. ASSUME NEW r \in Requests, Register(r) \/ SyncReturn(r) PROVE TypeOK'
  <2>1. CASE Register(r)
    <3>1. r \in issued /\ sending' = {} /\ timers' = timers \cup {r} /\ mSends' \subseteq mSends \cup {r}
      BY <2>1 DEF TypeOK, Register
    <3>2. awaiting' = {} \/ \E q \in issued \cap SyncRequests : awaiting' = {q}
      <4>1. CASE r \in SyncRequests
        BY <2>1, <3>1, <4>1 DEF Register
      <4>2. CASE r \notin SyncRequests
        BY <2>1, <4>2 DEF Register
      <4> QED
        BY <4>1, <4>2
    <3> QED
      BY <2>1, <3>1, <3>2 DEF TypeOK, Register
  <2>2. CASE SyncReturn(r)
    BY <2>2 DEF TypeOK, SyncReturn
  <2> QED
    BY <1>2, <2>1, <2>2
<1>3. ASSUME NEW r \in Requests, NEW ok \in BOOLEAN, Answer(r, ok) PROVE TypeOK'
  <2>1. outcome' \in [Requests -> Seq(Outcomes)]
    BY <1>3, SettleFacts DEF Answer, Outcomes
  <2> QED
    BY <1>3, <2>1 DEF TypeOK, Answer, Outcomes, Callbacks
<1>4. ASSUME NEW r \in Requests, TimerDue(r) PROVE TypeOK'
  BY <1>4 DEF TypeOK, TimerDue, Callbacks
<1>5. ASSUME NEW r \in Requests, TimerRun(r) PROVE TypeOK'
  <2>1. outcome' \in [Requests -> Seq(Outcomes)]
    BY <1>5, SettleFacts DEF TimerRun, Outcomes
  <2> QED
    BY <1>5, <2>1 DEF TypeOK, TimerRun, Outcomes, Callbacks
<1>6. ASSUME NEW r \in Requests, Send(r) PROVE TypeOK'
  <2>1. outcome' \in [Requests -> Seq(Outcomes)]
    <3>1. CASE transportClosed
      BY <1>6, <3>1, SettleFacts DEF Send, Outcomes
    <3>2. CASE ~transportClosed
      BY <1>6, <3>2 DEF TypeOK, Send, Outcomes
    <3> QED
      BY <3>1, <3>2
  <2>2. /\ issued' = issued \cup {r}
        /\ sending' \in {sending, {r}} /\ outbox' \subseteq outbox \cup {r}
    BY <1>6 DEF Send
  <2>3. UNCHANGED <<last, opened, mClosed, mConnected, transportClosed, closer, awaiting,
                    mSends, timers, due, answering, atServer, responses, raced>>
    BY <1>6 DEF Send
  <2>4. /\ issued' \subseteq Requests /\ issued \subseteq issued' /\ outbox' \subseteq issued'
        /\ sending' = {} \/ \E q \in issued' : sending' = {q}
    BY <2>2 DEF TypeOK
  <2>5. /\ mSends \subseteq issued' /\ timers \subseteq issued' /\ due \subseteq issued'
        /\ raced \subseteq issued' /\ atServer \subseteq issued'
        /\ responses \subseteq issued' \X BOOLEAN
        /\ answering = {} \/ \E q \in issued', ok \in BOOLEAN : answering = {<<q, ok>>}
        /\ awaiting = {} \/ \E q \in issued' \cap SyncRequests : awaiting = {q}
    BY <2>4 DEF TypeOK
  <2> QED
    BY <2>1, <2>3, <2>4, <2>5 DEF TypeOK, Outcomes
<1>7. ASSUME NEW r \in Requests, Write(r) PROVE TypeOK'
  BY <1>7 DEF TypeOK, Write, Callbacks
<1>8. ASSUME NEW r \in Requests, NEW ok \in BOOLEAN, Respond(r, ok) \/ TakeResponse(r, ok)
      PROVE  TypeOK'
  <2>1. CASE Respond(r, ok)
    BY <2>1 DEF TypeOK, Respond
  <2>2. CASE TakeResponse(r, ok)
    <3>1. /\ r \in issued /\ responses' \subseteq responses /\ mSends' \subseteq mSends
          /\ answering' \in {answering, {<<r, ok>>}}
      BY <2>2 DEF TypeOK, TakeResponse
    <3> QED
      BY <2>2, <3>1 DEF TypeOK, TakeResponse
  <2> QED
    BY <1>8, <2>1, <2>2
<1>9. CASE OnOpen \/ OnFail \/ OnDisconnected \/ OnClose
  <2>1. CASE OnOpen
    BY <2>1 DEF TypeOK, OnOpen, Open, Callbacks
  <2>2. CASE OnFail
    BY <2>2 DEF TypeOK, OnFail, Fail, Callbacks
  <2>3. CASE OnDisconnected
    BY <2>3 DEF TypeOK, OnDisconnected, Disconnect, Callbacks
  <2>4. CASE OnClose
    BY <2>4 DEF TypeOK, OnClose, End, Callbacks
  <2> QED
    BY <1>9, <2>1, <2>2, <2>3, <2>4
<1>10. CASE UNCHANGED vars
  BY <1>10 DEF TypeOK, vars, Callbacks
<1> QED
  BY <1>1, <1>2, <1>3, <1>4, <1>5, <1>6, <1>7, <1>8, <1>9, <1>10
  DEF Next, CallerStep, AnswerStep, TimerStep

-------------------------------------------------------------------------------
(* At most one response is in the hands of the transport's thread.          *)
LEMMA OneAnswer ==
  ASSUME TypeOK, NEW r \in Requests, NEW ok \in BOOLEAN, <<r, ok>> \in answering
  PROVE  Answering(r) /\ r \in issued /\ \A q \in Requests : Answering(q) => q = r
<1>1. PICK p \in issued, b \in BOOLEAN : answering = {<<p, b>>}
  BY DEF TypeOK
<1>2. r = p
  BY <1>1
<1>3. \A q \in Requests, c \in BOOLEAN : <<q, c>> \in answering => q = p
  BY <1>1
<1> QED
  BY <1>2, <1>3 DEF Answering

(* A pending request keeps its registration, its timer or its response.     *)
LEMMA ForgottenStep == TypeOK /\ NeverForgotten /\ [Next]_vars => NeverForgotten'
<1> SUFFICES ASSUME TypeOK, NeverForgotten, [Next]_vars, NEW q \in Requests, Pending(q)'
             PROVE  \/ q \in sending' \cup timers' \cup due'
                    \/ Answering(q)'
                    \/ closer' = "returned"
  BY DEF NeverForgotten
<1> USE DEF linkVars, callerVars, mapVars, netVars
<1>a. Pending(q) => \/ q \in sending \cup timers \cup due
                    \/ Answering(q)
                    \/ closer = "returned"
  BY DEF NeverForgotten
<1>1. CASE Close \/ ClosePending
  <2>1. Pending(q)
    BY <1>1 DEF Pending, Close, ClosePending
  <2>2. CASE Close
    BY <2>1, <2>2, <1>a DEF Close, Answering
  <2>3. CASE ClosePending
    BY <2>1, <2>3, <1>a DEF ClosePending, Answering
  <2> QED
    BY <1>1, <2>2, <2>3
<1>2. ASSUME NEW r \in Requests, Register(r) \/ SyncReturn(r)
      PROVE  \/ q \in sending' \cup timers' \cup due'
             \/ Answering(q)'
             \/ closer' = "returned"
  <2>1. Pending(q)
    BY <1>2 DEF Pending, Register, SyncReturn
  <2>2. CASE Register(r)
    <3>1. sending = {r} /\ timers' = timers \cup {r} /\ UNCHANGED <<due, answering, closer>>
      BY <2>2 DEF TypeOK, Register
    <3> QED
      BY <2>1, <3>1, <1>a DEF Answering
  <2>3. CASE SyncReturn(r)
    BY <2>1, <2>3, <1>a DEF SyncReturn, Answering
  <2> QED
    BY <1>2, <2>2, <2>3
<1>3. ASSUME NEW r \in Requests, NEW ok \in BOOLEAN, Answer(r, ok)
      PROVE  \/ q \in sending' \cup timers' \cup due'
             \/ Answering(q)'
             \/ closer' = "returned"
  <2>1. outcome'[r] # <<>> /\ \A p \in Requests : p # r => outcome'[p] = outcome[p]
    BY <1>3, SettleFacts DEF Answer, Outcomes
  <2>2. q # r /\ Pending(q)
    BY <1>3, <2>1 DEF Pending, Answer
  <2>3. ~Answering(q)
    BY <1>3, <2>2, OneAnswer DEF Answer
  <2> QED
    BY <1>3, <1>a, <2>2, <2>3 DEF Answer
<1>4. ASSUME NEW r \in Requests, TimerDue(r) \/ TimerRun(r)
      PROVE  \/ q \in sending' \cup timers' \cup due'
             \/ Answering(q)'
             \/ closer' = "returned"
  <2>1. CASE TimerDue(r)
    BY <2>1, <1>a DEF TimerDue, Pending, Answering
  <2>2. CASE TimerRun(r)
    <3>1. outcome'[r] # <<>> /\ \A p \in Requests : p # r => outcome'[p] = outcome[p]
      BY <2>2, SettleFacts DEF TimerRun, Outcomes
    <3>2. q # r /\ Pending(q)
      BY <2>2, <3>1 DEF Pending, TimerRun
    <3> QED
      BY <2>2, <1>a, <3>2 DEF TimerRun, Answering
  <2> QED
    BY <1>4, <2>1, <2>2
<1>5. ASSUME NEW r \in Requests, Send(r)
      PROVE  \/ q \in sending' \cup timers' \cup due'
             \/ Answering(q)'
             \/ closer' = "returned"
  <2>1. sending = {} /\ UNCHANGED <<timers, due, answering, closer>> /\ issued' = issued \cup {r}
    BY <1>5 DEF Send, CallerIdle
  <2>2. CASE transportClosed
    <3>1. outcome'[r] # <<>> /\ \A p \in Requests : p # r => outcome'[p] = outcome[p]
      BY <1>5, <2>2, SettleFacts DEF Send, Outcomes
    <3> QED
      BY <1>a, <2>1, <3>1 DEF Pending, Answering
  <2>3. CASE ~transportClosed
    <3>1. sending' = {r} /\ outcome' = outcome
      BY <1>5, <2>3 DEF Send
    <3> QED
      BY <1>a, <2>1, <3>1 DEF Pending, Answering
  <2> QED
    BY <2>2, <2>3
<1>6. ASSUME NEW r \in Requests, Write(r)
      PROVE  \/ q \in sending' \cup timers' \cup due'
             \/ Answering(q)'
             \/ closer' = "returned"
  BY <1>6, <1>a DEF Write, Pending, Answering
<1>7. ASSUME NEW r \in Requests, NEW ok \in BOOLEAN, Respond(r, ok) \/ TakeResponse(r, ok)
      PROVE  \/ q \in sending' \cup timers' \cup due'
             \/ Answering(q)'
             \/ closer' = "returned"
  <2>1. UNCHANGED <<issued, sending, timers, due, closer, outcome>> /\ answering \subseteq answering'
    BY <1>7 DEF Respond, TakeResponse
  <2> QED
    BY <1>a, <2>1 DEF Pending, Answering
<1>8. CASE OnOpen \/ OnFail \/ OnDisconnected \/ OnClose
  BY <1>8, <1>a DEF OnOpen, OnFail, OnDisconnected, OnClose, Pending, Answering
<1>9. CASE UNCHANGED vars
  BY <1>9, <1>a DEF vars, Pending, Answering
<1> QED
  BY <1>1, <1>2, <1>3, <1>4, <1>5, <1>6, <1>7, <1>8, <1>9
  DEF Next, CallerStep, AnswerStep, TimerStep

(* No request is settled twice but in the race of its timer and its answer. *)
LEMMA TokensStep == TypeOK /\ Tokens /\ [Next]_vars => Tokens'
<1> SUFFICES ASSUME TypeOK, Tokens, [Next]_vars, NEW q \in Requests
             PROVE  Fresh(q)' /\ Exclusive(q)' /\ Settled(q)'
  BY DEF Tokens
<1> USE DEF linkVars, callerVars, mapVars, netVars
<1>q. Fresh(q) /\ Exclusive(q) /\ Settled(q)
  BY DEF Tokens
<1>l. Len(outcome[q]) \in Nat /\ (outcome[q] = <<>> <=> Len(outcome[q]) = 0)
  BY OutcomeLength
<1>t. mSends \subseteq issued /\ timers \subseteq issued /\ due \subseteq issued
  BY DEF TypeOK
<1>1. ASSUME UNCHANGED <<issued, sending, outcome, raced, due>>,
             mSends' \subseteq mSends, timers' \subseteq timers, answering' = answering
      PROVE  Fresh(q)' /\ Exclusive(q)' /\ Settled(q)'
  BY <1>1, <1>q DEF Fresh, Exclusive, Settled, Answering
<1>2. CASE Close \/ ClosePending
  BY <1>2, <1>1 DEF Close, ClosePending
<1>3. ASSUME NEW r \in Requests, Register(r) PROVE Fresh(q)' /\ Exclusive(q)' /\ Settled(q)'
  <2>1. /\ sending = {r} /\ sending' = {} /\ timers' = timers \cup {r}
        /\ mSends' \subseteq mSends \cup {r}
        /\ UNCHANGED <<issued, due, answering, outcome, raced>>
    BY <1>3 DEF TypeOK, Register
  <2> QED
    BY <2>1, <1>q DEF Fresh, Exclusive, Settled, Answering
<1>4. ASSUME NEW r \in Requests, NEW ok \in BOOLEAN, Answer(r, ok)
      PROVE  Fresh(q)' /\ Exclusive(q)' /\ Settled(q)'
  <2>1. /\ answering' = {} /\ timers' = timers \ {r}
        /\ raced' = IF r \in timers THEN raced ELSE raced \cup {r}
        /\ UNCHANGED <<issued, sending, mSends, due>>
    BY <1>4 DEF Answer
  <2>2. /\ outcome'[r] # <<>> /\ Len(outcome'[r]) = Len(outcome[r]) + 1
        /\ \A p \in Requests : p # r => outcome'[p] = outcome[p]
    BY <1>4, SettleFacts DEF Answer, Outcomes
  <2>3. Answering(r) /\ r \in issued /\ ~Answering(q)'
    BY <1>4, <2>1, OneAnswer DEF Answer, Answering
  <2>4. CASE q = r
    <3>1. r \notin sending /\ r \notin mSends
      BY <1>q, <2>3, <2>4 DEF Fresh, Exclusive
    <3>2. r \in timers => outcome[r] = <<>> /\ r \notin due
      BY <1>q, <2>4 DEF Fresh, Exclusive
    <3>3. r \in due => outcome[r] = <<>>
      BY <1>q, <2>3, <2>4 DEF Exclusive
    <3>4. Len(outcome[r]) <= 1
      BY <1>q, <2>3, <2>4 DEF Settled
    <3> QED
      BY <1>l, <2>1, <2>2, <2>3, <2>4, <3>1, <3>2, <3>3, <3>4 DEF Fresh, Exclusive, Settled
  <2>5. CASE q # r
    BY <1>q, <2>1, <2>2, <2>3, <2>5 DEF Fresh, Exclusive, Settled
  <2> QED
    BY <2>4, <2>5
<1>5. ASSUME NEW r \in Requests, TimerDue(r) PROVE Fresh(q)' /\ Exclusive(q)' /\ Settled(q)'
  <2>1. /\ r \in timers /\ timers' = timers \ {r} /\ due' = due \cup {r}
        /\ UNCHANGED <<issued, sending, mSends, answering, outcome, raced>>
    BY <1>5 DEF TimerDue
  <2>2. Answering(q)' = Answering(q)
    BY <2>1 DEF Answering
  <2>3. q = r => q \notin sending /\ outcome[q] = <<>>
    BY <1>q, <2>1 DEF Fresh
  <2>4. Fresh(q)'
    BY <1>q, <2>1, <2>2, <2>3 DEF Fresh
  <2>5. Exclusive(q)'
    BY <1>q, <2>1, <2>2, <2>3 DEF Exclusive
  <2>6. Settled(q)'
    BY <1>q, <1>l, <2>1, <2>2, <2>3 DEF Settled
  <2> QED
    BY <2>4, <2>5, <2>6
<1>6. ASSUME NEW r \in Requests, TimerRun(r) PROVE Fresh(q)' /\ Exclusive(q)' /\ Settled(q)'
  <2>1. /\ r \in due /\ due' = due \ {r} /\ mSends' = mSends \ {r}
        /\ UNCHANGED <<issued, sending, timers, answering, raced>>
    BY <1>6 DEF TimerRun
  <2>2. /\ outcome'[r] # <<>> /\ Len(outcome'[r]) = Len(outcome[r]) + 1
        /\ \A p \in Requests : p # r => outcome'[p] = outcome[p]
    BY <1>6, SettleFacts DEF TimerRun, Outcomes
  <2>3. Answering(q)' = Answering(q)
    BY <2>1 DEF Answering
  <2>4. CASE q = r
    <3>1. r \in issued /\ r \notin sending /\ r \notin timers
      BY <1>q, <1>t, <2>1, <2>4 DEF Fresh, Exclusive
    <3>2. Len(outcome[r]) <= 1 /\ (outcome[r] # <<>> => r \in raced)
      BY <1>q, <2>1, <2>4 DEF Settled
    <3>3. Answering(r) => outcome[r] = <<>>
      BY <1>q, <2>1, <2>4 DEF Exclusive
    <3> QED
      BY <1>l, <2>1, <2>2, <2>3, <2>4, <3>1, <3>2, <3>3 DEF Fresh, Exclusive, Settled
  <2>5. CASE q # r
    BY <1>q, <2>1, <2>2, <2>3, <2>5 DEF Fresh, Exclusive, Settled
  <2> QED
    BY <2>4, <2>5
<1>7. ASSUME NEW r \in Requests, Send(r) PROVE Fresh(q)' /\ Exclusive(q)' /\ Settled(q)'
  <2>1. /\ sending = {} /\ r \notin issued /\ issued' = issued \cup {r}
        /\ UNCHANGED <<mSends, timers, due, answering, raced>>
    BY <1>7 DEF Send, CallerIdle
  <2>2. r \notin mSends \cup timers \cup due /\ ~Answering(r)
    BY <1>t, <2>1 DEF TypeOK, Answering
  <2>3. Answering(q)' = Answering(q)
    BY <2>1 DEF Answering
  <2>4. CASE transportClosed
    <3>1. /\ sending' = {}
          /\ outcome'[r] # <<>> /\ Len(outcome'[r]) = Len(outcome[r]) + 1
          /\ \A p \in Requests : p # r => outcome'[p] = outcome[p]
      BY <1>7, <2>1, <2>4, SettleFacts DEF Send, Outcomes
    <3>2. CASE q = r
      <4>0. Len(outcome[r]) = 0
        BY <1>q, <1>l, <2>1, <3>2 DEF Fresh
      <4>1. Len(outcome'[q]) = 1
        BY <3>1, <3>2, <4>0
      <4>2. Fresh(q)' /\ Exclusive(q)'
        BY <2>1, <2>2, <2>3, <3>1, <3>2 DEF Fresh, Exclusive
      <4>3. Settled(q)'
        BY <2>1, <2>2, <2>3, <3>2, <4>1 DEF Settled
      <4> QED
        BY <4>2, <4>3
    <3>3. CASE q # r
      BY <1>q, <2>1, <2>3, <3>1, <3>3 DEF Fresh, Exclusive, Settled
    <3> QED
      BY <3>2, <3>3
  <2>5. CASE ~transportClosed
    <3>1. sending' = {r} /\ outcome' = outcome
      BY <1>7, <2>5 DEF Send
    <3> QED
      BY <1>q, <1>l, <2>1, <2>2, <2>3, <3>1 DEF Fresh, Exclusive, Settled
  <2> QED
    BY <2>4, <2>5
<1>8. ASSUME NEW r \in Requests, SyncReturn(r) \/ Write(r)
      PROVE Fresh(q)' /\ Exclusive(q)' /\ Settled(q)'
  BY <1>8, <1>1 DEF SyncReturn, Write
<1>9. ASSUME NEW r \in Requests, NEW ok \in BOOLEAN, Respond(r, ok) \/ TakeResponse(r, ok)
      PROVE  Fresh(q)' /\ Exclusive(q)' /\ Settled(q)'
  <2>1. UNCHANGED <<issued, sending, outcome, raced, due, timers>>
    BY <1>9 DEF Respond, TakeResponse
  <2>2. CASE mSends' = mSends /\ answering' = answering
    BY <1>1, <2>1, <2>2
  <2>3. CASE r \in mSends /\ mSends' = mSends \ {r} /\ answering = {} /\ answering' = {<<r, ok>>}
    <3>1. ~Answering(q) /\ (Answering(q)' <=> q = r)
      BY <2>3 DEF Answering
    <3> QED
      BY <1>q, <1>l, <2>1, <2>3, <3>1 DEF Fresh, Exclusive, Settled
  <2> QED
    BY <1>9, <2>2, <2>3 DEF Respond, TakeResponse
<1>10. CASE OnOpen \/ OnFail \/ OnDisconnected \/ OnClose
  BY <1>10, <1>1 DEF OnOpen, OnFail, OnDisconnected, OnClose
<1>11. CASE UNCHANGED vars
  BY <1>11, <1>1 DEF vars
<1> QED
  BY <1>2, <1>3, <1>4, <1>5, <1>6, <1>7, <1>8, <1>9, <1>10, <1>11
  DEF Next, CallerStep, AnswerStep, TimerStep

-------------------------------------------------------------------------------
(* The three layers hold together in every behaviour of the peer.           *)
LEMMA IndInvAlways == Spec => []IndInv
<1>1. Init => IndInv
  <2> SUFFICES ASSUME Init PROVE IndInv
    OBVIOUS
  <2>1. TypeOK
    <3>1. outcome \in [Requests -> Seq(Outcomes)]
      BY DEF Init
    <3> QED
      BY <3>1 DEF Init, LinkInit, TypeOK, Callbacks, Outcomes
  <2>2. NeverForgotten
    BY DEF Init, NeverForgotten, Pending
  <2>3. Tokens
    <3>1. \A r \in Requests : outcome[r] = <<>> /\ ~Answering(r) /\ Len(outcome[r]) = 0
      BY DEF Init, Answering
    <3> QED
      BY <3>1 DEF Init, Tokens, Fresh, Exclusive, Settled
  <2> QED
    BY <2>1, <2>2, <2>3 DEF IndInv
<1>2. IndInv /\ [Next]_vars => IndInv'
  BY TypeStep, ForgottenStep, TokensStep DEF IndInv
<1> QED
  BY <1>1, <1>2, PTL DEF Spec

(* Every variable of the peer stays in its type: one response is handled at *)
(* a time and only requests that were made are in the map, on the looper or *)
(* on the wire.                                                             *)
THEOREM TypeCorrect == Spec => []TypeOK
<1>1. IndInv => TypeOK
  BY DEF IndInv
<1> QED
  BY <1>1, IndInvAlways, PTL

(* A request that request() has sent is never forgotten before close(): its *)
(* registration in mSends, its timeout check or its response handler is     *)
(* still to come, whatever the HashMap lost and in whatever order the       *)
(* response and the registration happened.                                  *)
THEOREM RequestsRemembered == Spec => []NeverForgotten
<1>1. IndInv => NeverForgotten
  BY DEF IndInv
<1> QED
  BY <1>1, IndInvAlways, PTL

(* handleResponse() and the timeout check settle a request once, or twice   *)
(* when the check had left the looper before the response was delivered.    *)
THEOREM RequestsSettledOnce == Spec => []SettledOnce
<1>1. IndInv => SettledOnce
  <2> SUFFICES ASSUME IndInv, NEW r \in Requests, Len(outcome[r]) > 1
               PROVE  Len(outcome[r]) = 2 /\ r \in raced
    BY DEF SettledOnce
  <2>1. Len(outcome[r]) \in Nat
    BY OutcomeLength DEF IndInv
  <2>2. Len(outcome[r]) <= 2 /\ (Len(outcome[r]) = 2 => r \in raced)
    BY DEF IndInv, Tokens, Settled
  <2>3. \A n \in Nat : n > 1 /\ n <= 2 => n = 2
    OBVIOUS
  <2> QED
    BY <2>1, <2>2, <2>3, Zenon
<1> QED
  BY <1>1, IndInvAlways, PTL

===============================================================================
