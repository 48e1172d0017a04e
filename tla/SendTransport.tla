----------------------------- MODULE SendTransport -----------------------------
(***************************************************************************)
(* The sending transport: SendTransport (Transport.cpp), SendHandler       *)
(* (Handler.cpp), the life of its Producers (Producer.cpp) and its         *)
(* RemoteSdp, negotiating with libwebrtc's PeerConnection.                 *)
(*                                                                         *)
(* Every operation runs to its end on RoomClient's worker thread, so it is *)
(* one step; the steps differ in where the operation fails.  The           *)
(* PeerConnection is external: it numbers its transceivers (the number     *)
(* stands for the mid it generates), gives a new one the first m= line     *)
(* that both sides have rejected, or a line at the end, and refuses an     *)
(* answer whose m= lines are not those of its offer.                       *)
(***************************************************************************)
EXTENDS RemoteSdp

CONSTANTS
  Faults,        \* what may fail: "offer", "answer", "validate", "produce", "negotiate"
  MaxProduce,    \* bound: Produce() calls
  MaxRestarts    \* bound: RestartIce() calls

ASSUME FaultsAssumption == Faults \subseteq {"offer", "answer", "validate", "produce", "negotiate"}
ASSUME BoundsAssumption == MaxProduce \in Nat /\ MaxRestarts \in Nat
ASSUME NoneAssumption == None = 0    \* mids are the numbers 1, 2, ...

VARIABLES
  closed,          \* Transport.closed
  transportReady,  \* Handler.transportReady
  sdp,             \* remoteSdp
  pc,              \* the PeerConnection, see NewPc
  mapMidTransceiver,
  prods,           \* the Producers created, in order
  producers,       \* SendTransport.producers: producer id -> position in prods
  abandoned,       \* history: mids whose answer the PeerConnection refused
  happened         \* history: the faults so far

vars == <<closed, transportReady, sdp, pc, mapMidTransceiver, prods, producers,
          abandoned, happened>>

(* A fault that the code meets in its environment. *)
Fault(f) == f \in Faults /\ happened' = happened \cup {f}

-------------------------------------------------------------------------------
(* The PeerConnection *)

NewPc == [count    |-> 0,      \* transceivers added
          leftover |-> 0,      \* a transceiver without m= line, 0 if none
          local    |-> <<>>,   \* local description: transceiver of each m= line
          rejected |-> {}]     \* m= lines rejected in the current descriptions

(* CreateOffer() and SetLocalDescription() give transceiver t its m= line. *)
Place(p, t) ==
  IF p.rejected = {}
  THEN [p EXCEPT !.local = Append(@, t)]
  ELSE LET i == CHOOSE k \in p.rejected : \A j \in p.rejected : k <= j
       IN  [p EXCEPT !.local[i] = t, !.rejected = @ \ {i}]

Offer(p) ==
  IF p.leftover = 0 THEN p ELSE [Place(p, p.leftover) EXCEPT !.leftover = 0]

AddTransceiver(p) == [Place(Offer(p), p.count + 1) EXCEPT !.count = p.count + 1]

(* SetRemoteDescription(ANSWER, answer) *)
Matches(p, answer) ==
  /\ Len(answer) = Len(p.local)
  /\ \A i \in DOMAIN answer : answer[i].mid = p.local[i]

Answered(p, answer) ==
  [p EXCEPT !.rejected = {i \in DOMAIN answer : answer[i].state = "closed"}]

-------------------------------------------------------------------------------
Init ==
  /\ closed = FALSE
  /\ transportReady = FALSE
  /\ sdp = NewSdp(FALSE)
  /\ pc = NewPc
  /\ mapMidTransceiver = {}
  /\ prods = <<>>
  /\ producers = [id \in {} |-> 0]
  /\ abandoned = {} /\ happened = {}

Mid == pc.count + 1     \* of the transceiver that Send() adds

(* SetupTransport("server"): the remote side is the DTLS client. *)
SetupSdp == IF transportReady THEN sdp ELSE UpdateDtlsRole(sdp, "client")

(* What Send() makes of the SDP: the section is built from the m= line at   *)
(* the position that GetNextMediaSectionIdx() gave before the offer.        *)
SentSdp ==
  LET idx == GetNextMediaSectionIdx(sdp)
  IN  Send(SetupSdp, idx, AddTransceiver(pc).local[idx])

SendSucceeds == Matches(AddTransceiver(pc), SentSdp.media)

MayProduce == ~closed /\ pc.count < MaxProduce

(* The offer fails: CreateOffer() throws, SetupTransport() does in          *)
(* OnConnect(), or SetLocalDescription() does.  The transceiver is made     *)
(* inactive and stays in the PeerConnection.  (One such at a time.)         *)
SendFailsEarly(at) ==
  /\ MayProduce
  /\ Fault("offer")
  /\ pc.leftover = 0
  /\ at = "connect" => ~transportReady
  /\ pc' = [pc EXCEPT !.count = Mid, !.leftover = Mid]
  /\ sdp' = IF at = "create" THEN sdp ELSE SetupSdp
  /\ transportReady' = (transportReady \/ at = "local")
  /\ UNCHANGED <<closed, mapMidTransceiver, prods, producers, abandoned>>

(* SetRemoteDescription() throws, because the answer does not fit the offer *)
(* or for a reason of its own; sdp has the new section already.             *)
SendFailsLate ==
  /\ MayProduce
  /\ IF SendSucceeds THEN Fault("answer") ELSE UNCHANGED happened
  /\ pc' = AddTransceiver(pc)
  /\ sdp' = SentSdp
  /\ transportReady' = TRUE
  /\ abandoned' = abandoned \cup {Mid}
  /\ UNCHANGED <<closed, mapMidTransceiver, prods, producers>>

SendDone ==
  /\ MayProduce
  /\ SendSucceeds
  /\ transportReady' = TRUE
  /\ mapMidTransceiver' = mapMidTransceiver \cup {Mid}

(* Produce() after a good Send(): OnProduce() answers with the producer id, *)
(* or with the empty id 0 when the request to the server failed.            *)
Produce(id) ==
  /\ SendDone
  /\ IF id = 0 THEN Fault("produce") ELSE UNCHANGED happened
  /\ sdp' = SentSdp
  /\ pc' = Answered(AddTransceiver(pc), SentSdp.media)
  /\ prods' = Append(prods, [id |-> id, localId |-> Mid, closed |-> FALSE])
  /\ producers' = Store(producers, id, Len(prods) + 1)
  /\ UNCHANGED <<closed, abandoned>>

(* An offer without new transceiver, answered with SDP s: every step of it  *)
(* may throw, an answer that does not fit is refused.                       *)
Renegotiate(p, s) ==
  \/ /\ Matches(Offer(p), s.media)
     /\ pc' = Answered(Offer(p), s.media)
     /\ UNCHANGED happened
  \/ /\ ~Matches(Offer(p), s.media)
     /\ pc' = Offer(p)
     /\ UNCHANGED happened
  \/ /\ Fault("negotiate")
     /\ pc' \in {p, Offer(p)}

(* StopSending(mid) on SDP s and PeerConnection p; an unknown mid throws.   *)
StopSending(s, p, mid) ==
  IF mid \in mapMidTransceiver'
  THEN /\ sdp' = CloseMediaSection(s, mid)
       /\ Renegotiate(p, sdp')
  ELSE sdp' = s /\ pc' = p /\ UNCHANGED happened

(* Mutation: the error path does not stop what Send() started. *)
ProduceInvalidNoStop ==
  /\ SendDone
  /\ "validate" \in Faults
  /\ sdp' = SentSdp
  /\ pc' = Answered(AddTransceiver(pc), SentSdp.media)
  /\ UNCHANGED <<closed, prods, producers, abandoned, happened>>

(* validateRtpParameters() throws after a good Send(): StopSending(). *)
ProduceInvalid ==
  /\ SendDone
  /\ "validate" \in Faults
  /\ StopSending(SentSdp, Answered(AddTransceiver(pc), SentSdp.media), Mid)
  /\ UNCHANGED <<closed, prods, producers, abandoned>>

Erase(id) == [i \in DOMAIN producers \ {id} |-> producers[i]]

(* Producer::Close() and SendTransport::OnClose(). *)
CloseProducer(k) ==
  /\ ~prods[k].closed
  /\ prods' = [prods EXCEPT ![k].closed = TRUE]
  /\ producers' = Erase(prods[k].id)
  /\ UNCHANGED <<closed, transportReady, mapMidTransceiver, abandoned>>
  /\ IF closed THEN UNCHANGED <<sdp, pc, happened>>
     ELSE StopSending(sdp, pc, prods[k].localId)

RestartIce ==
  /\ ~closed
  /\ sdp.ice < MaxRestarts
  /\ sdp' = UpdateIceParameters(sdp, sdp.ice + 1)
  /\ IF transportReady THEN Renegotiate(pc, sdp') ELSE UNCHANGED <<pc, happened>>
  /\ UNCHANGED <<closed, transportReady, mapMidTransceiver, prods, producers,
                 abandoned>>

(* Mutation: only the base class's Close() runs. *)
CloseUntold ==
  /\ ~closed
  /\ closed' = TRUE
  /\ UNCHANGED <<transportReady, sdp, pc, mapMidTransceiver, prods, producers,
                 abandoned, happened>>

(* SendTransport::Close(): every Producer in the map is told. *)
Close ==
  /\ ~closed
  /\ closed' = TRUE
  /\ prods' = [k \in DOMAIN prods |->
                 IF \E id \in DOMAIN producers : producers[id] = k
                 THEN [prods[k] EXCEPT !.closed = TRUE] ELSE prods[k]]
  /\ UNCHANGED <<transportReady, sdp, pc, mapMidTransceiver, producers, abandoned,
                 happened>>

Next ==
  \/ \E at \in {"create", "connect", "local"} : SendFailsEarly(at)
  \/ SendFailsLate
  \/ \E id \in {0, Len(prods) + 1} : Produce(id)
  \/ ProduceInvalid
  \/ \E k \in DOMAIN prods : CloseProducer(k)
  \/ RestartIce
  \/ Close

Spec == Init /\ [][Next]_vars

-------------------------------------------------------------------------------
(* Every variable stays in its type. *)
Section == [mid : 1 .. pc.count, state : {"active", "disabled", "closed"},
            ice : Nat, setup : {"actpass", "active", "passive"}]
TypeOK ==
  /\ closed \in BOOLEAN /\ transportReady \in BOOLEAN
  /\ pc.count \in 0 .. MaxProduce /\ pc.leftover \in 0 .. pc.count
  /\ pc.local \in Seq(1 .. pc.count) /\ pc.rejected \subseteq DOMAIN pc.local
  /\ sdp.sections \in Seq(Section)
  /\ sdp.firstMid \in 0 .. pc.count /\ sdp.ice \in 0 .. MaxRestarts
  /\ mapMidTransceiver \subseteq 1 .. pc.count
  /\ abandoned \subseteq 1 .. pc.count
  /\ prods \in Seq([id : Nat, localId : 1 .. pc.count, closed : BOOLEAN])
  /\ \A id \in DOMAIN producers : producers[id] \in DOMAIN prods

(* However sections are added, closed, replaced and renumbered, also by     *)
(* operations that fail half-way, midToIndex finds the section of a mid:    *)
(* CloseMediaSection() never hits another producer's section.               *)
SectionsIndexed == IndexExact(sdp)

(* The bundled transport is never closed under the other sections.          *)
BundleKept == FirstSectionOpen(sdp)

(* The SDP given to the PeerConnection is up to date: no section is left    *)
(* with the ICE credentials of before a restart, with actpass in an answer  *)
(* or out of the BUNDLE group.                                              *)
SdpWritten ==
  /\ Written(sdp)
  /\ \A i \in DOMAIN sdp.media : sdp.media[i].setup = "active"

(* RemoteSdp over any sequence of sections that are added, closed, reused   *)
(* and restarted, whatever fails in between: its map, its sections and the  *)
(* SDP object stay in step, and the section that carries the others stays.  *)
SdpConsistent == SectionsIndexed /\ BundleKept /\ SdpWritten

(* Unless an offer failed, or the offer of a StopSending() or RestartIce(): *)
(* the router's SDP and the local description have the same m= lines and    *)
(* agree on which may be reused, so the position GetNextMediaSectionIdx()   *)
(* announces is the one the PeerConnection then picks.  A refused answer or *)
(* invalid parameters do not disturb this.                                  *)
Aligned ==
  happened \cap {"offer", "negotiate"} = {} =>
     /\ Matches(pc, sdp.media)
     /\ pc.rejected = {i \in DOMAIN sdp.media : sdp.media[i].state = "closed"}

(* A producer that is open sends on a section of its own, which is active;  *)
(* no reuse of closed sections takes it away.                               *)
OwnSection ==
  \A k \in DOMAIN prods : ~prods[k].closed =>
     /\ \E i \in DOMAIN sdp.sections :
           sdp.sections[i].mid = prods[k].localId /\ sdp.sections[i].state = "active"
     /\ \A j \in DOMAIN prods : prods[j].localId = prods[k].localId => j = k

(* No section keeps sending for nobody: without such failures an active     *)
(* section belongs to an open producer or its Send() failed in              *)
(* SetRemoteDescription().                                                  *)
NoOrphanSection ==
  ~closed /\ happened \cap {"offer", "negotiate"} = {} =>
     \A i \in DOMAIN sdp.sections : sdp.sections[i].state = "active" =>
        \/ sdp.sections[i].mid \in abandoned
        \/ \E k \in DOMAIN prods : ~prods[k].closed /\ prods[k].localId = sdp.sections[i].mid

(* "Close all Producers.": when the transport has been closed, so have all  *)
(* its producers, if every one of them got an id from the server.           *)
ProducersWithIdClosed ==
  "produce" \notin happened /\ closed => \A k \in DOMAIN prods : prods[k].closed
===============================================================================
