----------------------------- MODULE RecvTransport -----------------------------
(***************************************************************************)
(* The receiving transport: RecvTransport (Transport.cpp), RecvHandler     *)
(* (Handler.cpp), the life of its Consumers (Consumer.cpp) and its         *)
(* RemoteSdp, which here is the offer.  Every operation runs to its end on *)
(* RoomClient's worker thread and is one step.                             *)
(*                                                                         *)
(* The PeerConnection is external: it takes an offer unless two m= lines   *)
(* have the same mid, and then has a transceiver for each line.            *)
(***************************************************************************)
EXTENDS RemoteSdp, FiniteSets

CONSTANTS
  Faults,        \* what may throw: "probator", "remote", "connect", "local"
  MaxConsume,    \* bound: Consume() calls
  MaxRestarts    \* bound: RestartIce() calls

ASSUME FaultsAssumption == Faults \subseteq {"probator", "remote", "connect", "local"}
ASSUME BoundsAssumption == MaxConsume \in Nat /\ MaxRestarts \in Nat
ASSUME NoneAssumption == None = 0

ProbatorMid == -1     \* the mid of the probation section; others are 1, 2, ...

VARIABLES
  serverMids,               \* the server puts a mid into each consumer's parameters
  closed,                   \* Transport.closed
  transportReady,           \* Handler.transportReady
  sdp,                      \* remoteSdp
  mapMidTransceiver,        \* the mids in the map
  calls,                    \* Consume() calls so far, the server's mid
  cons,                     \* the Consumers created, in order
  consumers,                \* RecvTransport.consumers: their positions in cons
  probatorConsumerCreated,
  failed                    \* history: <<mid, cause>> of the Receive() calls that threw

vars == <<serverMids, closed, transportReady, sdp, mapMidTransceiver, calls,
          cons, consumers, probatorConsumerCreated, failed>>

Init ==
  /\ serverMids \in BOOLEAN
  /\ closed = FALSE /\ transportReady = FALSE
  /\ sdp = NewSdp(TRUE)
  /\ mapMidTransceiver = {}
  /\ calls = 0
  /\ cons = <<>> /\ consumers = {}
  /\ probatorConsumerCreated = FALSE
  /\ failed = {}

-------------------------------------------------------------------------------
(* RecvHandler, as a record of what its methods change. *)
Handler == [sdp |-> sdp, ready |-> transportReady, map |-> mapMidTransceiver,
            failed |-> failed]

(* The PeerConnection accepts the offer. *)
Acceptable(media) ==
  \A i, j \in DOMAIN media : media[i].mid = media[j].mid => i = j

(* The mid of a consumer: the server's or, if it gives none, the size of    *)
(* the map (which starts at 0 in the code, at 1 here).                      *)
LocalId(h) == IF serverMids THEN calls + 1 ELSE Cardinality(h.map) + 1

(* SetupTransport("client"): the remote side is the DTLS server. *)
SetupSdp(h, s) == IF h.ready THEN s ELSE UpdateDtlsRole(s, "server")

(* What Receive(mid) makes of handler h when it throws.  The section is in  *)
(* the SDP from the start and stays there.                                  *)
ReceiveThrows(h, mid) ==
  LET s == Receive(h.sdp, mid)
      fault == h.failed \cup {<<mid, "fault">>}
  IN  (IF ~Acceptable(s.media)                             \* SetRemoteDescription
       THEN {[h EXCEPT !.sdp = s, !.failed = @ \cup {<<mid, "refused">>}]} ELSE {})
      \cup
      (IF "remote" \in Faults /\ Acceptable(s.media)
       THEN {[h EXCEPT !.sdp = s, !.failed = fault]} ELSE {})
      \cup
      (IF "connect" \in Faults /\ ~h.ready /\ Acceptable(s.media)   \* OnConnect
       THEN {[h EXCEPT !.sdp = SetupSdp(h, s), !.failed = fault]} ELSE {})
      \cup
      (IF "local" \in Faults /\ Acceptable(s.media)        \* SetLocalDescription
       THEN {[h EXCEPT !.sdp = SetupSdp(h, s), !.ready = TRUE, !.failed = fault]} ELSE {})

ReceiveReturns(h, mid) ==
  LET s == Receive(h.sdp, mid)
  IN  IF Acceptable(s.media)
      THEN {[h EXCEPT !.sdp = SetupSdp(h, s), !.ready = TRUE, !.map = @ \cup {mid}]}
      ELSE {}

Becomes(h) ==
  /\ sdp' = h.sdp
  /\ transportReady' = h.ready
  /\ mapMidTransceiver' = h.map
  /\ failed' = h.failed

-------------------------------------------------------------------------------
MayConsume == ~closed /\ calls < MaxConsume

(* Consume() throws in Receive(). *)
ConsumeFails ==
  /\ MayConsume
  /\ calls' = calls + 1
  /\ \E h \in ReceiveThrows(Handler, LocalId(Handler)) : Becomes(h)
  /\ UNCHANGED <<serverMids, closed, cons, consumers, probatorConsumerCreated>>

NewConsumer(kind) ==
  /\ MayConsume
  /\ calls' = calls + 1
  /\ cons' = Append(cons, [localId |-> LocalId(Handler), kind |-> kind, closed |-> FALSE])
  /\ consumers' = consumers \cup {Len(cons) + 1}
  /\ UNCHANGED <<serverMids, closed>>

(* Consume() of a consumer that needs no probation section. *)
Consume(kind) ==
  /\ kind = "video" => probatorConsumerCreated
  /\ NewConsumer(kind)
  /\ \E h \in ReceiveReturns(Handler, LocalId(Handler)) : Becomes(h)
  /\ UNCHANGED probatorConsumerCreated

(* Consume() of a video consumer while there is no probation section: it    *)
(* also receives that one; a failure there is caught, and the parameters    *)
(* may already fail to validate.                                            *)
ConsumeAndProbe ==
  /\ ~probatorConsumerCreated
  /\ NewConsumer("video")
  /\ \E h \in ReceiveReturns(Handler, LocalId(Handler)) :
       \/ /\ \E g \in ReceiveReturns(h, ProbatorMid) : Becomes(g)
          /\ probatorConsumerCreated' = TRUE
       \/ /\ \E g \in ReceiveThrows(h, ProbatorMid) : Becomes(g)
          /\ UNCHANGED probatorConsumerCreated
       \/ /\ "probator" \in Faults
          /\ Becomes(h)
          /\ UNCHANGED probatorConsumerCreated

(* Mutation: the mid is erased from the map. *)
StopReceivingErases(mid) ==
  /\ sdp' = IF mid \in mapMidTransceiver THEN CloseMediaSection(sdp, mid) ELSE sdp
  /\ mapMidTransceiver' = mapMidTransceiver \ {mid}

(* Mutation: the section is left as it is. *)
StopReceivingNoop(mid) == UNCHANGED <<sdp, mapMidTransceiver>>

(* StopReceiving(mid): an unknown mid throws; the renegotiation that        *)
(* follows may throw too and changes nothing more.                          *)
StopReceiving(mid) ==
  /\ sdp' = IF mid \in mapMidTransceiver THEN CloseMediaSection(sdp, mid) ELSE sdp
  /\ UNCHANGED mapMidTransceiver

(* Consumer::Close() and RecvTransport::OnClose(). *)
CloseConsumer(k) ==
  /\ ~cons[k].closed
  /\ cons' = [cons EXCEPT ![k].closed = TRUE]
  /\ consumers' = consumers \ {k}
  /\ IF closed THEN UNCHANGED <<sdp, mapMidTransceiver>>
     ELSE StopReceiving(cons[k].localId)
  /\ UNCHANGED <<serverMids, closed, transportReady, calls,
                 probatorConsumerCreated, failed>>

RestartIce ==
  /\ ~closed
  /\ sdp.ice < MaxRestarts
  /\ sdp' = UpdateIceParameters(sdp, sdp.ice + 1)
  /\ UNCHANGED <<serverMids, closed, transportReady, mapMidTransceiver, calls,
                 cons, consumers, probatorConsumerCreated, failed>>

(* RecvTransport::Close(): every Consumer in the map is told. *)
Close ==
  /\ ~closed
  /\ closed' = TRUE
  /\ cons' = [k \in DOMAIN cons |->
                IF k \in consumers THEN [cons[k] EXCEPT !.closed = TRUE] ELSE cons[k]]
  /\ UNCHANGED <<serverMids, transportReady, sdp, mapMidTransceiver, calls, consumers,
                 probatorConsumerCreated, failed>>

Next ==
  \/ ConsumeFails
  \/ \E kind \in {"audio", "video"} : Consume(kind)
  \/ ConsumeAndProbe
  \/ \E k \in DOMAIN cons : CloseConsumer(k)
  \/ RestartIce
  \/ Close

Spec == Init /\ [][Next]_vars

-------------------------------------------------------------------------------
(* Every variable stays in its type. *)
TypeOK ==
  /\ {serverMids, closed, transportReady, probatorConsumerCreated} \subseteq BOOLEAN
  /\ calls \in 0 .. MaxConsume
  /\ sdp.sections \in Seq([mid : {ProbatorMid} \cup 1 .. MaxConsume + 1,
                           state : {"active", "disabled", "closed"},
                           ice : 0 .. MaxRestarts, setup : {"actpass"}])
  /\ mapMidTransceiver \subseteq {ProbatorMid} \cup 1 .. MaxConsume + 1
  /\ cons \in Seq([localId : 1 .. MaxConsume + 1, kind : {"audio", "video"},
                   closed : BOOLEAN])
  /\ consumers \subseteq DOMAIN cons

(* Whatever failed before, midToIndex leads from an open consumer to its    *)
(* own section, which is active: StopReceiving() closes the right one.      *)
OwnSection ==
  \A k \in DOMAIN cons : ~cons[k].closed =>
     /\ cons[k].localId \in DOMAIN sdp.midToIndex
     /\ LET section == sdp.sections[sdp.midToIndex[cons[k].localId]]
        IN  section.mid = cons[k].localId /\ section.state = "active"
     /\ \A j \in DOMAIN cons : cons[j].localId = cons[k].localId => j = k

(* The bundled transport is never closed under the other sections.          *)
BundleKept == FirstSectionOpen(sdp)

(* The offer is up to date: ICE parameters of the last restart in every     *)
(* section, a=setup:actpass, BUNDLE over the open sections.                 *)
SdpWritten == Written(sdp) /\ \A i \in DOMAIN sdp.media : sdp.media[i].setup = "actpass"

(* RemoteSdp over any sequence of Consume() calls, closings and restarts,   *)
(* whatever fails in between (AddSection, CloseMediaSection,                *)
(* UpdateIceParameters).                                                    *)
SdpConsistent == BundleKept /\ SdpWritten

(* Nothing is received for nobody: an active section is that of an open     *)
(* consumer, the probation section, or one whose Receive() threw.           *)
NoOrphanSection ==
  ~closed => \A i \in DOMAIN sdp.sections : sdp.sections[i].state = "active" =>
                \/ sdp.sections[i].mid \in {f[1] : f \in failed} \cup {ProbatorMid}
                \/ \E k \in DOMAIN cons : ~cons[k].closed
                                          /\ cons[k].localId = sdp.sections[i].mid

(* The offer never has a mid twice, so that the PeerConnection takes it, as *)
(* long as no fault made a Receive() throw: no history of consuming and     *)
(* closing makes every later Consume() fail.  With the server's mids only   *)
(* the probation section, tried again after a failure, may be there twice.  *)
MidsDistinct ==
  \A i, j \in DOMAIN sdp.media :
     sdp.media[i].mid = sdp.media[j].mid =>
        i = j \/ (IF serverMids THEN sdp.media[i].mid = ProbatorMid ELSE \E f \in failed : f[2] = "fault")
===============================================================================
