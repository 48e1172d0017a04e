------------------------------- MODULE RemoteSdp -------------------------------
(***************************************************************************)
(* RemoteSdp.cpp: the SDP that stands for the mediasoup router in the      *)
(* negotiation with the local PeerConnection.  Its state is a record that  *)
(* the operators below transform; SendTransport.tla and RecvTransport.tla  *)
(* own one each.                                                           *)
(*                                                                         *)
(*   sections    mediaSections, the vector of m= sections                  *)
(*   midToIndex  the map from mid to position (positions start at 1)       *)
(*   firstMid    the mid of the first section, None while there is none    *)
(*   media       sdpObject["media"], what GetSdp() writes                  *)
(*   bundle      the mids of the BUNDLE group                              *)
(*   ice, role   current remote ICE parameters and DTLS role               *)
(*   offers      the SDP is an offer (receiving side), else an answer      *)
(*                                                                         *)
(* A section is its mid, whether it is active, disabled or closed (port 0) *)
(* and the ICE parameters and the setup attribute written into it.         *)
(***************************************************************************)
EXTENDS Integers, Sequences

CONSTANT None    \* the empty mid

NewSdp(offers) ==
  [sections |-> <<>>, midToIndex |-> [m \in {} |-> 0], firstMid |-> None,
   media |-> <<>>, bundle |-> {}, ice |-> 0, role |-> "auto",
   offers |-> offers]

(* midToIndex[mid]: std::map's operator[] inserts index 0 for an unknown mid. *)
IndexOf(sdp, mid) ==
  IF mid \in DOMAIN sdp.midToIndex THEN sdp.midToIndex[mid] ELSE 1

Store(map, mid, idx) ==
  [m \in DOMAIN map \cup {mid} |-> IF m = mid THEN idx ELSE map[m]]

OpenMids(sections) ==
  {sections[i].mid : i \in {j \in DOMAIN sections : sections[j].state # "closed"}}

RegenerateBundleMids(sdp) == [sdp EXCEPT !.bundle = OpenMids(sdp.sections)]

(* SetDtlsRole() of a section: an offer always says actpass. *)
Setup(sdp, role) ==
  IF sdp.offers \/ role = "auto" THEN "actpass"
  ELSE IF role = "client" THEN "active" ELSE "passive"

(* A new section is built from the current parameters. *)
NewSection(sdp, mid) ==
  [mid |-> mid, state |-> "active", ice |-> sdp.ice, setup |-> Setup(sdp, sdp.role)]

(* Mutation: the last closed section is chosen. *)
GetNextMediaSectionIdxLast(sdp) ==
  LET Reusable == {i \in DOMAIN sdp.sections : sdp.sections[i].state = "closed"}
  IN  IF Reusable = {} THEN Len(sdp.sections) + 1
      ELSE CHOOSE i \in Reusable : \A j \in Reusable : i >= j

(* Position of the first closed section, or one past the end. *)
GetNextMediaSectionIdx(sdp) ==
  LET Reusable == {i \in DOMAIN sdp.sections : sdp.sections[i].state = "closed"}
  IN  IF Reusable = {} THEN Len(sdp.sections) + 1
      ELSE CHOOSE i \in Reusable : \A j \in Reusable : i <= j

AddMediaSection(sdp, mid) ==
  LET new == NewSection(sdp, mid)
  IN  RegenerateBundleMids(
        [sdp EXCEPT !.firstMid   = IF @ = None THEN mid ELSE @,
                    !.sections   = Append(@, new),
                    !.midToIndex = Store(@, mid, Len(sdp.sections) + 1),
                    !.media      = Append(@, new)])

(* Mutation: the new mid is not put in the map. *)
ReplaceMediaSectionUnmapped(sdp, mid, reuseMid) ==
  LET idx == IndexOf(sdp, reuseMid)
      new == NewSection(sdp, mid)
      old == sdp.sections[idx].mid
  IN  RegenerateBundleMids(
        [sdp EXCEPT !.sections[idx] = new,
                    !.midToIndex = [m \in DOMAIN @ \ {old} |-> @[m]],
                    !.media[idx] = new])

ReplaceMediaSection(sdp, mid, reuseMid) ==
  LET idx == IndexOf(sdp, reuseMid)
      new == NewSection(sdp, mid)
      old == sdp.sections[idx].mid
  IN  RegenerateBundleMids(
        [sdp EXCEPT !.sections[idx] = new,
                    !.midToIndex    = Store([m \in DOMAIN @ \ {old} |-> @[m]], mid, idx),
                    !.media[idx]    = new])

(* Send(): idx is what GetNextMediaSectionIdx() said, mid that of the offer. *)
Send(sdp, idx, mid) ==
  IF idx <= Len(sdp.sections)
  THEN ReplaceMediaSection(sdp, mid, sdp.sections[idx].mid)
  ELSE AddMediaSection(sdp, mid)

Receive(sdp, mid) == AddMediaSection(sdp, mid)

(* Mutation: the last section is closed instead of the one looked up. *)
CloseMediaSectionBack(sdp, mid) ==
  LET idx == Len(sdp.sections)
      new == [sdp.sections[idx] EXCEPT !.state = IF mid = sdp.firstMid
                                                 THEN "disabled" ELSE "closed"]
  IN  RegenerateBundleMids([sdp EXCEPT !.sections[idx] = new, !.media[idx] = new])

(* Mutation: the first section is closed like any other. *)
CloseMediaSectionAlways(sdp, mid) ==
  LET idx == IndexOf(sdp, mid)
      new == [sdp.sections[idx] EXCEPT !.state = "closed"]
  IN  RegenerateBundleMids(
        [sdp EXCEPT !.sections[idx] = new, !.midToIndex = Store(@, mid, idx),
                    !.media[idx] = new])

(* The first section is only disabled: closing it would take down the       *)
(* transport all the others are bundled on.                                 *)
CloseMediaSection(sdp, mid) ==
  LET idx == IndexOf(sdp, mid)
      old == sdp.sections[idx]
      new == [old EXCEPT !.state = IF mid = sdp.firstMid
                                   THEN IF old.state = "closed" THEN "closed" ELSE "disabled"
                                   ELSE "closed"]
  IN  RegenerateBundleMids(
        [sdp EXCEPT !.sections[idx] = new,
                    !.midToIndex    = Store(@, mid, idx),
                    !.media[idx]    = new])

(* Mutation: the SDP object is not refreshed from the sections. *)
UpdateIceParametersStale(sdp, ice) ==
  LET new == [i \in DOMAIN sdp.sections |-> [sdp.sections[i] EXCEPT !.ice = ice]]
  IN  [sdp EXCEPT !.ice = ice, !.sections = new]

UpdateIceParameters(sdp, ice) ==
  LET new == [i \in DOMAIN sdp.sections |-> [sdp.sections[i] EXCEPT !.ice = ice]]
  IN  [sdp EXCEPT !.ice = ice, !.sections = new, !.media = new]

UpdateDtlsRole(sdp, role) ==
  LET new == [i \in DOMAIN sdp.sections |-> 
             [sdp.sections[i] EXCEPT !.setup = Setup(sdp, role)]]
  IN  [sdp EXCEPT !.role = role, !.sections = new, !.media = new]

-------------------------------------------------------------------------------
(* What the SDP handed to the PeerConnection must satisfy. *)

(* midToIndex is the inverse of the vector: looking up the mid of a section *)
(* gives that section, and nothing else is in the map.                      *)
IndexExact(sdp) ==
  /\ DOMAIN sdp.midToIndex = {sdp.sections[i].mid : i \in DOMAIN sdp.sections}
  /\ \A i \in DOMAIN sdp.sections : sdp.midToIndex[sdp.sections[i].mid] = i

(* The first section stays first and is never closed: the transport all     *)
(* other sections are bundled on survives every CloseMediaSection().        *)
FirstSectionOpen(sdp) ==
  sdp.sections # <<>> => /\ sdp.sections[1].mid = sdp.firstMid
                         /\ sdp.sections[1].state # "closed"
                         /\ sdp.firstMid \in sdp.bundle

(* What GetSdp() writes is what the sections say, in every field, with the  *)
(* current ICE parameters and DTLS role, and BUNDLE lists the open ones.    *)
Written(sdp) ==
  /\ sdp.media = sdp.sections
  /\ \A i \in DOMAIN sdp.media :
        sdp.media[i].ice = sdp.ice /\ sdp.media[i].setup = Setup(sdp, sdp.role)
  /\ sdp.bundle = OpenMids(sdp.sections)
===============================================================================
