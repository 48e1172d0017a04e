------------------------- MODULE SendTransport_proofs -------------------------
(***************************************************************************)
(* Proofs about the sending transport, for any number of Produce() calls   *)
(* and restarts and any choice of the faults.                              *)
(*                                                                         *)
(* The inductive invariant relates the two lists of m= lines that the code *)
(* never compares: the router's SDP and the local description.  However an *)
(* operation fails, an open section is at the line of its transceiver      *)
(* (Lined); the rest of the invariant says which producer each section     *)
(* works for.                                                              *)
(***************************************************************************)
EXTENDS SendTransport, RemoteSdp_proofs, WellFoundedInduction

Reusable(s) == {i \in DOMAIN s.sections : s.sections[i].state = "closed"}

Pcs == [count : Nat, leftover : Nat, local : Seq(Nat), rejected : SUBSET Nat]

(* The m= lines of p are of different transceivers, the first n.  Those of  *)
(* s are among them: an open section is at its transceiver's line, a closed *)
(* one may be behind, but its mid is at no other line; and p only reuses    *)
(* closed ones.                                                             *)
Lines(p, s, n) ==
  /\ \A i \in DOMAIN p.local : p.local[i] \in 1 .. n
  /\ \A i, j \in DOMAIN p.local : p.local[i] = p.local[j] => i = j
  /\ Len(s.sections) <= Len(p.local)
  /\ p.rejected \subseteq Reusable(s)
  /\ \A i \in DOMAIN s.sections :
        /\ s.sections[i].mid \in 1 .. n
        /\ s.sections[i].state # "closed" => s.sections[i].mid = p.local[i]
        /\ \A j \in DOMAIN p.local : s.sections[i].mid = p.local[j] => i = j

Lined(p, s) == p \in Pcs /\ Lines(p, s, p.count)

(* Transceiver t has no m= line and never had one. *)
Fresh(p, s, t) ==
  /\ t \in Nat \ {0}
  /\ \A i \in DOMAIN p.local : p.local[i] # t
  /\ \A i \in DOMAIN s.sections : s.sections[i].mid # t

Spare(p, s) == p.leftover # 0 => p.leftover <= p.count /\ Fresh(p, s, p.leftover)

(* Both sides have the same m= lines and agree on those to be reused. *)
Agreed(p, s) ==
  /\ p.leftover = 0
  /\ Len(s.sections) = Len(p.local)
  /\ \A i \in DOMAIN s.sections : s.sections[i].mid = p.local[i]
  /\ p.rejected = Reusable(s)

Undisturbed == happened \cap {"offer", "negotiate"} = {}

-------------------------------------------------------------------------------
Producers == [id : Nat, localId : Nat, closed : BOOLEAN]

Remote ==
  /\ Whole(sdp) /\ IndexExact(sdp) /\ sdp.offers = FALSE
  /\ transportReady \/ sdp.sections # <<>> => sdp.role = "client"

(* Producers have their own transceivers, which StopSending() will find. *)
Transceivers ==
  /\ closed \in BOOLEAN /\ transportReady \in BOOLEAN
  /\ prods \in Seq(Producers)
  /\ \A k \in DOMAIN prods : prods[k].localId \in 1 .. pc.count
                             /\ prods[k].localId \in mapMidTransceiver
  /\ \A j, k \in DOMAIN prods : prods[j].localId = prods[k].localId => j = k

Owned(s) ==
  \A k \in DOMAIN prods : ~prods[k].closed =>
     \E i \in DOMAIN s.sections :
        s.sections[i].mid = prods[k].localId /\ s.sections[i].state = "active"

InStep == Undisturbed => Agreed(pc, sdp)

(* While every request to the server was answered, the ids tell the         *)
(* producers apart, and an open one is in the map under its id.             *)
Numbered ==
  "produce" \notin happened =>
     \A k \in DOMAIN prods :
        /\ prods[k].id = k
        /\ ~prods[k].closed => ~closed /\ k \in DOMAIN producers /\ producers[k] = k

IndInv ==
  /\ Remote /\ Lined(pc, sdp) /\ Spare(pc, sdp) /\ Transceivers /\ Owned(sdp)
  /\ InStep /\ NoOrphanSection /\ Numbered
-------------------------------------------------------------------------------
(* The PeerConnection *)

First(S) == CHOOSE k \in S : \A j \in S : k <= j

(* A set of positions that is not empty has a first one.                    *)
LEMMA FirstIs ==
  ASSUME NEW S \in SUBSET Nat, S # {}
  PROVE  First(S) \in S /\ \A j \in S : First(S) <= j
<1>1. PICK n \in S : \A m \in S : ~(<<m, n>> \in OpToRel(<, Nat))
  BY WFMin, NatLessThanWellFounded
<1>2. \A m \in S : n <= m
  <2> SUFFICES ASSUME NEW m \in S, m < n PROVE FALSE
    OBVIOUS
  <2>1. <<m, n>> \in Nat \X Nat /\ <<m, n>>[1] < <<m, n>>[2]
    OBVIOUS
  <2>2. <<m, n>> \in {ss \in Nat \X Nat : ss[1] < ss[2]}
    BY <2>1
  <2> QED
    BY <1>1, <2>2 DEF OpToRel
<1>3. \E k \in S : \A j \in S : k <= j
  BY <1>2
<1> QED
  BY <1>3 DEF First

(* The m= line that the next transceiver gets. *)
NextLine(p) == IF p.rejected = {} THEN Len(p.local) + 1 ELSE First(p.rejected)

Placed(p, t, at, q) ==
  /\ q \in Pcs /\ q.count = p.count /\ q.leftover = p.leftover
  /\ q.rejected = p.rejected \ {at}
  /\ at \in DOMAIN q.local /\ q.local[at] = t
  /\ DOMAIN q.local = DOMAIN p.local \cup {at}
  /\ \A i \in DOMAIN p.local : i # at => q.local[i] = p.local[i]
  /\ Len(p.local) <= Len(q.local)
  /\ p.rejected = {} => at = Len(p.local) + 1 /\ Len(q.local) = at
  /\ p.rejected # {} => /\ at \in p.rejected /\ \A j \in p.rejected : at <= j
                        /\ Len(q.local) = Len(p.local)

(* Placing a transceiver changes one line: the first rejected or a new one. *)
LEMMA PlaceFacts ==
  ASSUME NEW p \in Pcs, p.rejected \subseteq DOMAIN p.local, NEW t \in Nat,
         NEW q, q = Place(p, t)
  PROVE  Placed(p, t, NextLine(p), q)
<1>1. p = [count |-> p.count, leftover |-> p.leftover, local |-> p.local,
           rejected |-> p.rejected]
      /\ p.local \in Seq(Nat) /\ p.rejected \in SUBSET Nat /\ p.count \in Nat
      /\ p.leftover \in Nat
  BY DEF Pcs
<1>2. CASE p.rejected = {}
  <2> DEFINE new == Append(p.local, t)
  <2>1. NextLine(p) = Len(p.local) + 1
    BY <1>2 DEF NextLine
  <2>2. q = [count |-> p.count, leftover |-> p.leftover, local |-> new, rejected |-> {}]
    BY <1>1, <1>2 DEF Place
  <2>3. /\ new \in Seq(Nat) /\ Len(new) = Len(p.local) + 1
        /\ \A i \in 1 .. Len(p.local) : new[i] = p.local[i]
        /\ new[Len(p.local) + 1] = t
    BY <1>1, AppendProperties
  <2> HIDE DEF new
  <2>4. /\ q \in Pcs /\ q.local = new /\ q.rejected = {} /\ q.count = p.count
        /\ q.leftover = p.leftover
    BY <1>1, <2>2, <2>3 DEF Pcs
  <2>5. Len(p.local) \in Nat /\ DOMAIN p.local = 1 .. Len(p.local) /\ DOMAIN new = 1 .. Len(new)
    BY <1>1, <2>3
  <2> QED
    BY <1>2, <2>1, <2>3, <2>4, <2>5 DEF Placed
<1>3. CASE p.rejected # {}
  <2> DEFINE at == First(p.rejected)
             new == [p.local EXCEPT ![at] = t]
  <2>1. NextLine(p) = at
    BY <1>3 DEF NextLine
  <2>2. at \in p.rejected /\ \A j \in p.rejected : at <= j
    BY <1>1, <1>3, FirstIs
  <2>3. q = [count |-> p.count, leftover |-> p.leftover, local |-> new,
             rejected |-> p.rejected \ {at}]
    BY <1>1, <1>3 DEF Place, First
  <2> HIDE DEF at
  <2>4. /\ new \in Seq(Nat) /\ Len(new) = Len(p.local) /\ DOMAIN new = DOMAIN p.local
        /\ new[at] = t /\ \A i \in DOMAIN p.local : i # at => new[i] = p.local[i]
    BY <1>1, <2>2, ExceptSeq
  <2> HIDE DEF new
  <2>5. /\ q \in Pcs /\ q.local = new /\ q.rejected = p.rejected \ {at}
        /\ q.count = p.count /\ q.leftover = p.leftover
    BY <1>1, <2>3, <2>4 DEF Pcs
  <2>6. Len(p.local) \in Nat
    BY <1>1
  <2> QED
    BY <1>3, <2>1, <2>2, <2>4, <2>5, <2>6 DEF Placed
<1> QED
  BY <1>2, <1>3

(* The lines stay different, and no open section is taken from its line.    *)
LEMMA PlaceLines ==
  ASSUME NEW p \in Pcs, NEW s, s.sections \in Seq(Sections), NEW n \in Nat, Lines(p, s, n),
         NEW m \in Nat, n <= m, NEW t \in 1 .. m, Fresh(p, s, t),
         NEW q, q = Place(p, t)
  PROVE  /\ Placed(p, t, NextLine(p), q)
         /\ Lines(q, s, m)
<1> DEFINE at == NextLine(p)
<1>1. /\ p.local \in Seq(Nat) /\ DOMAIN p.local = 1 .. Len(p.local) /\ Len(p.local) \in Nat
      /\ DOMAIN s.sections = 1 .. Len(s.sections) /\ Len(s.sections) \in Nat
  BY DEF Pcs
<1>2. p.rejected \subseteq DOMAIN p.local
  BY <1>1 DEF Lines, Reusable
<1>3. Placed(p, t, at, q)
  BY <1>2, PlaceFacts
<1> HIDE DEF at
<1>4. \A i \in DOMAIN q.local : q.local[i] = t \/ (i \in DOMAIN p.local /\ q.local[i] = p.local[i])
  BY <1>3 DEF Placed
<1>5. \A i \in DOMAIN q.local : q.local[i] \in 1 .. m
  BY <1>4 DEF Lines
<1>6. \A i \in DOMAIN q.local : q.local[i] = t => i = at
  BY <1>3 DEF Placed, Fresh
<1>7. \A i, j \in DOMAIN q.local : q.local[i] = q.local[j] => i = j
  BY <1>3, <1>4, <1>6 DEF Placed, Lines
<1>8. Len(s.sections) <= Len(q.local) /\ q.rejected \subseteq Reusable(s)
  <2>1. Len(q.local) \in Nat
    BY <1>3 DEF Placed, Pcs
  <2> QED
    BY <1>1, <1>3, <2>1 DEF Placed, Lines
<1>9. ASSUME NEW i \in DOMAIN s.sections, s.sections[i].state # "closed"
      PROVE  s.sections[i].mid = q.local[i]
  <2>1. i \in DOMAIN p.local /\ i # at
    BY <1>1, <1>3, <1>9, SMTT(20) DEF Placed, Lines, Reusable
  <2> QED
    BY <1>3, <1>9, <2>1 DEF Placed, Lines
<1>10. \A i \in DOMAIN s.sections : \A j \in DOMAIN q.local : s.sections[i].mid = q.local[j] => i = j
  BY <1>4 DEF Lines, Fresh
<1>11. \A i \in DOMAIN s.sections : s.sections[i].mid \in 1 .. m
  BY DEF Lines
<1> QED
  BY <1>3, <1>5, <1>7, <1>8, <1>9, <1>10, <1>11 DEF Lines, at

Offered(p, s, q) ==
  /\ Lined(q, s) /\ q.leftover = 0 /\ q.count = p.count
  /\ p.leftover = 0 => q = p
  /\ q.rejected \subseteq p.rejected
  /\ Len(p.local) <= Len(q.local)
  /\ p.leftover # 0 => NextLine(p) \notin q.rejected /\ NextLine(p) \in DOMAIN q.local
  /\ Fresh(q, s, p.count + 1)

(* An offer without new transceiver gives the leftover one its line.        *)
LEMMA OfferFacts ==
  ASSUME NEW p, NEW s, s.sections \in Seq(Sections), Lined(p, s), Spare(p, s),
         NEW q, q = Offer(p)
  PROVE  Offered(p, s, q)
<1>1. p \in Pcs /\ p.count \in Nat /\ p.leftover \in Nat /\ Len(p.local) \in Nat
  BY DEF Lined, Pcs
<1>2. CASE p.leftover = 0
  <2>1. q = p
    BY <1>2 DEF Offer
  <2>2. Fresh(p, s, p.count + 1)
    BY <1>1 DEF Fresh, Lined, Lines
  <2> QED
    BY <1>1, <1>2, <2>1, <2>2 DEF Offered
<1>3. CASE p.leftover # 0
  <2> DEFINE r == Place(p, p.leftover)
  <2>1. q = [r EXCEPT !.leftover = 0]
    BY <1>3 DEF Offer
  <2>2. p.leftover \in 1 .. p.count /\ Fresh(p, s, p.leftover)
    BY <1>1, <1>3 DEF Spare
  <2>3. Placed(p, p.leftover, NextLine(p), r) /\ Lines(r, s, p.count)
    BY <1>1, <2>2, PlaceLines DEF Lined
  <2> HIDE DEF r
  <2>4. /\ q \in Pcs /\ q.count = p.count /\ q.leftover = 0 /\ q.local = r.local
        /\ q.rejected = r.rejected
    <3>1. r \in Pcs /\ r.count = p.count
      BY <2>3 DEF Placed
    <3> QED
      BY <2>1, <3>1 DEF Pcs
  <2>5. Lined(q, s)
    BY <2>3, <2>4 DEF Lined, Lines
  <2>6. Fresh(q, s, p.count + 1)
    BY <1>1, <2>4, <2>5 DEF Fresh, Lined, Lines
  <2> QED
    BY <1>3, <2>3, <2>4, <2>5, <2>6 DEF Offered, Placed
<1> QED
  BY <1>2, <1>3

Added(p, s, q) ==
  /\ Lined(q, s) /\ q.leftover = 0 /\ q.count = p.count + 1
  /\ q.rejected \subseteq p.rejected /\ NextLine(p) \notin q.rejected
  /\ NextLine(p) \in DOMAIN q.local
  /\ Len(p.local) <= Len(q.local)
  /\ \E i \in DOMAIN q.local : q.local[i] = q.count
  /\ p.leftover = 0 =>
       /\ q.local[NextLine(p)] = q.count
       /\ q.rejected = p.rejected \ {NextLine(p)}
       /\ DOMAIN q.local = DOMAIN p.local \cup {NextLine(p)}
       /\ \A i \in DOMAIN p.local : i # NextLine(p) => q.local[i] = p.local[i]

(* A new transceiver gets a line, and the one that the next transceiver was *)
(* due is then taken, by the leftover one if there is.                      *)
LEMMA TransceiverFacts ==
  ASSUME NEW p, NEW s, s.sections \in Seq(Sections), Lined(p, s), Spare(p, s),
         NEW q, q = AddTransceiver(p)
  PROVE  Added(p, s, q)
<1> DEFINE o == Offer(p)
           t == p.count + 1
           r == Place(o, t)
<1>1. p \in Pcs /\ p.count \in Nat /\ Len(p.local) \in Nat /\ t \in 1 .. t /\ t \in Nat
  BY DEF Lined, Pcs
<1>2. Offered(p, s, o)
  BY OfferFacts
<1>3. q = [r EXCEPT !.count = t]
  BY DEF AddTransceiver
<1> HIDE DEF o
<1>4. o \in Pcs /\ o.count = p.count /\ Lines(o, s, p.count) /\ Fresh(o, s, t)
  BY <1>2 DEF Offered, Lined
<1>5. Placed(o, t, NextLine(o), r) /\ Lines(r, s, t)
  <2>1. p.count <= t
    BY <1>1
  <2> HIDE DEF t
  <2> QED
    BY <1>1, <1>4, <2>1, PlaceLines
<1> HIDE DEF r
<1>6. /\ q \in Pcs /\ q.count = t /\ q.local = r.local /\ q.rejected = r.rejected
      /\ q.leftover = 0
  BY <1>1, <1>2, <1>3, <1>5 DEF Placed, Pcs, Offered
<1>7. Lined(q, s)
  BY <1>5, <1>6 DEF Lined, Lines
<1>8. \E i \in DOMAIN q.local : q.local[i] = q.count
  BY <1>5, <1>6 DEF Placed
<1>9. q.rejected \subseteq p.rejected
  BY <1>2, <1>5, <1>6 DEF Offered, Placed
<1>10. NextLine(p) \notin q.rejected /\ NextLine(p) \in DOMAIN q.local
  <2>1. CASE p.leftover = 0
    BY <1>2, <1>5, <1>6, <2>1 DEF Offered, Placed
  <2>2. CASE p.leftover # 0
    BY <1>2, <1>5, <1>6, <2>2 DEF Offered, Placed
  <2> QED
    BY <2>1, <2>2
<1>11. Len(p.local) <= Len(q.local)
  <2>1. Len(o.local) \in Nat /\ Len(q.local) \in Nat
    BY <1>4, <1>6 DEF Pcs
  <2> QED
    BY <1>1, <1>2, <1>5, <1>6, <2>1 DEF Offered, Placed
<1>12. ASSUME p.leftover = 0
       PROVE  /\ q.local[NextLine(p)] = q.count
              /\ q.rejected = p.rejected \ {NextLine(p)}
              /\ DOMAIN q.local = DOMAIN p.local \cup {NextLine(p)}
              /\ \A i \in DOMAIN p.local : i # NextLine(p) => q.local[i] = p.local[i]
  <2>1. o = p
    BY <1>2, <1>12 DEF Offered
  <2> QED
    BY <1>5, <1>6, <2>1 DEF Placed
<1> QED
  BY <1>6, <1>7, <1>8, <1>9, <1>10, <1>11, <1>12 DEF Added

-------------------------------------------------------------------------------
(* The router's SDP and the lines *)

(* The sections have the same mids and states. *)
SameLines(s, t) ==
  /\ DOMAIN t.sections = DOMAIN s.sections /\ Len(t.sections) = Len(s.sections)
  /\ \A i \in DOMAIN s.sections : t.sections[i].mid = s.sections[i].mid
                                  /\ t.sections[i].state = s.sections[i].state

(* New parameters in the sections do not move them.                         *)
LEMMA SameKept ==
  ASSUME NEW s, NEW t, SameLines(s, t), NEW p
  PROVE  /\ Reusable(t) = Reusable(s)
         /\ Lined(p, s) => Lined(p, t)
         /\ Spare(p, s) => Spare(p, t)
         /\ Agreed(p, s) => Agreed(p, t)
         /\ Owned(s) => Owned(t)
<1>1. Reusable(t) = Reusable(s)
  BY DEF SameLines, Reusable
<1>2. Lined(p, s) => Lined(p, t)
  BY <1>1 DEF SameLines, Lined, Lines
<1>3. Spare(p, s) => Spare(p, t)
  BY DEF SameLines, Spare, Fresh
<1>4. Agreed(p, s) => Agreed(p, t)
  BY <1>1 DEF SameLines, Agreed
<1>5. Owned(s) => Owned(t)
  BY DEF SameLines, Owned
<1> QED
  BY <1>1, <1>2, <1>3, <1>4, <1>5

(* GetNextMediaSectionIdx() names a closed section or one past the end; the *)
(* offer made next has a line there, and does not mean to reuse it again.   *)
LEMMA NextIdx ==
  ASSUME NEW s, Whole(s), NEW p, Lined(p, s), Spare(p, s), NEW q, Added(p, s, q),
         NEW idx, idx = GetNextMediaSectionIdx(s)
  PROVE  /\ idx \in DOMAIN q.local /\ idx \notin q.rejected
         /\ IF idx \in DOMAIN s.sections
            THEN s.sections[idx].state = "closed" /\ idx # 1
            ELSE idx = Len(s.sections) + 1
         /\ Agreed(p, s) => idx = NextLine(p)
<1>1. /\ s.sections \in Seq(Sections) /\ DOMAIN s.sections = 1 .. Len(s.sections)
      /\ Len(s.sections) \in Nat /\ Len(p.local) \in Nat /\ Len(q.local) \in Nat
      /\ DOMAIN q.local = 1 .. Len(q.local) /\ p.rejected \subseteq Reusable(s)
      /\ Len(s.sections) <= Len(p.local) /\ Len(p.local) <= Len(q.local)
  BY DEF Whole, Typed, Lined, Lines, Pcs, Added
<1>2. CASE Reusable(s) = {}
  <2>1. idx = Len(s.sections) + 1
    BY <1>2 DEF GetNextMediaSectionIdx, Reusable
  <2>2. NextLine(p) = Len(p.local) + 1 /\ q.rejected = {}
    BY <1>1, <1>2 DEF NextLine, Added
  <2>3. Len(p.local) + 1 \in DOMAIN q.local
    BY <2>2 DEF Added
  <2>4. Len(p.local) + 1 <= Len(q.local)
    BY <1>1, <2>3
  <2>5. idx \in 1 .. Len(q.local) /\ idx \notin 1 .. Len(s.sections)
    BY <1>1, <2>1, <2>4
  <2>6. Agreed(p, s) => idx = NextLine(p)
    BY <2>1, <2>2 DEF Agreed
  <2> QED
    BY <1>1, <2>1, <2>2, <2>5, <2>6
<1>3. CASE Reusable(s) # {}
  <2>1. Reusable(s) \in SUBSET Nat
    BY <1>1 DEF Reusable
  <2>2. idx = First(Reusable(s))
    <3>1. GetNextMediaSectionIdx(s) = IF Reusable(s) = {} THEN Len(s.sections) + 1
                                      ELSE First(Reusable(s))
      BY Zenon DEF GetNextMediaSectionIdx, Reusable, First
    <3> QED
      BY <1>3, <3>1
  <2>3. idx \in Reusable(s) /\ \A j \in Reusable(s) : idx <= j
    BY <1>3, <2>1, <2>2, FirstIs
  <2>4. idx \in DOMAIN s.sections /\ s.sections[idx].state = "closed"
    BY <2>3 DEF Reusable
  <2>5. idx # 1
    <3>1. s.sections # <<>>
      BY <1>1, <2>4
    <3> QED
      BY <2>4, <3>1 DEF Whole, FirstOpen
  <2>6. idx \in DOMAIN q.local
    BY <1>1, <2>4
  <2>7. idx \notin q.rejected
    <3> SUFFICES ASSUME idx \in q.rejected PROVE FALSE
      OBVIOUS
    <3>1. idx \in p.rejected /\ p.rejected # {} /\ p.rejected \in SUBSET Nat
      BY <1>1, <2>1 DEF Added
    <3>2. NextLine(p) \in p.rejected /\ NextLine(p) <= idx
      BY <3>1, FirstIs DEF NextLine
    <3>3. NextLine(p) \in Reusable(s)
      BY <1>1, <3>2
    <3>4. idx <= NextLine(p)
      BY <2>3, <3>3
    <3>5. NextLine(p) = idx
      BY <2>1, <2>3, <3>2, <3>3, <3>4
    <3> QED
      BY <3>5 DEF Added
  <2>8. Agreed(p, s) => idx = NextLine(p)
    BY <1>3, <2>2 DEF Agreed, NextLine
  <2> QED
    BY <2>4, <2>5, <2>6, <2>7, <2>8
<1> QED
  BY <1>2, <1>3

(* What Send() makes of the SDP: the section at idx is the only one changed *)
(* and has the mid of its line.                                             *)
Sent(s, r, q, idx, t) ==
  /\ Whole(t) /\ IndexExact(t) /\ Lined(q, t)
  /\ t.ice = r.ice /\ t.role = r.role /\ t.offers = r.offers
  /\ idx \in DOMAIN t.sections
  /\ t.sections[idx].mid = q.local[idx] /\ t.sections[idx].state = "active"
  /\ DOMAIN t.sections = DOMAIN s.sections \cup {idx}
  /\ \A i \in DOMAIN s.sections : i # idx => t.sections[i] = r.sections[i]
  /\ idx \in DOMAIN s.sections => s.sections[idx].state = "closed"

(* Send() in a section to be reused, or in a new one, keeps every section   *)
(* at the line of its transceiver.                                          *)
LEMMA SendFacts ==
  ASSUME NEW s, Whole(s), NEW p, Lined(p, s), Spare(p, s),
         NEW q, Added(p, s, q),
         NEW r, Whole(r), IndexExact(r), SameLines(s, r),
         NEW idx, idx = GetNextMediaSectionIdx(s),
         NEW t, t = Send(r, idx, q.local[idx])
  PROVE  Sent(s, r, q, idx, t)
<1> DEFINE mid == q.local[idx]
           n == Len(s.sections)
<1>1. /\ s.sections \in Seq(Sections) /\ DOMAIN s.sections = 1 .. n /\ n \in Nat
      /\ r.sections \in Seq(Sections) /\ DOMAIN r.sections = 1 .. n /\ Len(r.sections) = n
      /\ Len(q.local) \in Nat /\ DOMAIN q.local = 1 .. Len(q.local)
  BY SMTT(20) DEF Whole, Typed, Added, Lined, Pcs, SameLines
<1>2. /\ idx \in DOMAIN q.local /\ idx \notin q.rejected
      /\ IF idx \in DOMAIN s.sections
         THEN s.sections[idx].state = "closed" /\ idx # 1
         ELSE idx = n + 1
  BY NextIdx
<1>3. mid \in Int \ {None}
  BY <1>2, NoneAssumption DEF Added, Lined, Lines
<1>4. Lined(q, r)
  BY SameKept DEF Added
<1>5. \A j \in DOMAIN r.sections : j # idx => r.sections[j].mid # mid
  BY <1>2, <1>4 DEF Lined, Lines
<1> DEFINE new == NewSection(r, mid)
<1>6. new.mid = mid /\ new.state = "active"
  BY DEF NewSection
<1>7. /\ Whole(t) /\ IndexExact(t)
      /\ t.ice = r.ice /\ t.role = r.role /\ t.offers = r.offers
      /\ idx \in DOMAIN t.sections /\ t.sections[idx] = new
      /\ DOMAIN t.sections = 1 .. n \cup {idx}
      /\ \A i \in 1 .. n : i # idx => t.sections[i] = r.sections[i]
      /\ Len(t.sections) <= Len(q.local)
  <2> HIDE DEF new
  <2>1. CASE idx \in DOMAIN s.sections
    <3>1. t = ReplaceMediaSection(r, mid, r.sections[idx].mid)
      BY <1>1, <2>1 DEF Send
    <3> HIDE DEF mid
    <3>2. Reused(r, idx, mid, t)
      BY <1>1, <1>2, <1>3, <1>5, <2>1, <3>1, ReplaceWhole
    <3> QED
      BY <1>1, <1>4, <2>1, <3>2 DEF new, Lined, Lines, Reused
  <2>2. CASE idx \notin DOMAIN s.sections
    <3>1. idx = n + 1 /\ ~(idx <= Len(r.sections))
      BY <1>1, <1>2, <2>2
    <3>2. t = AddMediaSection(r, mid)
      BY <3>1 DEF Send
    <3>3. mid \notin Mids(r)
      BY <1>1, <1>5, <2>2 DEF Mids
    <3> HIDE DEF mid
    <3>4. /\ Whole(t)
          /\ t.sections = Append(r.sections, NewSection(r, mid))
          /\ t.ice = r.ice /\ t.role = r.role /\ t.offers = r.offers
          /\ IndexExact(t)
      <4>1. Grown(r, mid, t)
        BY <1>3, <3>2, AddWhole
      <4> QED
        BY <3>3, <4>1 DEF Grown
    <3>5. new \in Sections
      BY <1>3, SetupTyped DEF new, NewSection, Sections, States, Whole, Typed
    <3>6. /\ Len(t.sections) = n + 1 /\ DOMAIN t.sections = 1 .. n + 1
          /\ t.sections[n + 1] = new
          /\ \A i \in 1 .. n : t.sections[i] = r.sections[i]
      BY <1>1, <3>4, <3>5, AppendProperties DEF new
    <3> HIDE DEF n
    <3>7. 1 .. n + 1 = 1 .. n \cup {idx}
      BY <1>1, <3>1
    <3>8. Len(t.sections) <= Len(q.local)
      BY <1>1, <1>2, <3>1, <3>6
    <3> QED
      BY <3>1, <3>4, <3>6, <3>7, <3>8
  <2> QED
    BY <2>1, <2>2
<1> HIDE DEF new, mid
<1>8. \A i \in DOMAIN t.sections : i = idx \/ (i \in DOMAIN r.sections /\ t.sections[i] = r.sections[i])
  BY <1>1, <1>7
<1>9. q.rejected \subseteq Reusable(t)
  BY <1>1, <1>2, <1>4, <1>7, SMTT(20) DEF Lined, Lines, Reusable
<1>10. \A i \in DOMAIN t.sections :
         /\ t.sections[i].mid \in 1 .. q.count
         /\ t.sections[i].state # "closed" => t.sections[i].mid = q.local[i]
         /\ \A j \in DOMAIN q.local : t.sections[i].mid = q.local[j] => i = j
  <2> SUFFICES ASSUME NEW i \in DOMAIN t.sections
               PROVE  /\ t.sections[i].mid \in 1 .. q.count
                      /\ t.sections[i].state # "closed" => t.sections[i].mid = q.local[i]
                      /\ \A j \in DOMAIN q.local : t.sections[i].mid = q.local[j] => i = j
    OBVIOUS
  <2>1. CASE i = idx
    BY <1>2, <1>4, <1>6, <1>7, <2>1 DEF Lined, Lines, mid
  <2>2. CASE i # idx
    BY <1>4, <1>8, <2>2 DEF Lined, Lines
  <2> QED
    BY <2>1, <2>2
<1>11. Lined(q, t)
  BY <1>4, <1>7, <1>9, <1>10 DEF Lined, Lines
<1> QED
  BY <1>1, <1>2, <1>6, <1>7, <1>11 DEF Sent, mid

(* While both sides agree, the section is put where the PeerConnection puts *)
(* the new transceiver, and they agree again.                               *)
LEMMA SendAgreed ==
  ASSUME NEW s, Whole(s), NEW p, Lined(p, s), Spare(p, s), Agreed(p, s),
         NEW q, Added(p, s, q), NEW r, SameLines(s, r),
         NEW idx, idx = GetNextMediaSectionIdx(s),
         NEW t, Sent(s, r, q, idx, t)
  PROVE  Agreed(q, t) /\ t.sections[idx].mid = q.count
<1>1. idx = NextLine(p)
  BY NextIdx
<1>2. /\ q.local[idx] = q.count /\ q.rejected = p.rejected \ {idx}
      /\ DOMAIN q.local = DOMAIN p.local \cup {idx}
      /\ \A i \in DOMAIN p.local : i # idx => q.local[i] = p.local[i]
  BY <1>1 DEF Added, Agreed
<1>3. /\ DOMAIN s.sections = 1 .. Len(s.sections) /\ DOMAIN t.sections = 1 .. Len(t.sections)
      /\ DOMAIN p.local = 1 .. Len(p.local) /\ DOMAIN q.local = 1 .. Len(q.local)
      /\ Len(t.sections) \in Nat /\ Len(q.local) \in Nat
  <2>1. s.sections \in Seq(Sections) /\ t.sections \in Seq(Sections)
    BY DEF Whole, Typed, Sent
  <2>2. p.local \in Seq(Nat) /\ q.local \in Seq(Nat)
    BY DEF Lined, Pcs, Added
  <2> QED
    BY <2>1, <2>2
<1>4. DOMAIN t.sections = DOMAIN q.local
  BY <1>2, <1>3 DEF Sent, Agreed
<1>5. Len(t.sections) = Len(q.local)
  BY <1>3, <1>4
<1>6. \A i \in DOMAIN t.sections : t.sections[i].mid = q.local[i]
  BY <1>2, <1>3 DEF Sent, Agreed, SameLines
<1>7. q.rejected = Reusable(t)
  <2>1. \A i \in Reusable(t) : i \in q.rejected
    BY <1>2 DEF Sent, Agreed, SameLines, Reusable
  <2>2. \A i \in q.rejected : i \in Reusable(t)
    BY <1>2 DEF Sent, Agreed, SameLines, Reusable
  <2> QED
    BY <2>1, <2>2
<1> QED
  BY <1>2, <1>5, <1>6, <1>7 DEF Sent, Agreed, Added

(* An answer that fits its offer: the lines, and which are rejected.        *)
LEMMA AnswerFacts ==
  ASSUME NEW q, NEW t, Whole(t), Lined(q, t), q.leftover = 0,
         Matches(q, t.media), NEW a, a = Answered(q, t.media)
  PROVE  /\ Lined(a, t) /\ Agreed(a, t)
         /\ a.count = q.count /\ a.local = q.local
<1>1. t.media = t.sections
  BY DEF Whole, Written
<1>2. Reusable(t) \in SUBSET Nat
  BY DEF Reusable, Whole, Typed
<1>3. /\ a \in Pcs /\ a.count = q.count /\ a.local = q.local /\ a.leftover = q.leftover
      /\ a.rejected = Reusable(t)
  <2>1. a = [q EXCEPT !.rejected = Reusable(t)]
    BY <1>1 DEF Answered, Reusable
  <2> QED
    BY <1>2, <2>1 DEF Lined, Pcs
<1>4. Lined(a, t)
  BY <1>3 DEF Lined, Lines
<1>5. Agreed(a, t)
  BY <1>1, <1>3 DEF Agreed, Matches
<1> QED
  BY <1>3, <1>4, <1>5

-------------------------------------------------------------------------------
(* Steps of the transport *)

(* The offer of a StopSending() or RestartIce(), however far it gets, keeps *)
(* the lines; if nothing fails, both sides agree when it is done.           *)
LEMMA RenegotiateFacts ==
  ASSUME NEW p, NEW t, Whole(t), Lined(p, t), Spare(p, t), Renegotiate(p, t)
  PROVE  /\ Lined(pc', t) /\ Spare(pc', t) /\ pc'.count = p.count
         /\ happened \subseteq happened'
         /\ /\ Undisturbed' /\ p.leftover = 0
            /\ Len(t.sections) = Len(p.local)
            /\ \A i \in DOMAIN t.sections : t.sections[i].mid = p.local[i]
            => Agreed(pc', t)
<1> DEFINE q == Offer(p)
<1>1. t.sections \in Seq(Sections) /\ t.media = t.sections
  BY DEF Whole, Typed, Written
<1>2. Offered(p, t, q)
  BY <1>1, OfferFacts
<1>3. Lined(q, t) /\ q.leftover = 0 /\ q.count = p.count /\ Spare(q, t)
      /\ (p.leftover = 0 => q = p)
  BY <1>2 DEF Offered, Spare
<1> HIDE DEF q
<1>4. CASE Matches(q, t.media) /\ pc' = Answered(q, t.media) /\ UNCHANGED happened
  <2>1. Lined(pc', t) /\ Agreed(pc', t) /\ pc'.count = q.count
    BY <1>3, <1>4, AnswerFacts
  <2> QED
    BY <1>3, <1>4, <2>1 DEF Spare, Agreed
<1>5. CASE ~Matches(q, t.media) /\ pc' = q /\ UNCHANGED happened
  <2>1. ~(/\ p.leftover = 0 /\ Len(t.sections) = Len(p.local)
          /\ \A i \in DOMAIN t.sections : t.sections[i].mid = p.local[i])
    BY <1>1, <1>3, <1>5 DEF Matches
  <2> QED
    BY <1>3, <1>5, <2>1
<1>6. CASE Fault("negotiate") /\ pc' \in {p, q}
  <2>1. ~Undisturbed' /\ happened \subseteq happened'
    BY <1>6 DEF Fault, Undisturbed
  <2> QED
    BY <1>3, <1>6, <2>1
<1> QED
  BY <1>4, <1>5, <1>6 DEF Renegotiate, q

(* StopSending() of a mid that has a section: that one is not active any    *)
(* more, the others are as they were.                                       *)
Stopped(s, p, mid, t) ==
  /\ Whole(t) /\ IndexExact(t) /\ Lined(pc', t) /\ Spare(pc', t) /\ pc'.count = p.count
  /\ t.role = s.role /\ t.offers = s.offers
  /\ DOMAIN t.sections = DOMAIN s.sections
  /\ \A i \in DOMAIN s.sections :
        IF s.sections[i].mid = mid THEN t.sections[i].state # "active"
        ELSE t.sections[i] = s.sections[i]
  /\ happened \subseteq happened'
  /\ Undisturbed' /\ Agreed(p, s) => Agreed(pc', t)

(* CloseMediaSection() and the negotiation after it, on SDP s and           *)
(* PeerConnection p.                                                        *)
LEMMA StopFacts ==
  ASSUME NEW s, Whole(s), IndexExact(s), NEW p, Lined(p, s), Spare(p, s),
         NEW mid \in Mids(s), NEW t, t = CloseMediaSection(s, mid), Renegotiate(p, t)
  PROVE  Stopped(s, p, mid, t)
<1> DEFINE idx == s.midToIndex[mid]
<1>1. mid \in DOMAIN s.midToIndex
  BY DEF Mids, IndexExact
<1>2. Shut(s, mid, t)
  BY <1>1, CloseWhole
<1>3. /\ Whole(t) /\ IndexExact(t) /\ idx \in DOMAIN s.sections /\ s.sections[idx].mid = mid
      /\ DOMAIN t.sections = DOMAIN s.sections /\ Len(t.sections) = Len(s.sections)
      /\ t.sections[idx].mid = mid /\ t.sections[idx].state \in {"disabled", "closed"}
      /\ s.sections[idx].state = "closed" => t.sections[idx].state = "closed"
      /\ \A i \in DOMAIN s.sections : i # idx => t.sections[i] = s.sections[i]
      /\ \A i \in DOMAIN s.sections : t.sections[i].mid = s.sections[i].mid
      /\ t.role = s.role /\ t.offers = s.offers
  BY <1>2 DEF Shut
<1> HIDE DEF idx
<1>4. \A i \in DOMAIN s.sections : s.sections[i].mid = mid => i = idx
  BY <1>3, ExactDistinct
<1>5. \A i \in DOMAIN s.sections : s.sections[i].state = "closed" => t.sections[i].state = "closed"
  BY <1>3
<1>6. \A i \in DOMAIN s.sections : t.sections[i].state # "closed" => s.sections[i].state # "closed"
  BY <1>5
<1>7. Reusable(s) \subseteq Reusable(t)
  BY <1>3, <1>5 DEF Reusable
<1>8. Lined(p, t) /\ Spare(p, t)
  BY <1>3, <1>6, <1>7 DEF Lined, Lines, Spare, Fresh
<1>9. /\ Lined(pc', t) /\ Spare(pc', t) /\ pc'.count = p.count
      /\ happened \subseteq happened'
      /\ /\ Undisturbed' /\ p.leftover = 0
         /\ Len(t.sections) = Len(p.local)
         /\ \A i \in DOMAIN t.sections : t.sections[i].mid = p.local[i]
         => Agreed(pc', t)
  BY <1>3, <1>8, RenegotiateFacts
<1>10. Undisturbed' /\ Agreed(p, s) => Agreed(pc', t)
  BY <1>3, <1>9 DEF Agreed
<1>11. \A i \in DOMAIN s.sections :
        IF s.sections[i].mid = mid THEN t.sections[i].state # "active"
        ELSE t.sections[i] = s.sections[i]
  BY <1>3, <1>4
<1> QED
  BY <1>3, <1>9, <1>10, <1>11 DEF Stopped

(* SetupTransport() changes the setup attributes, once.                     *)
LEMMA SetupFacts ==
  ASSUME Remote
  PROVE  /\ Whole(SetupSdp) /\ IndexExact(SetupSdp) /\ SameLines(sdp, SetupSdp)
         /\ SetupSdp.role = "client" /\ SetupSdp.offers = FALSE
<1>1. CASE transportReady
  BY <1>1 DEF SetupSdp, Remote, SameLines
<1>2. CASE ~transportReady
  <2>1. SetupSdp = UpdateDtlsRole(sdp, "client")
    BY <1>2 DEF SetupSdp
  <2>2. Whole(sdp) /\ "client" \in Roles
    BY DEF Remote, Roles
  <2>3. Restarted(sdp, sdp.ice, "client", SetupSdp)
    BY <2>1, <2>2, RoleWhole
  <2> QED
    BY <2>3 DEF Restarted, Remote, SameLines
<1> QED
  BY <1>1, <1>2

(* What Send() leaves when it got to SetRemoteDescription(): an open        *)
(* producer keeps its section, and the section that was added or reused is  *)
(* that of the new transceiver if nothing had failed before.                *)
LEMMA SentFacts ==
  ASSUME IndInv, NEW q, q = AddTransceiver(pc), NEW t, t = SentSdp
  PROVE  /\ Whole(t) /\ IndexExact(t) /\ Lined(q, t) /\ Spare(q, t)
         /\ t.role = "client" /\ t.offers = FALSE
         /\ q.count = Mid /\ Mid \in Nat /\ q.leftover = 0
         /\ \E i \in DOMAIN q.local : q.local[i] = Mid
         /\ Owned(t)
         /\ \A i \in DOMAIN t.sections : t.sections[i].mid = Mid => t.sections[i].state = "active"
         /\ Undisturbed => /\ Agreed(q, t)
                           /\ \A i \in DOMAIN t.sections :
                                 \/ t.sections[i].mid = Mid
                                 \/ /\ i \in DOMAIN sdp.sections
                                    /\ t.sections[i].mid = sdp.sections[i].mid
                                    /\ t.sections[i].state = sdp.sections[i].state
<1> DEFINE idx == GetNextMediaSectionIdx(sdp)
           r == SetupSdp
<1>1. /\ Remote /\ Whole(sdp) /\ sdp.sections \in Seq(Sections)
      /\ Lined(pc, sdp) /\ Spare(pc, sdp) /\ Owned(sdp) /\ InStep /\ pc.count \in Nat
  BY DEF IndInv, Remote, Whole, Typed, Lined, Pcs
<1>2. /\ Whole(r) /\ IndexExact(r) /\ SameLines(sdp, r)
      /\ r.role = "client" /\ r.offers = FALSE
  BY <1>1, SetupFacts
<1>3. Added(pc, sdp, q)
  BY <1>1, TransceiverFacts
<1>4. t = Send(r, idx, q.local[idx])
  BY DEF SentSdp
<1> HIDE DEF idx, r
<1>5. idx = GetNextMediaSectionIdx(sdp)
  BY DEF idx
<1>6. Sent(sdp, r, q, idx, t)
  BY <1>1, <1>2, <1>3, <1>4, <1>5, SendFacts
<1>7. Owned(t)
  <2> SUFFICES ASSUME NEW k \in DOMAIN prods, ~prods[k].closed
               PROVE  \E i \in DOMAIN t.sections :
                         t.sections[i].mid = prods[k].localId /\ t.sections[i].state = "active"
    BY DEF Owned
  <2>1. PICK i \in DOMAIN sdp.sections :
           sdp.sections[i].mid = prods[k].localId /\ sdp.sections[i].state = "active"
    BY <1>1 DEF Owned
  <2>2. i # idx /\ i \in DOMAIN t.sections
    BY <1>6, <2>1 DEF Sent
  <2> QED
    BY <1>2, <1>6, <2>1, <2>2 DEF Sent, SameLines
<1>8. ASSUME Undisturbed
      PROVE  /\ Agreed(q, t)
             /\ \A i \in DOMAIN t.sections :
                                 \/ t.sections[i].mid = Mid
                                 \/ /\ i \in DOMAIN sdp.sections
                                    /\ t.sections[i].mid = sdp.sections[i].mid
                                    /\ t.sections[i].state = sdp.sections[i].state
  <2>1. Agreed(pc, sdp)
    BY <1>1, <1>8 DEF InStep
  <2>2. Agreed(q, t) /\ t.sections[idx].mid = q.count
    BY <1>1, <1>2, <1>3, <1>5, <1>6, <2>1, SendAgreed
  <2> QED
    BY <1>2, <1>3, <1>6, <2>2 DEF Sent, SameLines, Added, Mid
<1>9. \A i \in DOMAIN t.sections : t.sections[i].mid = Mid => t.sections[i].state = "active"
  <2> SUFFICES ASSUME NEW i \in DOMAIN t.sections, i # idx PROVE t.sections[i].mid # Mid
    BY <1>6 DEF Sent
  <2>1. i \in DOMAIN sdp.sections /\ t.sections[i].mid = sdp.sections[i].mid
    BY <1>2, <1>6 DEF Sent, SameLines
  <2>2. sdp.sections[i].mid \in 1 .. pc.count
    BY <1>1, <2>1 DEF Lined, Lines
  <2> QED
    BY <1>1, <2>1, <2>2 DEF Mid
<1> QED
  BY <1>1, <1>2, <1>3, <1>6, <1>7, <1>8, <1>9 DEF Sent, Added, Mid, Spare

(* A transceiver that an offer failed for is left over.                     *)
LEMMA SendFailsEarlyStep ==
  ASSUME IndInv, NEW at, SendFailsEarly(at)
  PROVE  IndInv'
<1>1. /\ Remote /\ Lined(pc, sdp) /\ Transceivers /\ Owned(sdp) /\ Numbered
      /\ pc \in Pcs /\ pc.count \in Nat /\ Mid = pc.count + 1
  BY DEF IndInv, Lined, Pcs, Mid
<1>2. pc' = [pc EXCEPT !.count = Mid, !.leftover = Mid]
  BY DEF SendFailsEarly
<1>3. /\ pc' \in Pcs /\ pc'.count = Mid /\ pc'.leftover = Mid /\ pc'.local = pc.local
      /\ pc'.rejected = pc.rejected
  <2>1. pc' = [count |-> Mid, leftover |-> Mid, local |-> pc.local, rejected |-> pc.rejected]
    BY <1>1, <1>2 DEF Pcs
  <2>2. Mid \in Nat /\ pc.local \in Seq(Nat) /\ pc.rejected \in SUBSET Nat
    BY <1>1 DEF Pcs
  <2> QED
    BY <2>1, <2>2 DEF Pcs
<1>4. SameLines(sdp, sdp') /\ Remote'
  <2>1. CASE at = "create"
    BY <1>1, <2>1 DEF SendFailsEarly, Remote, SameLines
  <2>2. CASE at # "create"
    <3>1. sdp' = SetupSdp
      BY <2>2 DEF SendFailsEarly
    <3> QED
      BY <1>1, <3>1, SetupFacts DEF Remote
  <2> QED
    BY <2>1, <2>2
<1>5. Lined(pc, sdp') /\ Owned(sdp')
  BY <1>1, <1>4, SameKept
<1>6. Lined(pc', sdp')
  BY <1>1, <1>3, <1>5 DEF Lined, Lines
<1>7. Spare(pc', sdp')
  BY <1>1, <1>3, <1>5 DEF Spare, Fresh, Lined, Lines
<1>8. /\ closed' = closed /\ prods' = prods /\ producers' = producers
      /\ mapMidTransceiver' = mapMidTransceiver /\ transportReady' \in BOOLEAN
      /\ "offer" \in happened' /\ happened \subseteq happened'
  BY DEF SendFailsEarly, Fault
<1>9. Transceivers'
  BY <1>1, <1>3, <1>8 DEF Transceivers
<1>10. Owned(sdp)'
  BY <1>5, <1>8 DEF Owned
<1>11. InStep' /\ NoOrphanSection'
  BY <1>8 DEF InStep, Undisturbed, NoOrphanSection
<1>12. Numbered'
  BY <1>1, <1>8 DEF Numbered
<1> QED
  BY <1>4, <1>6, <1>7, <1>9, <1>10, <1>11, <1>12 DEF IndInv

(* A refused answer leaves the section in the SDP and on its line.          *)
LEMMA SendFailsLateStep ==
  ASSUME IndInv, SendFailsLate
  PROVE  IndInv'
<1> DEFINE q == AddTransceiver(pc)
           t == SentSdp
<1>1. /\ Whole(t) /\ IndexExact(t) /\ Lined(q, t) /\ Spare(q, t)
      /\ t.role = "client" /\ t.offers = FALSE
      /\ q.count = Mid /\ Mid \in Nat
      /\ Owned(t)
      /\ \A i \in DOMAIN t.sections : t.sections[i].mid = Mid => t.sections[i].state = "active"
      /\ Undisturbed => /\ Agreed(q, t)
                        /\ \A i \in DOMAIN t.sections :
                                 \/ t.sections[i].mid = Mid
                                 \/ /\ i \in DOMAIN sdp.sections
                                    /\ t.sections[i].mid = sdp.sections[i].mid
                                    /\ t.sections[i].state = sdp.sections[i].state
  BY SentFacts
<1>2. /\ pc' = q /\ sdp' = t /\ transportReady' = TRUE /\ abandoned' = abandoned \cup {Mid}
      /\ closed' = closed /\ prods' = prods /\ producers' = producers
      /\ mapMidTransceiver' = mapMidTransceiver
  BY DEF SendFailsLate
<1>3. happened \subseteq happened'
  BY DEF SendFailsLate, Fault
<1>4. Transceivers /\ NoOrphanSection /\ Numbered /\ pc.count \in Nat
  BY DEF IndInv, Lined, Pcs
<1> HIDE DEF q, t
<1>5. Remote' /\ Lined(pc, sdp)' /\ Spare(pc, sdp)'
  BY <1>1, <1>2 DEF Remote
<1>6. Transceivers'
  BY <1>1, <1>2, <1>4 DEF Transceivers, Mid
<1>7. Owned(sdp)'
  BY <1>1, <1>2 DEF Owned
<1>8. Undisturbed' => Undisturbed
  BY <1>3 DEF Undisturbed
<1>9. InStep'
  BY <1>1, <1>2, <1>8 DEF InStep
<1>10. NoOrphanSection'
  <2> SUFFICES ASSUME ~closed', Undisturbed', NEW i \in DOMAIN sdp'.sections,
                      sdp'.sections[i].state = "active"
               PROVE  \/ sdp'.sections[i].mid \in abandoned'
                      \/ \E k \in DOMAIN prods' : ~prods'[k].closed
                                                  /\ prods'[k].localId = sdp'.sections[i].mid
    BY DEF NoOrphanSection, Undisturbed
  <2>1. CASE t.sections[i].mid = Mid
    BY <1>2, <2>1
  <2>2. CASE /\ i \in DOMAIN sdp.sections
             /\ t.sections[i].mid = sdp.sections[i].mid
             /\ t.sections[i].state = sdp.sections[i].state
    BY <1>2, <1>4, <1>8, <2>2 DEF NoOrphanSection, Undisturbed
  <2> QED
    BY <1>1, <1>2, <1>8, <2>1, <2>2
<1>11. Numbered'
  BY <1>2, <1>3, <1>4 DEF Numbered
<1> QED
  BY <1>5, <1>6, <1>7, <1>9, <1>10, <1>11 DEF IndInv

(* Produce() answered by the server: the new producer has the section that  *)
(* the answer named.                                                        *)
LEMMA ProduceStep ==
  ASSUME IndInv, NEW id \in {0, Len(prods) + 1}, Produce(id)
  PROVE  IndInv'
<1> DEFINE q == AddTransceiver(pc)
           t == SentSdp
           n == Len(prods)
           new == [id |-> id, localId |-> Mid, closed |-> FALSE]
<1>1. /\ Whole(t) /\ IndexExact(t) /\ Lined(q, t) /\ Spare(q, t)
      /\ t.role = "client" /\ t.offers = FALSE
      /\ q.count = Mid /\ Mid \in Nat /\ q.leftover = 0
      /\ \E i \in DOMAIN q.local : q.local[i] = Mid
      /\ Owned(t)
      /\ \A i \in DOMAIN t.sections : t.sections[i].mid = Mid => t.sections[i].state = "active"
      /\ Undisturbed => /\ Agreed(q, t)
                        /\ \A i \in DOMAIN t.sections :
                                 \/ t.sections[i].mid = Mid
                                 \/ /\ i \in DOMAIN sdp.sections
                                    /\ t.sections[i].mid = sdp.sections[i].mid
                                    /\ t.sections[i].state = sdp.sections[i].state
  BY SentFacts
<1>2. /\ Matches(q, t.media) /\ pc' = Answered(q, t.media) /\ sdp' = t
      /\ transportReady' = TRUE /\ abandoned' = abandoned
      /\ closed' = closed /\ ~closed /\ prods' = Append(prods, new)
      /\ producers' = Store(producers, id, n + 1)
      /\ mapMidTransceiver' = mapMidTransceiver \cup {Mid}
  BY DEF Produce, SendDone, SendSucceeds, MayProduce
<1>3. /\ happened \subseteq happened' /\ (id = 0 => "produce" \in happened')
      /\ ("produce" \notin happened' => "produce" \notin happened)
  BY DEF Produce, Fault
<1>4. /\ Transceivers /\ NoOrphanSection /\ Numbered /\ pc.count \in Nat
      /\ prods \in Seq(Producers)
  BY DEF IndInv, Lined, Pcs, Transceivers
<1> HIDE DEF q, t
<1>5. Lined(pc', sdp') /\ Agreed(pc', sdp') /\ pc'.count = Mid
  BY <1>1, <1>2, AnswerFacts
<1>6. Remote' /\ Lined(pc, sdp)' /\ Spare(pc, sdp)'
  BY <1>1, <1>2, <1>5 DEF Remote, Spare, Agreed
<1>7. new \in Producers /\ new.id = id /\ new.localId = Mid /\ new.closed = FALSE
  BY <1>1, <1>4 DEF Producers
<1> HIDE DEF new
<1>8. /\ prods' \in Seq(Producers) /\ n \in Nat
      /\ DOMAIN prods = 1 .. n /\ DOMAIN prods' = 1 .. n + 1
      /\ \A k \in 1 .. n : prods'[k] = prods[k]
      /\ prods'[n + 1] = new
  BY <1>2, <1>4, <1>7, AppendProperties
<1> HIDE DEF n
<1>9. \A k \in 1 .. n + 1 : k \in 1 .. n \/ k = n + 1
  BY <1>8
<1>10. Transceivers'
  <2>1. \A k \in 1 .. n : prods[k].localId \in 1 .. pc.count /\ prods[k].localId # Mid
    BY <1>4, <1>8 DEF Transceivers, Mid
  <2>2. Mid \in 1 .. Mid /\ \A x \in 1 .. pc.count : x \in 1 .. Mid
    BY <1>4 DEF Mid
  <2>3. \A k \in 1 .. n + 1 : prods'[k].localId \in 1 .. Mid
                              /\ prods'[k].localId \in mapMidTransceiver'
    BY <1>2, <1>4, <1>7, <1>8, <1>9, <2>1, <2>2 DEF Transceivers
  <2>4. \A j, k \in 1 .. n + 1 : prods'[j].localId = prods'[k].localId => j = k
    BY <1>4, <1>7, <1>8, <1>9, <2>1 DEF Transceivers
  <2> QED
    BY <1>2, <1>4, <1>5, <1>8, <2>3, <2>4 DEF Transceivers
<1>11. \E i \in DOMAIN t.sections : t.sections[i].mid = Mid /\ t.sections[i].state = "active"
  <2>1. PICK i \in DOMAIN q.local : q.local[i] = Mid
    BY <1>1
  <2>2. t.media = t.sections /\ t.sections \in Seq(Sections) /\ q.local \in Seq(Nat)
    BY <1>1 DEF Whole, Typed, Written, Lined, Pcs
  <2>3. i \in DOMAIN t.sections /\ t.sections[i].mid = Mid
    BY <1>2, <2>1, <2>2 DEF Matches
  <2> QED
    BY <1>1, <2>3
<1>12. Owned(sdp)'
  <2> SUFFICES ASSUME NEW k \in 1 .. n + 1, ~prods'[k].closed
               PROVE  \E i \in DOMAIN t.sections :
                         t.sections[i].mid = prods'[k].localId /\ t.sections[i].state = "active"
    BY <1>2, <1>8 DEF Owned
  <2>1. CASE k = n + 1
    BY <1>7, <1>8, <1>11, <2>1
  <2>2. CASE k \in 1 .. n
    BY <1>1, <1>8, <2>2 DEF Owned
  <2> QED
    BY <1>9, <2>1, <2>2
<1>13. InStep'
  BY <1>5 DEF InStep
<1>14. NoOrphanSection'
  <2> SUFFICES ASSUME ~closed', Undisturbed', NEW i \in DOMAIN t.sections,
                      t.sections[i].state = "active"
               PROVE  \/ t.sections[i].mid \in abandoned'
                      \/ \E k \in DOMAIN prods' : ~prods'[k].closed
                                                  /\ prods'[k].localId = t.sections[i].mid
    BY <1>2 DEF NoOrphanSection, Undisturbed
  <2>1. Undisturbed
    BY <1>3 DEF Undisturbed
  <2>2. CASE t.sections[i].mid = Mid
    <3>1. n + 1 \in 1 .. n + 1
      BY <1>8
    <3> QED
      BY <1>7, <1>8, <2>2, <3>1
  <2>3. CASE /\ i \in DOMAIN sdp.sections
             /\ t.sections[i].mid = sdp.sections[i].mid
             /\ t.sections[i].state = sdp.sections[i].state
    <3>1. \/ t.sections[i].mid \in abandoned
          \/ \E k \in 1 .. n : ~prods[k].closed /\ prods[k].localId = t.sections[i].mid
      BY <1>2, <1>4, <1>8, <2>1, <2>3 DEF NoOrphanSection, Undisturbed
    <3>2. \A k \in 1 .. n : k \in 1 .. n + 1
      BY <1>8
    <3> QED
      BY <1>2, <1>8, <3>1, <3>2
  <2> QED
    BY <1>1, <2>1, <2>2, <2>3
<1>15. Numbered'
  <2> SUFFICES ASSUME "produce" \notin happened', NEW k \in 1 .. n + 1
               PROVE  /\ prods'[k].id = k
                      /\ ~prods'[k].closed => ~closed' /\ k \in DOMAIN producers'
                                              /\ producers'[k] = k
    BY <1>8 DEF Numbered
  <2>1. id = n + 1
    BY <1>3 DEF n
  <2>2. CASE k = n + 1
    BY <1>2, <1>7, <1>8, <2>1, <2>2 DEF Store
  <2>3. CASE k \in 1 .. n
    <3>1. k # n + 1
      BY <1>8, <2>3
    <3>2. prods[k].id = k /\ (~prods[k].closed => k \in DOMAIN producers /\ producers[k] = k)
      BY <1>3, <1>4, <1>8, <2>3 DEF Numbered
    <3> QED
      BY <1>2, <1>8, <2>1, <2>3, <3>1, <3>2 DEF Store
  <2> QED
    BY <1>9, <2>2, <2>3
<1> QED
  BY <1>6, <1>10, <1>12, <1>13, <1>14, <1>15 DEF IndInv

(* Invalid parameters after a good Send(): its section is not active any    *)
(* more, and no other one is touched.                                       *)
LEMMA ProduceInvalidStep ==
  ASSUME IndInv, ProduceInvalid
  PROVE  IndInv'
<1> DEFINE q == AddTransceiver(pc)
           t == SentSdp
           a == Answered(q, t.media)
<1>1. /\ Whole(t) /\ IndexExact(t) /\ Lined(q, t)
      /\ t.role = "client" /\ t.offers = FALSE
      /\ q.count = Mid /\ Mid \in Nat /\ q.leftover = 0
      /\ \E i \in DOMAIN q.local : q.local[i] = Mid
      /\ Owned(t)
      /\ Undisturbed => \A i \in DOMAIN t.sections :
                                 \/ t.sections[i].mid = Mid
                                 \/ /\ i \in DOMAIN sdp.sections
                                    /\ t.sections[i].mid = sdp.sections[i].mid
                                    /\ t.sections[i].state = sdp.sections[i].state
  BY SentFacts
<1>2. /\ Matches(q, t.media) /\ transportReady' = TRUE /\ abandoned' = abandoned
      /\ closed' = closed /\ prods' = prods /\ producers' = producers
      /\ mapMidTransceiver' = mapMidTransceiver \cup {Mid}
      /\ sdp' = CloseMediaSection(t, Mid) /\ Renegotiate(a, sdp')
  BY DEF ProduceInvalid, SendDone, SendSucceeds, StopSending
<1>3. Transceivers /\ NoOrphanSection /\ Numbered /\ pc.count \in Nat
  BY DEF IndInv, Lined, Pcs
<1> HIDE DEF q, t
<1>4. Lined(a, t) /\ Agreed(a, t) /\ a.count = Mid /\ Spare(a, t)
  BY <1>1, <1>2, AnswerFacts DEF Spare, Agreed
<1> HIDE DEF a
<1>5. Mid \in Mids(t)
  <2>1. PICK i \in DOMAIN q.local : q.local[i] = Mid
    BY <1>1
  <2>2. t.media = t.sections /\ t.sections \in Seq(Sections) /\ q.local \in Seq(Nat)
    BY <1>1 DEF Whole, Typed, Written, Lined, Pcs
  <2>3. i \in DOMAIN t.sections /\ t.sections[i].mid = Mid
    BY <1>2, <2>1, <2>2 DEF Matches
  <2> QED
    BY <2>3 DEF Mids
<1>6. Stopped(t, a, Mid, sdp')
  BY <1>1, <1>2, <1>4, <1>5, StopFacts
<1>7. Remote' /\ Lined(pc, sdp)' /\ Spare(pc, sdp)' /\ pc'.count = Mid
  BY <1>1, <1>2, <1>4, <1>6 DEF Stopped, Remote
<1>8. Transceivers'
  BY <1>2, <1>3, <1>7 DEF Transceivers, Mid
<1>9. Owned(sdp)'
  <2> SUFFICES ASSUME NEW k \in DOMAIN prods, ~prods[k].closed
               PROVE  \E i \in DOMAIN sdp'.sections :
                         sdp'.sections[i].mid = prods[k].localId /\ sdp'.sections[i].state = "active"
    BY <1>2 DEF Owned
  <2>1. PICK i \in DOMAIN t.sections :
           t.sections[i].mid = prods[k].localId /\ t.sections[i].state = "active"
    BY <1>1 DEF Owned
  <2>2. prods[k].localId \in 1 .. pc.count
    BY <1>3 DEF Transceivers
  <2>3. t.sections[i].mid # Mid
    BY <1>3, <2>1, <2>2 DEF Mid
  <2> QED
    BY <1>6, <2>1, <2>3 DEF Stopped
<1>10. Undisturbed' => Undisturbed
  BY <1>6 DEF Undisturbed, Stopped
<1>11. InStep'
  BY <1>4, <1>6 DEF InStep, Stopped
<1>12. NoOrphanSection'
  <2> SUFFICES ASSUME ~closed', Undisturbed', NEW i \in DOMAIN sdp'.sections,
                      sdp'.sections[i].state = "active"
               PROVE  \/ sdp'.sections[i].mid \in abandoned'
                      \/ \E k \in DOMAIN prods' : ~prods'[k].closed
                                                  /\ prods'[k].localId = sdp'.sections[i].mid
    BY DEF NoOrphanSection, Undisturbed
  <2>1. i \in DOMAIN t.sections /\ t.sections[i].mid # Mid /\ sdp'.sections[i] = t.sections[i]
    BY <1>6 DEF Stopped
  <2>2. /\ i \in DOMAIN sdp.sections /\ sdp'.sections[i].mid = sdp.sections[i].mid
        /\ sdp.sections[i].state = "active"
    BY <1>1, <1>10, <2>1
  <2> QED
    BY <1>2, <1>3, <1>10, <2>2 DEF NoOrphanSection, Undisturbed
<1>13. Numbered'
  BY <1>2, <1>3, <1>6 DEF Numbered, Stopped
<1> QED
  BY <1>7, <1>8, <1>9, <1>11, <1>12, <1>13 DEF IndInv

(* Producer::Close() takes the section of that producer and no other.       *)
LEMMA CloseProducerStep ==
  ASSUME IndInv, NEW k \in DOMAIN prods, CloseProducer(k)
  PROVE  IndInv'
<1> DEFINE mid == prods[k].localId
<1>1. /\ ~prods[k].closed /\ prods' = [prods EXCEPT ![k].closed = TRUE]
      /\ producers' = Erase(prods[k].id)
      /\ closed' = closed /\ transportReady' = transportReady
      /\ mapMidTransceiver' = mapMidTransceiver /\ abandoned' = abandoned
  BY DEF CloseProducer
<1>2. /\ Remote /\ Whole(sdp) /\ IndexExact(sdp) /\ Lined(pc, sdp) /\ Spare(pc, sdp)
      /\ Transceivers /\ Owned(sdp) /\ InStep /\ NoOrphanSection /\ Numbered
      /\ prods \in Seq(Producers)
  BY DEF IndInv, Remote, Transceivers
<1>3. /\ prods' \in Seq(Producers) /\ DOMAIN prods' = DOMAIN prods
      /\ \A j \in DOMAIN prods : j # k => prods'[j] = prods[j]
      /\ prods'[k].closed = TRUE
      /\ \A j \in DOMAIN prods : prods'[j].localId = prods[j].localId /\ prods'[j].id = prods[j].id
  <2> DEFINE c == [prods[k] EXCEPT !.closed = TRUE]
  <2>1. prods[k] \in Producers
    BY <1>2
  <2>2. c \in Producers /\ c.closed = TRUE /\ c.localId = prods[k].localId /\ c.id = prods[k].id
    BY <2>1 DEF Producers
  <2>3. prods' = [prods EXCEPT ![k] = c]
    BY <1>1
  <2> HIDE DEF c
  <2>4. k \in 1 .. Len(prods)
    BY <1>2
  <2>5. prods' \in Seq(Producers) /\ Len(prods') = Len(prods)
    BY <1>2, <2>2, <2>3, <2>4, ExceptSeq
  <2> QED
    BY <1>2, <2>2, <2>3, <2>5
<1>4. Numbered' 
  <2> SUFFICES ASSUME "produce" \notin happened', NEW j \in DOMAIN prods
               PROVE  /\ prods'[j].id = j
                      /\ ~prods'[j].closed => ~closed' /\ j \in DOMAIN producers'
                                              /\ producers'[j] = j
    BY <1>3 DEF Numbered
  <2>1. "produce" \notin happened
    <3>1. happened \subseteq happened'
      BY <1>1 DEF CloseProducer, StopSending, Renegotiate, Fault
    <3> QED
      BY <3>1
  <2>2. /\ prods[j].id = j /\ prods[k].id = k
        /\ ~prods[j].closed => ~closed /\ j \in DOMAIN producers /\ producers[j] = j
    BY <1>2, <2>1 DEF Numbered
  <2>3. CASE j = k
    BY <1>3, <2>2, <2>3
  <2>4. CASE j # k
    BY <1>1, <1>3, <2>2, <2>4 DEF Erase
  <2> QED
    BY <2>3, <2>4
<1>5. CASE closed
  <2>1. sdp' = sdp /\ pc' = pc /\ happened' = happened
    BY <1>5 DEF CloseProducer
  <2>2. Remote' /\ Lined(pc, sdp)' /\ Spare(pc, sdp)' /\ InStep'
    BY <1>1, <1>2, <2>1 DEF Remote, InStep, Undisturbed
  <2>3. Transceivers'
    BY <1>1, <1>2, <1>3, <2>1 DEF Transceivers
  <2>4. Owned(sdp)'
    BY <1>2, <1>3, <2>1 DEF Owned
  <2>5. NoOrphanSection'
    BY <1>1, <1>5 DEF NoOrphanSection
  <2> QED
    BY <1>4, <2>2, <2>3, <2>4, <2>5 DEF IndInv
<1>6. CASE ~closed
  <2>1. sdp' = CloseMediaSection(sdp, mid) /\ Renegotiate(pc, sdp')
    BY <1>1, <1>2, <1>6 DEF CloseProducer, StopSending, Transceivers
  <2>2. mid \in Mids(sdp)
    BY <1>1, <1>2 DEF Owned, Mids
  <2> HIDE DEF mid
  <2>3. Stopped(sdp, pc, mid, sdp')
    BY <1>2, <2>1, <2>2, StopFacts
  <2>4. Remote' /\ Lined(pc, sdp)' /\ Spare(pc, sdp)' /\ pc'.count = pc.count
    <3>1. sdp.sections # <<>>
      BY <1>2, <2>2 DEF Mids
    <3> QED
      BY <1>1, <1>2, <2>3, <3>1 DEF Stopped, Remote
  <2>5. Transceivers'
    BY <1>1, <1>2, <1>3, <2>4 DEF Transceivers
  <2>6. Owned(sdp)'
    <3> SUFFICES ASSUME NEW j \in DOMAIN prods, ~prods'[j].closed
                 PROVE  \E i \in DOMAIN sdp'.sections :
                           /\ sdp'.sections[i].mid = prods'[j].localId
                           /\ sdp'.sections[i].state = "active"
      BY <1>3 DEF Owned
    <3>1. j # k /\ ~prods[j].closed /\ prods[j].localId # mid
      BY <1>2, <1>3 DEF Transceivers, mid
    <3>2. PICK i \in DOMAIN sdp.sections :
             sdp.sections[i].mid = prods[j].localId /\ sdp.sections[i].state = "active"
      BY <1>2, <3>1 DEF Owned
    <3> QED
      BY <1>3, <2>3, <3>1, <3>2 DEF Stopped
  <2>7. Undisturbed' => Undisturbed
    BY <2>3 DEF Undisturbed, Stopped
  <2>8. InStep'
    BY <1>2, <2>3, <2>7 DEF InStep, Stopped
  <2>9. NoOrphanSection'
    <3> SUFFICES ASSUME ~closed', Undisturbed', NEW i \in DOMAIN sdp'.sections,
                        sdp'.sections[i].state = "active"
                 PROVE  \/ sdp'.sections[i].mid \in abandoned'
                        \/ \E j \in DOMAIN prods' : ~prods'[j].closed
                                                    /\ prods'[j].localId = sdp'.sections[i].mid
      BY DEF NoOrphanSection, Undisturbed
    <3>1. i \in DOMAIN sdp.sections /\ sdp.sections[i].mid # mid /\ sdp'.sections[i] = sdp.sections[i]
      BY <2>3 DEF Stopped
    <3>2. \/ sdp.sections[i].mid \in abandoned
          \/ \E j \in DOMAIN prods : ~prods[j].closed /\ prods[j].localId = sdp.sections[i].mid
      BY <1>1, <1>2, <2>7, <3>1 DEF NoOrphanSection, Undisturbed
    <3> QED
      BY <1>1, <1>3, <3>1, <3>2 DEF mid
  <2> QED
    BY <1>4, <2>4, <2>5, <2>6, <2>8, <2>9 DEF IndInv
<1> QED
  BY <1>5, <1>6

(* RestartIce() renews the parameters of the sections and moves none.       *)
LEMMA RestartIceStep ==
  ASSUME IndInv, RestartIce
  PROVE  IndInv'
<1>1. /\ closed' = closed /\ transportReady' = transportReady /\ prods' = prods
      /\ mapMidTransceiver' = mapMidTransceiver /\ producers' = producers
      /\ abandoned' = abandoned /\ sdp' = UpdateIceParameters(sdp, sdp.ice + 1)
      /\ IF transportReady THEN Renegotiate(pc, sdp') ELSE UNCHANGED <<pc, happened>>
  BY DEF RestartIce
<1>2. /\ Remote /\ Whole(sdp) /\ IndexExact(sdp) /\ Lined(pc, sdp) /\ Spare(pc, sdp)
      /\ Transceivers /\ Owned(sdp) /\ InStep /\ NoOrphanSection /\ Numbered
  BY DEF IndInv, Remote
<1>3. sdp.ice + 1 \in Nat
  BY <1>2 DEF Whole, Typed
<1>4. Restarted(sdp, sdp.ice + 1, sdp.role, sdp')
  BY <1>1, <1>2, <1>3, IceWhole
<1>5. /\ Whole(sdp') /\ IndexExact(sdp') /\ SameLines(sdp, sdp')
      /\ sdp'.role = sdp.role /\ sdp'.offers = sdp.offers
  BY <1>2, <1>4 DEF Restarted, SameLines
<1>6. /\ Lined(pc, sdp') /\ Spare(pc, sdp') /\ Owned(sdp')
      /\ Agreed(pc, sdp) => Agreed(pc, sdp')
  BY <1>2, <1>5, SameKept
<1>7. /\ Lined(pc', sdp') /\ Spare(pc', sdp') /\ pc'.count = pc.count
      /\ happened \subseteq happened'
      /\ Undisturbed' /\ Agreed(pc, sdp') => Agreed(pc', sdp')
  <2>1. CASE transportReady
    <3>1. Renegotiate(pc, sdp')
      BY <1>1, <2>1
    <3>2. /\ Lined(pc', sdp') /\ Spare(pc', sdp') /\ pc'.count = pc.count
          /\ happened \subseteq happened'
          /\ /\ Undisturbed' /\ pc.leftover = 0
             /\ Len(sdp'.sections) = Len(pc.local)
             /\ \A i \in DOMAIN sdp'.sections : sdp'.sections[i].mid = pc.local[i]
             => Agreed(pc', sdp')
      BY <1>5, <1>6, <3>1, RenegotiateFacts
    <3> QED
      BY <3>2 DEF Agreed
  <2>2. CASE ~transportReady
    BY <1>1, <1>6, <2>2
  <2> QED
    BY <2>1, <2>2
<1>8. Remote'
  <2>1. sdp'.sections # <<>> => sdp.sections # <<>>
    BY <1>2, <1>5 DEF SameLines, Whole, Typed
  <2> QED
    BY <1>1, <1>2, <1>5, <2>1 DEF Remote
<1>9. Transceivers'
  BY <1>1, <1>2, <1>7 DEF Transceivers
<1>10. Owned(sdp)'
  BY <1>1, <1>6 DEF Owned
<1>11. Undisturbed' => Undisturbed
  BY <1>7 DEF Undisturbed
<1>12. InStep'
  BY <1>2, <1>6, <1>7, <1>11 DEF InStep
<1>13. NoOrphanSection'
  BY <1>1, <1>2, <1>5, <1>11 DEF NoOrphanSection, Undisturbed, SameLines
<1>14. Numbered'
  BY <1>1, <1>2, <1>7 DEF Numbered
<1> QED
  BY <1>7, <1>8, <1>9, <1>10, <1>12, <1>13, <1>14 DEF IndInv

(* Close() tells every producer that is in the map.                         *)
LEMMA CloseStep ==
  ASSUME IndInv, Close
  PROVE  IndInv'
<1>1. /\ closed' = TRUE /\ transportReady' = transportReady /\ sdp' = sdp /\ pc' = pc
      /\ mapMidTransceiver' = mapMidTransceiver /\ producers' = producers
      /\ abandoned' = abandoned /\ happened' = happened
      /\ prods' = [k \in DOMAIN prods |->
                     IF \E id \in DOMAIN producers : producers[id] = k
                     THEN [prods[k] EXCEPT !.closed = TRUE] ELSE prods[k]]
  BY DEF Close
<1>2. /\ Remote /\ Lined(pc, sdp) /\ Spare(pc, sdp) /\ Transceivers /\ Owned(sdp)
      /\ InStep /\ Numbered /\ prods \in Seq(Producers)
  BY DEF IndInv, Transceivers
<1>3. \A c \in Producers : LET d == [c EXCEPT !.closed = TRUE] IN
         d \in Producers /\ d.id = c.id /\ d.localId = c.localId /\ d.closed = TRUE
  BY DEF Producers
<1>4. \A k \in DOMAIN prods : prods[k] \in Producers
  BY <1>2
<1>5. /\ DOMAIN prods' = DOMAIN prods
      /\ \A k \in DOMAIN prods :
            /\ prods'[k] \in Producers
            /\ prods'[k].id = prods[k].id /\ prods'[k].localId = prods[k].localId
            /\ ~prods'[k].closed =>
                 ~prods[k].closed /\ ~\E id \in DOMAIN producers : producers[id] = k
  BY <1>1, <1>3, <1>4
<1>6. prods' \in Seq(Producers)
  <2>1. DOMAIN prods = 1 .. Len(prods) /\ Len(prods) \in Nat
    BY <1>2
  <2>2. prods' \in [1 .. Len(prods) -> Producers]
    BY <1>1, <1>5, <2>1
  <2> QED
    BY <2>1, <2>2, SeqDef
<1>7. Remote' /\ Lined(pc, sdp)' /\ Spare(pc, sdp)' /\ InStep'
  BY <1>1, <1>2 DEF Remote, InStep, Undisturbed
<1>8. Transceivers'
  BY <1>1, <1>2, <1>5, <1>6 DEF Transceivers
<1>9. Owned(sdp)'
  BY <1>1, <1>2, <1>5 DEF Owned
<1>10. NoOrphanSection'
  BY <1>1 DEF NoOrphanSection
<1>11. Numbered'
  BY <1>1, <1>2, <1>5 DEF Numbered
<1> QED
  BY <1>7, <1>8, <1>9, <1>10, <1>11 DEF IndInv

(* The invariant holds at first: no section, no line, no producer.          *)
LEMMA InitInv == Init => IndInv
<1> SUFFICES ASSUME Init PROVE IndInv
  OBVIOUS
<1> DEFINE s == NewSdp(FALSE)
<1>1. /\ Whole(s) /\ IndexExact(s) /\ s.sections = <<>> /\ s.offers = FALSE
  BY NewWhole
<1> HIDE DEF s
<1>2. /\ sdp = s /\ pc = NewPc /\ prods = <<>> /\ closed = FALSE /\ transportReady = FALSE
      /\ happened = {}
  BY DEF Init, s
<1>3. DOMAIN sdp.sections = {} /\ Len(sdp.sections) = 0 /\ DOMAIN prods = {}
  BY <1>1, <1>2
<1>4. /\ pc \in Pcs /\ pc.count = 0 /\ pc.leftover = 0 /\ pc.local = <<>>
      /\ pc.rejected = {} /\ DOMAIN pc.local = {} /\ Len(pc.local) = 0
  BY <1>2 DEF NewPc, Pcs
<1>5. Remote
  BY <1>1, <1>2 DEF Remote
<1>6. Lined(pc, sdp) /\ Spare(pc, sdp)
  BY <1>3, <1>4 DEF Lined, Lines, Spare
<1>7. prods \in Seq(Producers)
  BY <1>2
<1>8. Transceivers /\ Owned(sdp) /\ NoOrphanSection /\ Numbered
  BY <1>2, <1>3, <1>7 DEF Transceivers, Owned, NoOrphanSection, Numbered
<1>9. InStep
  BY <1>3, <1>4 DEF InStep, Agreed, Reusable
<1> QED
  BY <1>5, <1>6, <1>8, <1>9 DEF IndInv

(* Every step of the sending transport keeps the invariant.                 *)
LEMMA NextInv == IndInv /\ [Next]_vars => IndInv'
<1> SUFFICES ASSUME IndInv, [Next]_vars PROVE IndInv'
  OBVIOUS
<1>1. ASSUME NEW at \in {"create", "connect", "local"}, SendFailsEarly(at) PROVE IndInv'
  BY <1>1, SendFailsEarlyStep
<1>2. CASE SendFailsLate
  BY <1>2, SendFailsLateStep
<1>3. ASSUME NEW id \in {0, Len(prods) + 1}, Produce(id) PROVE IndInv'
  BY <1>3, ProduceStep
<1>4. CASE ProduceInvalid
  BY <1>4, ProduceInvalidStep
<1>5. ASSUME NEW k \in DOMAIN prods, CloseProducer(k) PROVE IndInv'
  BY <1>5, CloseProducerStep
<1>6. CASE RestartIce
  BY <1>6, RestartIceStep
<1>7. CASE Close
  BY <1>7, CloseStep
<1>8. CASE UNCHANGED vars
  <2>1. /\ closed' = closed /\ transportReady' = transportReady /\ sdp' = sdp /\ pc' = pc
        /\ mapMidTransceiver' = mapMidTransceiver /\ prods' = prods
        /\ producers' = producers /\ abandoned' = abandoned /\ happened' = happened
    BY <1>8 DEF vars
  <2> QED
    BY <2>1 DEF IndInv, Remote, Transceivers, Owned, InStep, Undisturbed, NoOrphanSection,
                Numbered
<1> QED
  BY <1>1, <1>2, <1>3, <1>4, <1>5, <1>6, <1>7, <1>8 DEF Next

(* The inductive invariant is an invariant.                                 *)
LEMMA Inductive == Spec => []IndInv
  BY InitInv, NextInv, PTL DEF Spec

-------------------------------------------------------------------------------
(* RemoteSdp over any sequence of sections that Send() adds, closes, reuses *)
(* and restarts, whatever fails in between: midToIndex is the inverse of    *)
(* the sections, the first of them stays open, and the SDP object is up to  *)
(* date.                                                                    *)
THEOREM SdpStaysConsistent == Spec => []SdpConsistent
<1>1. IndInv => SdpConsistent
  <2> SUFFICES ASSUME IndInv PROVE SdpConsistent
    OBVIOUS
  <2>1. Whole(sdp) /\ IndexExact(sdp) /\ Written(sdp) /\ sdp.offers = FALSE
    BY DEF IndInv, Remote, Whole
  <2>2. FirstSectionOpen(sdp)
    BY <2>1, WholeFirst
  <2>3. ASSUME NEW i \in DOMAIN sdp.media PROVE sdp.media[i].setup = "active"
    <3>1. sdp.sections # <<>> /\ sdp.media[i].setup = Setup(sdp, sdp.role)
      BY <2>1 DEF Written
    <3>2. sdp.role = "client"
      BY <3>1 DEF IndInv, Remote
    <3> QED
      BY <2>1, <3>1, <3>2 DEF Setup
  <2> QED
    BY <2>1, <2>2, <2>3 DEF SdpConsistent, SectionsIndexed, BundleKept, SdpWritten
<1> QED
  BY <1>1, Inductive, PTL

(* Unless an offer failed, the router's SDP and the local description have  *)
(* the same m= lines and agree on which may be reused: the position that    *)
(* GetNextMediaSectionIdx() announces is the one the PeerConnection picks.  *)
THEOREM LinesAligned == Spec => []Aligned
<1>1. IndInv => Aligned
  <2> SUFFICES ASSUME IndInv, Undisturbed
               PROVE  /\ Matches(pc, sdp.media)
                      /\ pc.rejected = {i \in DOMAIN sdp.media : sdp.media[i].state = "closed"}
    BY DEF Aligned, Undisturbed
  <2>1. sdp.media = sdp.sections /\ Agreed(pc, sdp)
    BY DEF IndInv, Remote, Whole, Written, InStep
  <2> QED
    BY <2>1 DEF Agreed, Matches, Reusable
<1> QED
  BY <1>1, Inductive, PTL

(* An open producer always has an active section of its own, whatever was   *)
(* closed, reused or failed: nobody else's Close() takes it.                *)
THEOREM ProducersKeepSections == Spec => []OwnSection
<1>1. IndInv => OwnSection
  BY DEF IndInv, Owned, Transceivers, OwnSection
<1> QED
  BY <1>1, Inductive, PTL

(* No section keeps sending for nobody.                                     *)
THEOREM NoSectionOrphaned == Spec => []NoOrphanSection
<1>1. IndInv => NoOrphanSection
  BY DEF IndInv
<1> QED
  BY <1>1, Inductive, PTL

(* SendTransport::Close() closes every producer that got its id.            *)
THEOREM ProducersClosed == Spec => []ProducersWithIdClosed
<1>1. IndInv => ProducersWithIdClosed
  BY DEF IndInv, Numbered, ProducersWithIdClosed
<1> QED
  BY <1>1, Inductive, PTL
===============================================================================
