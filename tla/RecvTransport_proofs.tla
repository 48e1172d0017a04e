------------------------- MODULE RecvTransport_proofs -------------------------
(***************************************************************************)
(* Proofs about the receiving transport, for any number of Consume() calls *)
(* and restarts and any choice of the faults.                              *)
(*                                                                         *)
(* A Receive() that throws leaves its section, so that a later one may add *)
(* the same mid again and midToIndex forgets the first.  The inductive     *)
(* invariant says that this only happens to mids whose Receive() threw, so *)
(* that closing a consumer closes every section of its mid that nobody     *)
(* lost; and, for the mids that the handler generates, that the size of    *)
(* the map is a mid not yet in it.                                         *)
(***************************************************************************)
EXTENDS RecvTransport, RemoteSdp_proofs, FiniteSetTheorems

Failed(fl) == {f[1] : f \in fl}
Faulty(fl) == \E f \in fl : f[2] = "fault"

Consumers == [localId : Nat \ {0}, kind : {"audio", "video"}, closed : BOOLEAN]

(* The router's SDP s, with map the mids that Receive() returned for, fl    *)
(* its failures and n the number of Consume() calls.                        *)
Offering(s, map, fl, n) ==
  /\ Whole(s) /\ s.offers = TRUE
  /\ Mids(s) \subseteq DOMAIN s.midToIndex
  /\ IsFiniteSet(map) /\ map \subseteq Mids(s)
  /\ \A i, j \in DOMAIN s.sections : s.sections[i].mid = s.sections[j].mid =>
        \/ i = j
        \/ /\ s.sections[i].mid \in Failed(fl)
           /\ IF serverMids THEN s.sections[i].mid = ProbatorMid ELSE Faulty(fl)
  /\ IF serverMids
     THEN Mids(s) \subseteq {ProbatorMid} \cup 1 .. n
     ELSE /\ \A m \in map : m <= Cardinality(map)
          /\ ~Faulty(fl) => Mids(s) = map

(* The section that midToIndex gives for a mid is active. *)
Receiving(s, mid) == s.sections[s.midToIndex[mid]].state = "active"

(* Consumers cs have their own mids, whose sections are active while they   *)
(* are open.                                                                *)
Served(s, map, cs) ==
  /\ cs \in Seq(Consumers)
  /\ \A k \in DOMAIN cs : cs[k].localId \in map
  /\ \A j, k \in DOMAIN cs : cs[j].localId = cs[k].localId => j = k
  /\ \A k \in DOMAIN cs : ~cs[k].closed => Receiving(s, cs[k].localId)

(* Every active section is somebody's, or has one of the mids ms. *)
Needed(s, cs, ms) ==
  ~closed => \A i \in DOMAIN s.sections : s.sections[i].state = "active" =>
                \/ s.sections[i].mid \in ms
                \/ \E k \in DOMAIN cs : ~cs[k].closed /\ cs[k].localId = s.sections[i].mid

IsHandler(h) == h = [sdp |-> h.sdp, ready |-> h.ready, map |-> h.map, failed |-> h.failed]

HandlerInv(h, cs, n) ==
  /\ IsHandler(h)
  /\ Offering(h.sdp, h.map, h.failed, n)
  /\ Served(h.sdp, h.map, cs)
  /\ Needed(h.sdp, cs, Failed(h.failed) \cup {ProbatorMid})

IndInv ==
  /\ HandlerInv(Handler, cons, calls)
  /\ calls \in Nat /\ closed \in BOOLEAN /\ serverMids \in BOOLEAN
  /\ ~serverMids /\ ProbatorMid \in mapMidTransceiver => probatorConsumerCreated
-------------------------------------------------------------------------------
(* r is SDP s with a section for mid added at the end. *)
Extended(s, mid, r) ==
  /\ Whole(r) /\ r.offers = s.offers
  /\ Mids(r) = Mids(s) \cup {mid} /\ Mids(r) \subseteq DOMAIN r.midToIndex
  /\ Receiving(r, mid)
  /\ \A m \in Mids(s) : m # mid /\ Receiving(s, m) => Receiving(r, m)
  /\ \E e : /\ e \notin DOMAIN s.sections /\ DOMAIN r.sections = DOMAIN s.sections \cup {e}
            /\ r.sections[e].mid = mid
  /\ \A i \in DOMAIN s.sections : r.sections[i].mid = s.sections[i].mid
                                  /\ r.sections[i].state = s.sections[i].state

Distinct(s) == \A i, j \in DOMAIN s.sections : s.sections[i].mid = s.sections[j].mid => i = j

(* Receive() adds a section, and the map then leads to it, also from a mid  *)
(* that had one.                                                            *)
LEMMA ReceiveExtends ==
  ASSUME NEW s, Whole(s), Mids(s) \subseteq DOMAIN s.midToIndex, NEW mid \in Int \ {None},
         NEW r, r = Receive(s, mid)
  PROVE  Extended(s, mid, r)
<1> DEFINE n == Len(s.sections)
           new == NewSection(s, mid)
<1>1. Grown(s, mid, r)
  BY AddWhole DEF Receive
<1>2. /\ Whole(r) /\ r.sections = Append(s.sections, new) /\ r.offers = s.offers
      /\ DOMAIN r.midToIndex = DOMAIN s.midToIndex \cup {mid}
      /\ r.midToIndex[mid] = n + 1
      /\ \A m \in DOMAIN s.midToIndex : m # mid => r.midToIndex[m] = s.midToIndex[m]
  BY <1>1 DEF Grown
<1>3. new.mid = mid /\ new.state = "active" /\ new \in Sections /\ s.sections \in Seq(Sections)
  BY SetupTyped DEF NewSection, Sections, States, Whole, Typed
<1> HIDE DEF new
<1>4. /\ n \in Nat /\ DOMAIN s.sections = 1 .. n /\ DOMAIN r.sections = 1 .. n + 1
      /\ \A i \in 1 .. n : r.sections[i] = s.sections[i]
      /\ r.sections[n + 1] = new
  BY <1>2, <1>3, AppendProperties
<1> HIDE DEF n
<1>5. /\ n + 1 \notin DOMAIN s.sections /\ DOMAIN r.sections = DOMAIN s.sections \cup {n + 1}
  BY <1>4
<1>6. Mids(r) = Mids(s) \cup {mid}
  <2>1. \A m \in Mids(r) : m \in Mids(s) \cup {mid}
    BY <1>3, <1>4, <1>5 DEF Mids
  <2>2. \A m \in Mids(s) \cup {mid} : m \in Mids(r)
    BY <1>3, <1>4, <1>5 DEF Mids
  <2> QED
    BY <2>1, <2>2
<1>7. Receiving(r, mid)
  BY <1>2, <1>3, <1>4 DEF Receiving
<1>8. ASSUME NEW m \in Mids(s), m # mid, Receiving(s, m) PROVE Receiving(r, m)
  <2>1. m \in DOMAIN s.midToIndex /\ r.midToIndex[m] = s.midToIndex[m]
    BY <1>2, <1>8
  <2>2. s.midToIndex[m] \in 1 .. n
    BY <1>4, <2>1 DEF Whole, IndexSound
  <2> QED
    BY <1>4, <1>8, <2>1, <2>2 DEF Receiving
<1> QED
  BY <1>2, <1>3, <1>4, <1>5, <1>6, <1>7, <1>8 DEF Extended

(* SetupTransport() does not move the sections.                             *)
LEMMA SetupExtends ==
  ASSUME NEW h, NEW s, NEW mid, NEW t, Extended(s, mid, t), NEW r, r = SetupSdp(h, t)
  PROVE  Extended(s, mid, r) /\ (Distinct(r) <=> Distinct(t))
<1>1. CASE r = t
  BY <1>1
<1>2. CASE r = UpdateDtlsRole(t, "server")
  <2>1. Whole(t) /\ "server" \in Roles
    BY DEF Extended, Roles
  <2>2. Restarted(t, t.ice, "server", r)
    BY <1>2, <2>1, RoleWhole
  <2>3. /\ Whole(r) /\ DOMAIN r.sections = DOMAIN t.sections /\ r.offers = t.offers
        /\ r.midToIndex = t.midToIndex
        /\ \A i \in DOMAIN t.sections : r.sections[i].mid = t.sections[i].mid
                                        /\ r.sections[i].state = t.sections[i].state
    BY <2>2 DEF Restarted
  <2>4. Mids(r) = Mids(t)
    BY <2>3 DEF Mids
  <2>5. \A m \in Mids(t) : Receiving(t, m) => Receiving(r, m)
    <3>1. \A m \in Mids(t) : m \in DOMAIN t.midToIndex /\ t.midToIndex[m] \in DOMAIN t.sections
      BY DEF Extended, Whole, IndexSound
    <3> QED
      BY <2>3, <3>1 DEF Receiving
  <2>6. Mids(t) = Mids(s) \cup {mid}
    BY DEF Extended
  <2>7. Distinct(r) <=> Distinct(t)
    BY <2>3 DEF Distinct
  <2>8. Receiving(r, mid) /\ \A m \in Mids(s) : m # mid /\ Receiving(s, m) => Receiving(r, m)
    BY <2>5, <2>6 DEF Extended
  <2>9. \E e : /\ e \notin DOMAIN s.sections /\ DOMAIN r.sections = DOMAIN s.sections \cup {e}
               /\ r.sections[e].mid = mid
    BY <2>3 DEF Extended
  <2>10. \A i \in DOMAIN s.sections : r.sections[i].mid = s.sections[i].mid
                                      /\ r.sections[i].state = s.sections[i].state
    BY <2>3 DEF Extended
  <2> QED
    BY <2>3, <2>4, <2>7, <2>8, <2>9, <2>10 DEF Extended
<1> QED
  BY <1>1, <1>2 DEF SetupSdp

(* The mid of the next Receive(), n Consume() calls before and m after it.  *)
NewMid(map, n, mid, m) ==
  /\ mid \in Int \ {None} /\ n \in Nat /\ m \in Nat /\ n <= m
  /\ IF serverMids THEN mid = ProbatorMid \/ (mid = n + 1 /\ m = n + 1)
     ELSE mid \notin map /\ mid <= Cardinality(map) + 1

(* How Receive() ends: map and failures fl before it, map2 and fl2 after.   *)
Ended(r, mid, map, fl, map2, fl2) ==
  \/ Distinct(r) /\ map2 = map \cup {mid} /\ fl2 = fl
  \/ ~Distinct(r) /\ map2 = map /\ fl2 = fl \cup {<<mid, "refused">>}
  \/ map2 = map /\ fl2 = fl \cup {<<mid, "fault">>}

(* A mid is there twice only if its Receive() threw.                        *)
LEMMA OfferingKept ==
  ASSUME NEW s, NEW map, NEW fl, NEW n, Offering(s, map, fl, n),
         NEW mid, NEW m, NewMid(map, n, mid, m), NEW r, Extended(s, mid, r),
         NEW map2, NEW fl2, Ended(r, mid, map, fl, map2, fl2)
  PROVE  Offering(r, map2, fl2, m)
<1>1. PICK e : /\ e \notin DOMAIN s.sections /\ DOMAIN r.sections = DOMAIN s.sections \cup {e}
               /\ r.sections[e].mid = mid
  BY DEF Extended
<1>2. \A i \in DOMAIN s.sections : r.sections[i].mid = s.sections[i].mid
  BY DEF Extended
<1>3. fl \subseteq fl2 /\ Failed(fl) \subseteq Failed(fl2) /\ (Faulty(fl) => Faulty(fl2))
  BY DEF Ended, Failed, Faulty
<1>4. \/ Distinct(r) /\ map2 = map \cup {mid} /\ fl2 = fl
      \/ map2 = map /\ mid \in Failed(fl2) /\ (Faulty(fl2) \/ (~Distinct(r) /\ (Faulty(fl2) => Faulty(fl))))
  <2>1. CASE Distinct(r) /\ map2 = map \cup {mid} /\ fl2 = fl
    BY <2>1
  <2>2. CASE ~Distinct(r) /\ map2 = map /\ fl2 = fl \cup {<<mid, "refused">>}
    <3>1. <<mid, "refused">> \in fl2 /\ <<mid, "refused">>[1] = mid
      BY <2>2
    <3>2. mid \in Failed(fl2)
      BY <3>1 DEF Failed
    <3>3. \A f \in fl2 : f[2] = "fault" => f \in fl
      BY <2>2
    <3> QED
      BY <2>2, <3>2, <3>3 DEF Faulty
  <2>3. CASE map2 = map /\ fl2 = fl \cup {<<mid, "fault">>}
    <3>1. <<mid, "fault">> \in fl2 /\ <<mid, "fault">>[1] = mid /\ <<mid, "fault">>[2] = "fault"
      BY <2>3
    <3> QED
      BY <2>3, <3>1 DEF Failed, Faulty
  <2> QED
    BY <2>1, <2>2, <2>3 DEF Ended
<1>5. ~serverMids /\ ~Distinct(r) => Faulty(fl)
  <2> SUFFICES ASSUME ~serverMids, ~Faulty(fl) PROVE Distinct(r)
    OBVIOUS
  <2>1. Mids(s) = map /\ mid \notin map
    BY DEF Offering, NewMid
  <2>2. \A i \in DOMAIN s.sections : s.sections[i].mid # mid
    BY <2>1 DEF Mids
  <2>3. \A i, j \in DOMAIN s.sections : s.sections[i].mid = s.sections[j].mid => i = j
    BY DEF Offering
  <2> QED
    BY <1>1, <1>2, <2>2, <2>3 DEF Distinct
<1>6. serverMids => mid = ProbatorMid \/ mid \notin Mids(s)
  <2> SUFFICES ASSUME serverMids, mid # ProbatorMid PROVE mid \notin Mids(s)
    OBVIOUS
  <2>1. mid = n + 1 /\ n \in Nat /\ Mids(s) \subseteq {ProbatorMid} \cup 1 .. n
    BY DEF NewMid, Offering
  <2> QED
    BY <2>1
<1>7. ASSUME NEW i \in DOMAIN r.sections, NEW j \in DOMAIN r.sections, i # j,
             r.sections[i].mid = r.sections[j].mid
      PROVE  /\ r.sections[i].mid \in Failed(fl2)
             /\ IF serverMids THEN r.sections[i].mid = ProbatorMid ELSE Faulty(fl2)
  <2>1. ~Distinct(r)
    BY <1>7 DEF Distinct
  <2>2. map2 = map /\ mid \in Failed(fl2) /\ (~serverMids => Faulty(fl2))
    BY <1>3, <1>4, <1>5, <2>1
  <2>3. CASE i \in DOMAIN s.sections /\ j \in DOMAIN s.sections
    BY <1>2, <1>3, <1>7, <2>3 DEF Offering
  <2>4. CASE i = e \/ j = e
    <3>1. r.sections[i].mid = mid
      BY <1>1, <1>7, <2>4
    <3>2. mid \in Mids(s)
      BY <1>1, <1>2, <1>7, <2>4 DEF Mids
    <3> QED
      BY <1>6, <2>2, <3>1, <3>2
  <2> QED
    BY <1>1, <2>3, <2>4
<1>8. /\ Whole(r) /\ r.offers = TRUE /\ Mids(r) \subseteq DOMAIN r.midToIndex
      /\ Mids(r) = Mids(s) \cup {mid}
  BY DEF Extended, Offering
<1>9. IsFiniteSet(map2) /\ map2 \subseteq Mids(r)
  <2>1. IsFiniteSet(map \cup {mid})
    BY FS_AddElement DEF Offering
  <2> QED
    BY <1>4, <1>8, <2>1 DEF Offering
<1>10. CASE serverMids
  <2>1. Mids(r) \subseteq {ProbatorMid} \cup 1 .. m
    <3>1. Mids(s) \subseteq {ProbatorMid} \cup 1 .. n /\ n \in Nat /\ m \in Nat /\ n <= m
      BY <1>10 DEF Offering, NewMid
    <3>2. mid = ProbatorMid \/ mid \in 1 .. m
      BY <1>10 DEF NewMid
    <3> QED
      BY <1>8, <3>1, <3>2
  <2> QED
    BY <1>7, <1>8, <1>9, <1>10, <2>1 DEF Offering
<1>11. CASE ~serverMids
  <2>1. /\ \A x \in map : x <= Cardinality(map)
        /\ mid \notin map /\ mid <= Cardinality(map) + 1 /\ mid \in Int
        /\ (~Faulty(fl) => Mids(s) = map)
    BY <1>11 DEF Offering, NewMid
  <2>2. Cardinality(map) \in Nat /\ Cardinality(map \cup {mid}) = Cardinality(map) + 1
    BY <2>1, FS_AddElement, FS_CardinalityType DEF Offering
  <2>3. map \subseteq Int
    <3>1. s.sections \in Seq(Sections) /\ map \subseteq Mids(s)
      BY DEF Offering, Whole, Typed
    <3>2. \A i \in DOMAIN s.sections : s.sections[i].mid \in Int
      <4>1. \A i \in DOMAIN s.sections : s.sections[i] \in Sections
        BY <3>1
      <4>2. \A x \in Sections : x.mid \in Int
        BY DEF Sections
      <4> QED
        BY <4>1, <4>2
    <3> QED
      BY <3>1, <3>2 DEF Mids
  <2>4. \A x \in map2 : x <= Cardinality(map2)
    <3>1. CASE map2 = map
      BY <2>1, <3>1
    <3>2. CASE map2 = map \cup {mid}
      <4>1. \A x \in map : x <= Cardinality(map) + 1
        BY <2>1, <2>2, <2>3
      <4> QED
        BY <2>1, <2>2, <3>2, <4>1
    <3> QED
      BY <1>4, <3>1, <3>2
  <2>5. ~Faulty(fl2) => Mids(r) = map2
    BY <1>3, <1>4, <1>5, <1>8, <1>11, <2>1
  <2> QED
    BY <1>7, <1>8, <1>9, <1>11, <2>4, <2>5 DEF Offering
<1> QED
  BY <1>10, <1>11

(* What one Receive() does to the handler, apart from the consumer that is  *)
(* made for it.                                                             *)
Received(h, mid, g) ==
  /\ IsHandler(g) /\ Extended(h.sdp, mid, g.sdp)
  /\ Ended(g.sdp, mid, h.map, h.failed, g.map, g.failed)

(* Receive() that throws has failed for mid; it adds nothing to the map.    *)
LEMMA ThrowsFacts ==
  ASSUME NEW h, IsHandler(h), Whole(h.sdp), Mids(h.sdp) \subseteq DOMAIN h.sdp.midToIndex,
         NEW mid \in Int \ {None}, NEW g \in ReceiveThrows(h, mid)
  PROVE  Received(h, mid, g) /\ g.map = h.map /\ mid \in Failed(g.failed)
         /\ h.failed \subseteq g.failed
<1> DEFINE s == Receive(h.sdp, mid)
           r == SetupSdp(h, s)
<1>1. Extended(h.sdp, mid, s)
  BY ReceiveExtends
<1>2. Extended(h.sdp, mid, r) /\ (Distinct(r) <=> Distinct(s))
  BY <1>1, SetupExtends
<1>3. Acceptable(s.media) <=> Distinct(s)
  BY <1>1 DEF Acceptable, Distinct, Extended, Whole, Written
<1>4. \/ /\ ~Acceptable(s.media)
         /\ g = [h EXCEPT !.sdp = s, !.failed = h.failed \cup {<<mid, "refused">>}]
      \/ g = [h EXCEPT !.sdp = s, !.failed = h.failed \cup {<<mid, "fault">>}]
      \/ g = [h EXCEPT !.sdp = r, !.failed = h.failed \cup {<<mid, "fault">>}]
      \/ g = [h EXCEPT !.sdp = r, !.ready = TRUE, !.failed = h.failed \cup {<<mid, "fault">>}]
  BY DEF ReceiveThrows
<1> HIDE DEF s, r
<1>5. /\ IsHandler(g) /\ g.map = h.map /\ (g.sdp = s \/ g.sdp = r)
      /\ \/ ~Acceptable(s.media) /\ g.sdp = s /\ g.failed = h.failed \cup {<<mid, "refused">>}
         \/ g.failed = h.failed \cup {<<mid, "fault">>}
  BY <1>4 DEF IsHandler
<1>6. mid \in Failed(g.failed)
  <2>1. <<mid, "refused">>[1] = mid /\ <<mid, "fault">>[1] = mid
    OBVIOUS
  <2>2. \E f \in g.failed : f[1] = mid
    BY <1>5, <2>1
  <2> QED
    BY <2>2 DEF Failed
<1>7. Ended(g.sdp, mid, h.map, h.failed, g.map, g.failed)
  BY <1>3, <1>5 DEF Ended
<1> QED
  BY <1>1, <1>2, <1>5, <1>6, <1>7 DEF Received

(* Receive() that returns has put mid, which was new, into the map.         *)
LEMMA ReturnsFacts ==
  ASSUME NEW h, IsHandler(h), Whole(h.sdp), Mids(h.sdp) \subseteq DOMAIN h.sdp.midToIndex,
         NEW mid \in Int \ {None}, NEW g \in ReceiveReturns(h, mid)
  PROVE  Received(h, mid, g) /\ g.map = h.map \cup {mid} /\ mid \notin Mids(h.sdp)
         /\ h.failed = g.failed
<1> DEFINE s == Receive(h.sdp, mid)
           r == SetupSdp(h, s)
<1>1. Extended(h.sdp, mid, s)
  BY ReceiveExtends
<1>2. Extended(h.sdp, mid, r) /\ (Distinct(r) <=> Distinct(s))
  BY <1>1, SetupExtends
<1>3. Acceptable(s.media) <=> Distinct(s)
  BY <1>1 DEF Acceptable, Distinct, Extended, Whole, Written
<1>4. /\ Acceptable(s.media)
      /\ g = [h EXCEPT !.sdp = r, !.ready = TRUE, !.map = h.map \cup {mid}]
  BY DEF ReceiveReturns
<1> HIDE DEF s, r
<1>5. IsHandler(g) /\ g.sdp = r /\ g.map = h.map \cup {mid} /\ g.failed = h.failed
  BY <1>4 DEF IsHandler
<1>6. mid \notin Mids(h.sdp)
  BY <1>2, <1>3, <1>4 DEF Distinct, Extended, Mids
<1> QED
  BY <1>2, <1>3, <1>4, <1>5, <1>6 DEF Received, Ended

(* The consumers there are lose nothing to a Receive(): if it adds a mid of *)
(* theirs again, the map leads to a section that is active too.             *)
LEMMA ServedKept ==
  ASSUME NEW h, NEW mid, NEW g, Received(h, mid, g), NEW cs,
         h.map \subseteq Mids(h.sdp), Served(h.sdp, h.map, cs)
  PROVE  Served(g.sdp, g.map, cs)
<1>1. Extended(h.sdp, mid, g.sdp) /\ h.map \subseteq g.map
  BY DEF Received, Ended
<1>2. ASSUME NEW k \in DOMAIN cs, ~cs[k].closed PROVE Receiving(g.sdp, cs[k].localId)
  BY <1>1, <1>2 DEF Served, Extended
<1> QED
  BY <1>1, <1>2 DEF Served

(* The section added is the only new one.                                   *)
LEMMA NeededKept ==
  ASSUME NEW s, NEW mid, NEW r, Extended(s, mid, r), NEW cs, NEW ms, Needed(s, cs, ms)
  PROVE  Needed(r, cs, ms \cup {mid})
<1> SUFFICES ASSUME ~closed, NEW i \in DOMAIN r.sections, r.sections[i].state = "active"
             PROVE  \/ r.sections[i].mid \in ms \cup {mid}
                    \/ \E k \in DOMAIN cs : ~cs[k].closed /\ cs[k].localId = r.sections[i].mid
  BY DEF Needed
<1>1. CASE r.sections[i].mid = mid
  BY <1>1
<1>2. CASE r.sections[i].mid # mid
  <2>1. /\ i \in DOMAIN s.sections /\ r.sections[i].mid = s.sections[i].mid
        /\ r.sections[i].state = s.sections[i].state
    BY <1>2 DEF Extended
  <2>2. \/ s.sections[i].mid \in ms
        \/ \E k \in DOMAIN cs : ~cs[k].closed /\ cs[k].localId = s.sections[i].mid
    BY <2>1 DEF Needed
  <2> QED
    BY <2>1, <2>2
<1> QED
  BY <1>1, <1>2

(* A Receive() that throws, for a consumer or for probation, keeps the      *)
(* handler's invariant.                                                     *)
LEMMA ThrowsKeeps ==
  ASSUME NEW h, NEW cs, NEW n, HandlerInv(h, cs, n),
         NEW mid, NEW m, NewMid(h.map, n, mid, m), NEW g \in ReceiveThrows(h, mid)
  PROVE  HandlerInv(g, cs, m)
<1>1. /\ IsHandler(h) /\ Whole(h.sdp) /\ Mids(h.sdp) \subseteq DOMAIN h.sdp.midToIndex
      /\ h.map \subseteq Mids(h.sdp) /\ mid \in Int \ {None}
      /\ Offering(h.sdp, h.map, h.failed, n) /\ Served(h.sdp, h.map, cs)
      /\ Needed(h.sdp, cs, Failed(h.failed) \cup {ProbatorMid})
  BY DEF HandlerInv, Offering, NewMid
<1>2. Received(h, mid, g) /\ mid \in Failed(g.failed) /\ h.failed \subseteq g.failed
  BY <1>1, ThrowsFacts
<1>3. Offering(g.sdp, g.map, g.failed, m)
  BY <1>1, <1>2, OfferingKept DEF Received
<1>4. Served(g.sdp, g.map, cs)
  BY <1>1, <1>2, ServedKept
<1>5. Needed(g.sdp, cs, (Failed(h.failed) \cup {ProbatorMid}) \cup {mid})
  BY <1>1, <1>2, NeededKept DEF Received
<1>6. Failed(h.failed) \subseteq Failed(g.failed)
  BY <1>2 DEF Failed
<1>7. Needed(g.sdp, cs, Failed(g.failed) \cup {ProbatorMid})
  BY <1>2, <1>5, <1>6 DEF Needed
<1> QED
  BY <1>2, <1>3, <1>4, <1>7 DEF HandlerInv, Received

(* So does the Receive() of the probation section, which has no consumer.   *)
LEMMA ProbatorKeeps ==
  ASSUME NEW h, NEW cs, NEW n, HandlerInv(h, cs, n),
         NewMid(h.map, n, ProbatorMid, n), NEW g \in ReceiveReturns(h, ProbatorMid)
  PROVE  HandlerInv(g, cs, n)
<1>1. /\ IsHandler(h) /\ Whole(h.sdp) /\ Mids(h.sdp) \subseteq DOMAIN h.sdp.midToIndex
      /\ h.map \subseteq Mids(h.sdp) /\ ProbatorMid \in Int \ {None}
      /\ Offering(h.sdp, h.map, h.failed, n) /\ Served(h.sdp, h.map, cs)
      /\ Needed(h.sdp, cs, Failed(h.failed) \cup {ProbatorMid})
  BY DEF HandlerInv, Offering, NewMid
<1>2. Received(h, ProbatorMid, g) /\ h.failed = g.failed
  BY <1>1, ReturnsFacts
<1>3. Offering(g.sdp, g.map, g.failed, n)
  BY <1>1, <1>2, OfferingKept DEF Received
<1>4. Served(g.sdp, g.map, cs)
  BY <1>1, <1>2, ServedKept
<1>5. Needed(g.sdp, cs, (Failed(h.failed) \cup {ProbatorMid}) \cup {ProbatorMid})
  BY <1>1, <1>2, NeededKept DEF Received
<1>6. Needed(g.sdp, cs, Failed(g.failed) \cup {ProbatorMid})
  BY <1>2, <1>5 DEF Needed
<1> QED
  BY <1>2, <1>3, <1>4, <1>6 DEF HandlerInv, Received

(* A Receive() that returns gives the consumer made for it a mid, and a     *)
(* section, of its own.                                                     *)
LEMMA ReturnsKeeps ==
  ASSUME NEW h, NEW cs, NEW n, HandlerInv(h, cs, n),
         NEW c \in Consumers, ~c.closed, NEW m, NewMid(h.map, n, c.localId, m),
         NEW g \in ReceiveReturns(h, c.localId)
  PROVE  HandlerInv(g, Append(cs, c), m) /\ g.map = h.map \cup {c.localId}
<1> DEFINE mid == c.localId
           ds == Append(cs, c)
           l == Len(cs)
<1>1. /\ IsHandler(h) /\ Whole(h.sdp) /\ Mids(h.sdp) \subseteq DOMAIN h.sdp.midToIndex
      /\ h.map \subseteq Mids(h.sdp) /\ mid \in Int \ {None}
      /\ Offering(h.sdp, h.map, h.failed, n) /\ Served(h.sdp, h.map, cs)
      /\ Needed(h.sdp, cs, Failed(h.failed) \cup {ProbatorMid}) /\ cs \in Seq(Consumers)
  BY DEF HandlerInv, Offering, NewMid, Served
<1> HIDE DEF mid
<1>2. /\ Received(h, mid, g) /\ h.failed = g.failed /\ g.map = h.map \cup {mid}
      /\ mid \notin Mids(h.sdp)
  BY <1>1, ReturnsFacts DEF mid
<1>3. Offering(g.sdp, g.map, g.failed, m)
  BY <1>1, <1>2, OfferingKept DEF Received, mid
<1>4. Served(g.sdp, g.map, cs)
  BY <1>1, <1>2, ServedKept
<1>5. /\ ds \in Seq(Consumers) /\ l \in Nat /\ DOMAIN cs = 1 .. l /\ DOMAIN ds = 1 .. l + 1
      /\ \A k \in 1 .. l : ds[k] = cs[k]
      /\ ds[l + 1] = c
  BY <1>1, AppendProperties
<1> HIDE DEF ds, l
<1>6. /\ \A k \in 1 .. l + 1 : k \in 1 .. l \/ k = l + 1
      /\ \A k \in 1 .. l : k \in 1 .. l + 1
      /\ l + 1 \in 1 .. l + 1
  BY <1>5
<1>7. \A k \in 1 .. l : cs[k].localId # mid
  BY <1>1, <1>2, <1>5 DEF Served
<1>8. Served(g.sdp, g.map, ds)
  <2>1. Receiving(g.sdp, mid)
    BY <1>2 DEF Received, Extended
  <2>2. \A k \in DOMAIN ds : ds[k].localId \in g.map
    BY <1>2, <1>4, <1>5, <1>6 DEF Served, mid
  <2>3. \A j, k \in DOMAIN ds : ds[j].localId = ds[k].localId => j = k
    BY <1>4, <1>5, <1>6, <1>7 DEF Served, mid
  <2>4. \A k \in DOMAIN ds : ~ds[k].closed => Receiving(g.sdp, ds[k].localId)
    BY <1>4, <1>5, <1>6, <2>1 DEF Served, mid
  <2> QED
    BY <1>5, <2>2, <2>3, <2>4 DEF Served
<1>9. Needed(g.sdp, cs, (Failed(h.failed) \cup {ProbatorMid}) \cup {mid})
  BY <1>1, <1>2, NeededKept DEF Received
<1>10. Needed(g.sdp, ds, Failed(g.failed) \cup {ProbatorMid})
  <2>1. l + 1 \in DOMAIN ds /\ ~ds[l + 1].closed /\ ds[l + 1].localId = mid
    BY <1>5, <1>6 DEF mid
  <2>2. \A k \in DOMAIN cs : k \in DOMAIN ds /\ ds[k] = cs[k]
    BY <1>5, <1>6
  <2> QED
    BY <1>2, <1>9, <2>1, <2>2 DEF Needed
<1> QED
  BY <1>2, <1>3, <1>8, <1>10 DEF HandlerInv, Received, ds, mid

-------------------------------------------------------------------------------
(* Steps of the transport *)

(* The mid of a consumer is new: the server's because it counts, the        *)
(* handler's because no mid in the map exceeds the size of the map.         *)
LEMMA LocalIdNew ==
  ASSUME IndInv
  PROVE  /\ NewMid(mapMidTransceiver, calls, LocalId(Handler), calls + 1)
         /\ LocalId(Handler) \in Nat \ {0}
<1>1. /\ calls \in Nat /\ IsFiniteSet(mapMidTransceiver)
      /\ ~serverMids => \A m \in mapMidTransceiver : m <= Cardinality(mapMidTransceiver)
  BY DEF IndInv, HandlerInv, Offering, Handler
<1>2. Cardinality(mapMidTransceiver) \in Nat
  BY <1>1, FS_CardinalityType
<1>3. LocalId(Handler) = IF serverMids THEN calls + 1 ELSE Cardinality(mapMidTransceiver) + 1
  BY DEF LocalId, Handler
<1>4. LocalId(Handler) \in Nat \ {0} /\ LocalId(Handler) \in Int \ {None}
  BY <1>1, <1>2, <1>3, NoneAssumption
<1>5. ~serverMids => LocalId(Handler) \notin mapMidTransceiver
  BY <1>1, <1>2, <1>3
<1>6. LocalId(Handler) <= Cardinality(mapMidTransceiver) + 1 \/ serverMids
  BY <1>2, <1>3
<1> QED
  BY <1>1, <1>3, <1>4, <1>5, <1>6 DEF NewMid

(* A step that makes g the handler.                                         *)
LEMMA BecomesInv ==
  ASSUME closed' = closed, serverMids' = serverMids, NEW g, Becomes(g),
         HandlerInv(g, cons', calls')
  PROVE  HandlerInv(Handler, cons, calls)'
<1>1. Handler' = g
  BY DEF Becomes, Handler, HandlerInv, IsHandler
<1> QED
  BY <1>1 DEF HandlerInv, Offering, Needed

(* Consume() that throws in Receive().                                      *)
LEMMA ConsumeFailsStep ==
  ASSUME IndInv, ConsumeFails
  PROVE  IndInv'
<1>1. PICK g \in ReceiveThrows(Handler, LocalId(Handler)) : Becomes(g)
  BY DEF ConsumeFails
<1>2. /\ calls' = calls + 1 /\ serverMids' = serverMids /\ closed' = closed /\ cons' = cons
      /\ probatorConsumerCreated' = probatorConsumerCreated
  BY DEF ConsumeFails
<1>3. HandlerInv(Handler, cons, calls) /\ Handler.map = mapMidTransceiver /\ calls \in Nat
  BY DEF IndInv, Handler
<1>4. NewMid(Handler.map, calls, LocalId(Handler), calls + 1)
  BY <1>3, LocalIdNew
<1>5. HandlerInv(g, cons, calls + 1)
  BY <1>1, <1>3, <1>4, ThrowsKeeps
<1>6. HandlerInv(Handler, cons, calls)'
  BY <1>1, <1>2, <1>5, BecomesInv
<1>7. mapMidTransceiver' = mapMidTransceiver
  <2>1. g.map = Handler.map
    BY <1>3, <1>4, ThrowsFacts DEF HandlerInv, Offering, NewMid
  <2> QED
    BY <1>1, <1>3, <2>1 DEF Becomes
<1> QED
  BY <1>2, <1>3, <1>6, <1>7 DEF IndInv

(* What the first Receive() of a Consume() that returns makes of h.         *)
LEMMA NewConsumerFacts ==
  ASSUME IndInv, NEW kind \in {"audio", "video"}, NewConsumer(kind),
         NEW h \in ReceiveReturns(Handler, LocalId(Handler))
  PROVE  /\ HandlerInv(h, cons', calls')
         /\ h.map = mapMidTransceiver \cup {LocalId(Handler)}
         /\ calls' \in Nat /\ closed' = closed /\ serverMids' = serverMids
         /\ LocalId(Handler) # ProbatorMid
<1> DEFINE c == [localId |-> LocalId(Handler), kind |-> kind, closed |-> FALSE]
<1>1. /\ calls' = calls + 1 /\ serverMids' = serverMids /\ closed' = closed
      /\ cons' = Append(cons, c)
  BY DEF NewConsumer
<1>2. HandlerInv(Handler, cons, calls) /\ Handler.map = mapMidTransceiver /\ calls \in Nat
  BY DEF IndInv, Handler
<1>3. NewMid(Handler.map, calls, LocalId(Handler), calls + 1) /\ LocalId(Handler) \in Nat \ {0}
  BY <1>2, LocalIdNew
<1>4. c \in Consumers /\ ~c.closed /\ c.localId = LocalId(Handler)
  BY <1>3 DEF Consumers
<1> HIDE DEF c
<1>5. HandlerInv(h, Append(cons, c), calls + 1) /\ h.map = Handler.map \cup {c.localId}
  BY <1>2, <1>3, <1>4, ReturnsKeeps
<1>6. LocalId(Handler) # ProbatorMid
  BY <1>3 DEF ProbatorMid
<1> QED
  BY <1>1, <1>2, <1>4, <1>5, <1>6

(* Consume() without probation.                                             *)
LEMMA ConsumeStep ==
  ASSUME IndInv, NEW kind \in {"audio", "video"}, Consume(kind)
  PROVE  IndInv'
<1>1. /\ NewConsumer(kind) /\ probatorConsumerCreated' = probatorConsumerCreated
      /\ \E h \in ReceiveReturns(Handler, LocalId(Handler)) : Becomes(h)
  BY DEF Consume
<1>2. PICK h \in ReceiveReturns(Handler, LocalId(Handler)) : Becomes(h)
  BY <1>1
<1>3. /\ HandlerInv(h, cons', calls')
      /\ h.map = mapMidTransceiver \cup {LocalId(Handler)}
      /\ calls' \in Nat /\ closed' = closed /\ serverMids' = serverMids
      /\ LocalId(Handler) # ProbatorMid
  BY <1>1, <1>2, NewConsumerFacts
<1>4. HandlerInv(Handler, cons, calls)'
  BY <1>2, <1>3, BecomesInv
<1>5. mapMidTransceiver' = mapMidTransceiver \cup {LocalId(Handler)}
  BY <1>2, <1>3 DEF Becomes
<1> QED
  BY <1>1, <1>3, <1>4, <1>5 DEF IndInv

(* Consume() with probation, however far that gets.                         *)
LEMMA ConsumeAndProbeStep ==
  ASSUME IndInv, ConsumeAndProbe
  PROVE  IndInv'
<1>1. ~probatorConsumerCreated /\ NewConsumer("video")
  BY DEF ConsumeAndProbe
<1>2. PICK h \in ReceiveReturns(Handler, LocalId(Handler)) :
        \/ /\ \E g \in ReceiveReturns(h, ProbatorMid) : Becomes(g)
           /\ probatorConsumerCreated' = TRUE
        \/ /\ \E g \in ReceiveThrows(h, ProbatorMid) : Becomes(g)
           /\ UNCHANGED probatorConsumerCreated
        \/ /\ "probator" \in Faults
           /\ Becomes(h)
           /\ UNCHANGED probatorConsumerCreated
  BY DEF ConsumeAndProbe
<1>3. /\ HandlerInv(h, cons', calls')
      /\ h.map = mapMidTransceiver \cup {LocalId(Handler)}
      /\ calls' \in Nat /\ closed' = closed /\ serverMids' = serverMids
      /\ LocalId(Handler) # ProbatorMid
  BY <1>1, <1>2, NewConsumerFacts
<1>4. ~serverMids => ProbatorMid \notin h.map
  BY <1>1, <1>3 DEF IndInv
<1>5. NewMid(h.map, calls', ProbatorMid, calls')
  <2>1. IsFiniteSet(h.map)
    BY <1>3 DEF HandlerInv, Offering
  <2>2. Cardinality(h.map) \in Nat
    BY <2>1, FS_CardinalityType
  <2>3. ProbatorMid \in Int \ {None} /\ ProbatorMid <= Cardinality(h.map) + 1
    BY <2>2, NoneAssumption DEF ProbatorMid
  <2> QED
    BY <1>3, <1>4, <2>3 DEF NewMid
<1>6. ASSUME NEW g \in ReceiveReturns(h, ProbatorMid), Becomes(g),
             probatorConsumerCreated' = TRUE
      PROVE  IndInv'
  <2>1. HandlerInv(g, cons', calls')
    BY <1>3, <1>5, <1>6, ProbatorKeeps
  <2>2. HandlerInv(Handler, cons, calls)'
    BY <1>3, <1>6, <2>1, BecomesInv
  <2> QED
    BY <1>3, <1>6, <2>2 DEF IndInv
<1>7. ASSUME NEW g \in ReceiveThrows(h, ProbatorMid), Becomes(g),
             probatorConsumerCreated' = probatorConsumerCreated
      PROVE  IndInv'
  <2>1. HandlerInv(g, cons', calls')
    BY <1>3, <1>5, <1>7, ThrowsKeeps
  <2>2. HandlerInv(Handler, cons, calls)'
    BY <1>3, <1>7, <2>1, BecomesInv
  <2>3. g.map = h.map
    BY <1>3, <1>5, <1>7, ThrowsFacts DEF HandlerInv, Offering, NewMid
  <2>4. mapMidTransceiver' = h.map
    BY <1>7, <2>3 DEF Becomes
  <2> QED
    BY <1>3, <1>4, <2>2, <2>4 DEF IndInv
<1>8. ASSUME Becomes(h), probatorConsumerCreated' = probatorConsumerCreated
      PROVE  IndInv'
  <2>1. HandlerInv(Handler, cons, calls)'
    BY <1>3, <1>8, BecomesInv
  <2>2. mapMidTransceiver' = h.map
    BY <1>8 DEF Becomes
  <2> QED
    BY <1>3, <1>4, <2>1, <2>2 DEF IndInv
<1> QED
  BY <1>2, <1>6, <1>7, <1>8

(* The parts of the invariant, on the variables.                            *)
LEMMA Unfolded ==
  ASSUME IndInv
  PROVE  /\ Offering(sdp, mapMidTransceiver, failed, calls)
         /\ Served(sdp, mapMidTransceiver, cons)
         /\ Needed(sdp, cons, Failed(failed) \cup {ProbatorMid})
         /\ Whole(sdp) /\ cons \in Seq(Consumers)
  BY DEF IndInv, HandlerInv, Handler, Offering, Served

(* ... and put together again after a step.                                 *)
LEMMA Folded ==
  ASSUME Offering(sdp, mapMidTransceiver, failed, calls)',
         Served(sdp, mapMidTransceiver, cons)',
         Needed(sdp, cons, Failed(failed) \cup {ProbatorMid})'
  PROVE  HandlerInv(Handler, cons, calls)'
<1>1. /\ Handler.sdp = sdp /\ Handler.map = mapMidTransceiver /\ Handler.failed = failed
      /\ IsHandler(Handler)
  BY DEF Handler, IsHandler
<1>2. /\ Handler'.sdp = sdp' /\ Handler'.map = mapMidTransceiver' /\ Handler'.failed = failed'
      /\ IsHandler(Handler)'
  BY DEF Handler, IsHandler
<1> QED
  BY <1>2 DEF HandlerInv

(* Consumer::Close() closes the section that midToIndex gives; any other of *)
(* that mid was added by a Receive() that threw.                            *)
LEMMA CloseConsumerStep ==
  ASSUME IndInv, NEW k \in DOMAIN cons, CloseConsumer(k)
  PROVE  IndInv'
<1> DEFINE mid == cons[k].localId
<1>1. /\ ~cons[k].closed /\ cons' = [cons EXCEPT ![k].closed = TRUE]
      /\ serverMids' = serverMids /\ closed' = closed /\ calls' = calls
      /\ mapMidTransceiver' = mapMidTransceiver /\ failed' = failed
      /\ probatorConsumerCreated' = probatorConsumerCreated
  BY DEF CloseConsumer, StopReceiving
<1>2. /\ Offering(sdp, mapMidTransceiver, failed, calls) /\ Whole(sdp)
      /\ Served(sdp, mapMidTransceiver, cons)
      /\ Needed(sdp, cons, Failed(failed) \cup {ProbatorMid}) /\ cons \in Seq(Consumers)
  BY Unfolded
<1>3. /\ cons' \in Seq(Consumers) /\ DOMAIN cons' = DOMAIN cons
      /\ \A j \in DOMAIN cons : cons'[j].localId = cons[j].localId
      /\ \A j \in DOMAIN cons : j # k => cons'[j] = cons[j]
      /\ cons'[k].closed = TRUE
  <2> DEFINE c == [cons[k] EXCEPT !.closed = TRUE]
  <2>1. cons[k] \in Consumers
    BY <1>2
  <2>2. c \in Consumers /\ c.closed = TRUE /\ c.localId = cons[k].localId
    BY <2>1 DEF Consumers
  <2>3. cons' = [cons EXCEPT ![k] = c]
    BY <1>1
  <2> HIDE DEF c
  <2>4. k \in 1 .. Len(cons)
    BY <1>2
  <2>5. cons' \in Seq(Consumers) /\ Len(cons') = Len(cons)
    BY <1>2, <2>2, <2>3, <2>4, ExceptSeq
  <2> QED
    BY <1>2, <2>2, <2>3, <2>5
<1>4. HandlerInv(Handler, cons, calls)'
  <2>1. CASE closed
    <3>1. sdp' = sdp
      BY <2>1 DEF CloseConsumer
    <3>2. Offering(sdp, mapMidTransceiver, failed, calls)'
      BY <1>1, <1>2, <3>1 DEF Offering
    <3>3. Served(sdp, mapMidTransceiver, cons)'
      BY <1>1, <1>2, <1>3, <3>1 DEF Served, Receiving
    <3>4. Needed(sdp, cons, Failed(failed) \cup {ProbatorMid})'
      BY <1>1, <2>1 DEF Needed
    <3> QED
      BY <3>2, <3>3, <3>4, Folded
  <2>2. CASE ~closed
    <3> DEFINE idx == sdp.midToIndex[mid]
    <3>1. mid \in mapMidTransceiver /\ mid \in DOMAIN sdp.midToIndex
      BY <1>2 DEF Served, Offering
    <3>2. sdp' = CloseMediaSection(sdp, mid)
      BY <2>2, <3>1 DEF CloseConsumer, StopReceiving
    <3> HIDE DEF mid
    <3>3. Shut(sdp, mid, sdp')
      BY <1>2, <3>1, <3>2, CloseWhole
    <3>4. /\ Whole(sdp') /\ idx \in DOMAIN sdp.sections /\ sdp.sections[idx].mid = mid
          /\ DOMAIN sdp'.sections = DOMAIN sdp.sections /\ sdp'.offers = sdp.offers
          /\ sdp'.sections[idx].state \in {"disabled", "closed"}
          /\ \A i \in DOMAIN sdp.sections : i # idx => sdp'.sections[i] = sdp.sections[i]
          /\ \A i \in DOMAIN sdp.sections : sdp'.sections[i].mid = sdp.sections[i].mid
          /\ DOMAIN sdp'.midToIndex = DOMAIN sdp.midToIndex
          /\ \A m \in DOMAIN sdp.midToIndex : sdp'.midToIndex[m] = sdp.midToIndex[m]
      BY <3>3 DEF Shut
    <3> HIDE DEF idx
    <3>5. Mids(sdp') = Mids(sdp)
      BY <3>4 DEF Mids
    <3>6. Offering(sdp, mapMidTransceiver, failed, calls)'
      BY <1>1, <1>2, <3>4, <3>5 DEF Offering
    <3>7. ASSUME NEW j \in DOMAIN cons, ~cons'[j].closed
          PROVE  Receiving(sdp', cons'[j].localId)
      <4> DEFINE m == cons[j].localId
      <4>1. j # k /\ ~cons[j].closed /\ m # mid
        BY <1>2, <1>3, <3>7 DEF Served, mid
      <4>2. /\ m \in DOMAIN sdp.midToIndex /\ sdp.midToIndex[m] \in DOMAIN sdp.sections
            /\ sdp.sections[sdp.midToIndex[m]].mid = m
        BY <1>2 DEF Served, Offering, Whole, IndexSound
      <4>3. sdp.midToIndex[m] # idx /\ Receiving(sdp, m)
        BY <1>2, <3>4, <4>1, <4>2 DEF Served
      <4> QED
        BY <1>3, <3>4, <4>2, <4>3 DEF Receiving
    <3>8. Served(sdp, mapMidTransceiver, cons)'
      BY <1>1, <1>2, <1>3, <3>7 DEF Served
    <3>9. Needed(sdp, cons, Failed(failed) \cup {ProbatorMid})'
      <4> SUFFICES ASSUME NEW i \in DOMAIN sdp.sections, sdp'.sections[i].state = "active"
                   PROVE  \/ sdp.sections[i].mid \in Failed(failed) \cup {ProbatorMid}
                          \/ \E j \in DOMAIN cons : ~cons'[j].closed
                                                    /\ cons'[j].localId = sdp.sections[i].mid
        BY <1>1, <1>3, <3>4 DEF Needed
      <4>1. i # idx /\ sdp.sections[i].state = "active"
        BY <3>4
      <4>2. CASE sdp.sections[i].mid = mid
        BY <1>2, <3>4, <4>1, <4>2 DEF Offering
      <4>3. CASE sdp.sections[i].mid # mid
        <5>1. \/ sdp.sections[i].mid \in Failed(failed) \cup {ProbatorMid}
              \/ \E j \in DOMAIN cons : ~cons[j].closed /\ cons[j].localId = sdp.sections[i].mid
          BY <1>2, <2>2, <4>1 DEF Needed
        <5> QED
          BY <1>3, <4>3, <5>1 DEF mid
      <4> QED
        BY <4>2, <4>3
    <3> QED
      BY <3>6, <3>8, <3>9, Folded
  <2> QED
    BY <2>1, <2>2
<1> QED
  BY <1>1, <1>4 DEF IndInv

(* RestartIce() moves no section.                                           *)
LEMMA RestartIceStep ==
  ASSUME IndInv, RestartIce
  PROVE  IndInv'
<1>1. /\ serverMids' = serverMids /\ closed' = closed /\ calls' = calls /\ cons' = cons
      /\ mapMidTransceiver' = mapMidTransceiver /\ failed' = failed
      /\ probatorConsumerCreated' = probatorConsumerCreated
      /\ sdp' = UpdateIceParameters(sdp, sdp.ice + 1)
  BY DEF RestartIce
<1>2. /\ Offering(sdp, mapMidTransceiver, failed, calls) /\ Whole(sdp)
      /\ Served(sdp, mapMidTransceiver, cons)
      /\ Needed(sdp, cons, Failed(failed) \cup {ProbatorMid})
  BY Unfolded
<1>3. sdp.ice + 1 \in Nat
  BY <1>2 DEF Whole, Typed
<1>4. Restarted(sdp, sdp.ice + 1, sdp.role, sdp')
  BY <1>1, <1>2, <1>3, IceWhole
<1>5. /\ Whole(sdp') /\ DOMAIN sdp'.sections = DOMAIN sdp.sections
      /\ \A i \in DOMAIN sdp.sections : sdp'.sections[i].mid = sdp.sections[i].mid
                                        /\ sdp'.sections[i].state = sdp.sections[i].state
      /\ sdp'.offers = sdp.offers /\ sdp'.midToIndex = sdp.midToIndex
  BY <1>4 DEF Restarted
<1>6. Mids(sdp') = Mids(sdp)
  BY <1>5 DEF Mids
<1>7. Offering(sdp, mapMidTransceiver, failed, calls)'
  BY <1>1, <1>2, <1>5, <1>6 DEF Offering
<1>8. \A k \in DOMAIN cons : Receiving(sdp, cons[k].localId) => Receiving(sdp', cons[k].localId)
  <2>1. \A k \in DOMAIN cons : sdp.midToIndex[cons[k].localId] \in DOMAIN sdp.sections
    BY <1>2 DEF Served, Offering, Whole, IndexSound
  <2> QED
    BY <1>5, <2>1 DEF Receiving
<1>9. Served(sdp, mapMidTransceiver, cons)'
  BY <1>1, <1>2, <1>8 DEF Served
<1>10. Needed(sdp, cons, Failed(failed) \cup {ProbatorMid})'
  BY <1>1, <1>2, <1>5 DEF Needed
<1>11. HandlerInv(Handler, cons, calls)'
  BY <1>7, <1>9, <1>10, Folded
<1> QED
  BY <1>1, <1>11 DEF IndInv

(* RecvTransport::Close() touches the consumers only.                       *)
LEMMA CloseStep ==
  ASSUME IndInv, Close
  PROVE  IndInv'
<1>1. /\ serverMids' = serverMids /\ closed' = TRUE /\ calls' = calls /\ sdp' = sdp
      /\ mapMidTransceiver' = mapMidTransceiver /\ failed' = failed
      /\ probatorConsumerCreated' = probatorConsumerCreated
      /\ cons' = [k \in DOMAIN cons |->
                    IF k \in consumers THEN [cons[k] EXCEPT !.closed = TRUE] ELSE cons[k]]
  BY DEF Close
<1>2. /\ Offering(sdp, mapMidTransceiver, failed, calls)
      /\ Served(sdp, mapMidTransceiver, cons) /\ cons \in Seq(Consumers)
  BY Unfolded
<1>3. \A c \in Consumers : LET d == [c EXCEPT !.closed = TRUE] IN
         d \in Consumers /\ d.localId = c.localId /\ d.closed = TRUE
  BY DEF Consumers
<1>4. \A k \in DOMAIN cons : cons[k] \in Consumers
  BY <1>2
<1>5. /\ DOMAIN cons' = DOMAIN cons
      /\ \A k \in DOMAIN cons : /\ cons'[k] \in Consumers
                                /\ cons'[k].localId = cons[k].localId
                                /\ ~cons'[k].closed => ~cons[k].closed
  BY <1>1, <1>3, <1>4
<1>6. cons' \in Seq(Consumers)
  <2>1. DOMAIN cons = 1 .. Len(cons) /\ Len(cons) \in Nat
    BY <1>2
  <2>2. cons' \in [1 .. Len(cons) -> Consumers]
    BY <1>1, <1>5, <2>1
  <2> QED
    BY <2>1, <2>2, SeqDef
<1>7. Offering(sdp, mapMidTransceiver, failed, calls)'
  BY <1>1, <1>2 DEF Offering
<1>8. Served(sdp, mapMidTransceiver, cons)'
  BY <1>1, <1>2, <1>5, <1>6 DEF Served, Receiving
<1>9. Needed(sdp, cons, Failed(failed) \cup {ProbatorMid})'
  BY <1>1 DEF Needed
<1>10. HandlerInv(Handler, cons, calls)'
  BY <1>7, <1>8, <1>9, Folded
<1> QED
  BY <1>1, <1>10 DEF IndInv

(* The invariant holds at first.                                            *)
LEMMA InitInv == Init => IndInv
<1> SUFFICES ASSUME Init PROVE IndInv
  OBVIOUS
<1> DEFINE s == NewSdp(TRUE)
<1>1. /\ Whole(s) /\ s.sections = <<>> /\ s.offers = TRUE
  BY NewWhole
<1> HIDE DEF s
<1>2. /\ sdp = s /\ mapMidTransceiver = {} /\ calls = 0 /\ cons = <<>> /\ failed = {}
      /\ closed = FALSE /\ serverMids \in BOOLEAN
  BY DEF Init, s
<1>3. DOMAIN sdp.sections = {} /\ DOMAIN cons = {} /\ Mids(sdp) = {} /\ cons \in Seq(Consumers)
  BY <1>1, <1>2 DEF Mids
<1>4. IsFiniteSet({})
  BY FS_EmptySet
<1>5. Offering(sdp, mapMidTransceiver, failed, calls)
  BY <1>1, <1>2, <1>3, <1>4 DEF Offering
<1>6. Served(sdp, mapMidTransceiver, cons)
  BY <1>3 DEF Served
<1>7. Needed(sdp, cons, Failed(failed) \cup {ProbatorMid})
  BY <1>3 DEF Needed
<1>8. HandlerInv(Handler, cons, calls)
  BY <1>5, <1>6, <1>7 DEF HandlerInv, Handler, IsHandler
<1> QED
  BY <1>2, <1>8 DEF IndInv

(* Every step of the receiving transport keeps the invariant.               *)
LEMMA NextInv == IndInv /\ [Next]_vars => IndInv'
<1> SUFFICES ASSUME IndInv, [Next]_vars PROVE IndInv'
  OBVIOUS
<1>1. CASE ConsumeFails
  BY <1>1, ConsumeFailsStep
<1>2. ASSUME NEW kind \in {"audio", "video"}, Consume(kind) PROVE IndInv'
  BY <1>2, ConsumeStep
<1>3. CASE ConsumeAndProbe
  BY <1>3, ConsumeAndProbeStep
<1>4. ASSUME NEW k \in DOMAIN cons, CloseConsumer(k) PROVE IndInv'
  BY <1>4, CloseConsumerStep
<1>5. CASE RestartIce
  BY <1>5, RestartIceStep
<1>6. CASE Close
  BY <1>6, CloseStep
<1>7. CASE UNCHANGED vars
  <2>1. /\ serverMids' = serverMids /\ closed' = closed /\ transportReady' = transportReady
        /\ sdp' = sdp /\ mapMidTransceiver' = mapMidTransceiver /\ calls' = calls
        /\ cons' = cons /\ failed' = failed
        /\ probatorConsumerCreated' = probatorConsumerCreated
    BY <1>7 DEF vars
  <2> QED
    BY <2>1 DEF IndInv, HandlerInv, Offering, Needed, Handler
<1> QED
  BY <1>1, <1>2, <1>3, <1>4, <1>5, <1>6, <1>7 DEF Next

(* The inductive invariant is an invariant.                                 *)
LEMMA Inductive == Spec => []IndInv
  BY InitInv, NextInv, PTL DEF Spec

-------------------------------------------------------------------------------
(* The router's offer over any sequence of Consume() calls, closings and    *)
(* restarts, whatever fails in between: the first section stays open and    *)
(* the SDP object is up to date.                                            *)
THEOREM SdpStaysConsistent == Spec => []SdpConsistent
<1>1. IndInv => SdpConsistent
  <2> SUFFICES ASSUME IndInv PROVE SdpConsistent
    OBVIOUS
  <2>1. Whole(sdp) /\ Written(sdp) /\ sdp.offers = TRUE
    BY Unfolded DEF Offering, Whole
  <2>2. FirstSectionOpen(sdp)
    BY <2>1, WholeFirst
  <2>3. \A i \in DOMAIN sdp.media : sdp.media[i].setup = "actpass"
    BY <2>1 DEF Written, Setup
  <2> QED
    BY <2>1, <2>2, <2>3 DEF SdpConsistent, BundleKept, SdpWritten
<1> QED
  BY <1>1, Inductive, PTL

(* midToIndex leads from an open consumer to a section of its mid that is   *)
(* active, and no two consumers have the same mid.                          *)
THEOREM ConsumersKeepSections == Spec => []OwnSection
<1>1. IndInv => OwnSection
  <2> SUFFICES ASSUME IndInv, NEW k \in DOMAIN cons, ~cons[k].closed
               PROVE  /\ cons[k].localId \in DOMAIN sdp.midToIndex
                      /\ sdp.sections[sdp.midToIndex[cons[k].localId]].mid = cons[k].localId
                      /\ sdp.sections[sdp.midToIndex[cons[k].localId]].state = "active"
                      /\ \A j \in DOMAIN cons : cons[j].localId = cons[k].localId => j = k
    BY DEF OwnSection
  <2>1. /\ Offering(sdp, mapMidTransceiver, failed, calls)
        /\ Served(sdp, mapMidTransceiver, cons)
    BY Unfolded
  <2> QED
    BY <2>1 DEF Offering, Served, Receiving, Whole, IndexSound
<1> QED
  BY <1>1, Inductive, PTL

(* Nothing is received for nobody, but where Receive() threw.               *)
THEOREM NoSectionOrphaned == Spec => []NoOrphanSection
<1>1. IndInv => NoOrphanSection
  BY Unfolded DEF Needed, NoOrphanSection, Failed
<1> QED
  BY <1>1, Inductive, PTL

(* The offer has no mid twice while nothing failed, however many consumers  *)
(* are made and closed: the PeerConnection takes it, and the next Consume() *)
(* can succeed.                                                             *)
THEOREM OfferAcceptable == Spec => []MidsDistinct
<1>1. IndInv => MidsDistinct
  <2> SUFFICES ASSUME IndInv, NEW i \in DOMAIN sdp.media, NEW j \in DOMAIN sdp.media,
                      sdp.media[i].mid = sdp.media[j].mid
               PROVE  \/ i = j
                      \/ IF serverMids THEN sdp.media[i].mid = ProbatorMid
                         ELSE \E f \in failed : f[2] = "fault"
    BY DEF MidsDistinct
  <2>1. Offering(sdp, mapMidTransceiver, failed, calls) /\ sdp.media = sdp.sections
    BY Unfolded DEF Whole, Written
  <2> QED
    BY <2>1 DEF Offering, Faulty
<1> QED
  BY <1>1, Inductive, PTL
===============================================================================
