--------------------------- MODULE RemoteSdp_proofs ---------------------------
(***************************************************************************)
(* What the operations of RemoteSdp do to the router's SDP, for any number *)
(* of sections: lemmas that SendTransport_proofs and RecvTransport_proofs  *)
(* share.  Each says which fields an operation leaves alone, and that the  *)
(* sections, the map and the SDP object stay in step.                      *)
(***************************************************************************)
EXTENDS RemoteSdp, SequenceTheorems, TLAPS

States == {"active", "disabled", "closed"}
Setups == {"actpass", "active", "passive"}
Roles == {"auto", "client", "server"}
Sections == [mid : Int \ {None}, state : States, ice : Nat, setup : Setups]

(* The record that RemoteSdp is. *)
Shape(s) ==
  s = [sections |-> s.sections, midToIndex |-> s.midToIndex, firstMid |-> s.firstMid,
       media |-> s.media, bundle |-> s.bundle, ice |-> s.ice, role |-> s.role,
       offers |-> s.offers]

Typed(s) ==
  /\ Shape(s)
  /\ s.sections \in Seq(Sections)
  /\ s.ice \in Nat /\ s.role \in Roles

(* A mid in the map leads to a section of that mid. *)
IndexSound(s) ==
  \A m \in DOMAIN s.midToIndex :
     s.midToIndex[m] \in DOMAIN s.sections /\ s.sections[s.midToIndex[m]].mid = m

(* The first section is there and open. *)
FirstOpen(s) ==
  IF s.sections = <<>> THEN s.firstMid = None
  ELSE s.sections[1].mid = s.firstMid /\ s.sections[1].state # "closed"

Whole(s) == Typed(s) /\ IndexSound(s) /\ FirstOpen(s) /\ Written(s)

Mids(s) == {s.sections[i].mid : i \in DOMAIN s.sections}
-------------------------------------------------------------------------------
(* The setup attribute of a section is one of the three.                    *)
LEMMA SetupTyped ==
  ASSUME NEW s, NEW role
  PROVE  Setup(s, role) \in Setups
  BY DEF Setup, Setups

(* A SDP that is whole keeps its first section in the BUNDLE group.         *)
LEMMA WholeFirst ==
  ASSUME NEW s, Whole(s)
  PROVE  FirstSectionOpen(s)
<1>1. CASE s.sections = <<>>
  BY <1>1 DEF FirstSectionOpen
<1>2. CASE s.sections # <<>>
  <2>1. 1 \in DOMAIN s.sections
    BY <1>2 DEF Whole, Typed
  <2>2. s.sections[1].mid = s.firstMid /\ s.sections[1].state # "closed"
    BY <1>2 DEF Whole, FirstOpen
  <2>3. s.sections[1].mid \in OpenMids(s.sections)
    BY <2>1, <2>2 DEF OpenMids
  <2> QED
    BY <2>2, <2>3 DEF FirstSectionOpen, Whole, Written
<1> QED
  BY <1>1, <1>2

(* The section that a mid is looked up in.                                  *)
LEMMA ExactSound ==
  ASSUME NEW s, IndexExact(s)
  PROVE  IndexSound(s) /\ \A i \in DOMAIN s.sections : IndexOf(s, s.sections[i].mid) = i
  BY DEF IndexExact, IndexSound, IndexOf

(* No two sections have the same mid exactly when the map can invert them.  *)
LEMMA ExactDistinct ==
  ASSUME NEW s, IndexExact(s)
  PROVE  \A i, j \in DOMAIN s.sections : s.sections[i].mid = s.sections[j].mid => i = j
  BY DEF IndexExact

-------------------------------------------------------------------------------
(* The map inverts the sections if each leads to the other.                 *)
LEMMA ExactFrom ==
  ASSUME NEW s,
         \A i \in DOMAIN s.sections : s.sections[i].mid \in DOMAIN s.midToIndex
                                      /\ s.midToIndex[s.sections[i].mid] = i,
         \A m \in DOMAIN s.midToIndex : \E i \in DOMAIN s.sections : s.sections[i].mid = m
  PROVE  IndexExact(s)
  BY DEF IndexExact

(* The fields of an SDP with a section added.                               *)
LEMMA AddFields ==
  ASSUME NEW s, Typed(s), s.media = s.sections, NEW mid \in Int \ {None},
         NEW t, t = AddMediaSection(s, mid)
  PROVE  /\ Typed(t)
         /\ t.sections = Append(s.sections, NewSection(s, mid))
         /\ t.media = t.sections
         /\ t.midToIndex = Store(s.midToIndex, mid, Len(s.sections) + 1)
         /\ t.firstMid = (IF s.firstMid = None THEN mid ELSE s.firstMid)
         /\ t.bundle = OpenMids(t.sections)
         /\ t.ice = s.ice /\ t.role = s.role /\ t.offers = s.offers
<1> DEFINE new == NewSection(s, mid)
<1>1. t = [sections |-> Append(s.sections, new),
           midToIndex |-> Store(s.midToIndex, mid, Len(s.sections) + 1),
           firstMid |-> IF s.firstMid = None THEN mid ELSE s.firstMid,
           media |-> Append(s.media, new), bundle |-> OpenMids(Append(s.sections, new)),
           ice |-> s.ice, role |-> s.role, offers |-> s.offers]
  BY DEF AddMediaSection, RegenerateBundleMids, Typed, Shape
<1>2. new \in Sections
  BY SetupTyped DEF NewSection, Sections, Typed, States
<1>3. Append(s.sections, new) \in Seq(Sections)
  BY <1>2, AppendProperties DEF Typed
<1> HIDE DEF new
<1> QED
  BY <1>1, <1>3 DEF Typed, Shape, new

(* t is s with a section for mid at the end. *)
Grown(s, mid, t) ==
  /\ Whole(t)
  /\ t.sections = Append(s.sections, NewSection(s, mid))
  /\ DOMAIN t.midToIndex = DOMAIN s.midToIndex \cup {mid}
  /\ t.midToIndex[mid] = Len(s.sections) + 1
  /\ \A m \in DOMAIN s.midToIndex : m # mid => t.midToIndex[m] = s.midToIndex[m]
  /\ t.ice = s.ice /\ t.role = s.role /\ t.offers = s.offers
  /\ IndexExact(s) /\ mid \notin Mids(s) => IndexExact(t)

(* A section that is added goes to the end and into the map.                *)
LEMMA AddWhole ==
  ASSUME NEW s, Whole(s), NEW mid \in Int \ {None},
         NEW t, t = AddMediaSection(s, mid)
  PROVE  Grown(s, mid, t)
<1> DEFINE n == Len(s.sections)
           new == NewSection(s, mid)
<1>1. /\ Typed(t)
      /\ t.sections = Append(s.sections, new)
      /\ t.media = t.sections
      /\ t.midToIndex = Store(s.midToIndex, mid, n + 1)
      /\ t.firstMid = (IF s.firstMid = None THEN mid ELSE s.firstMid)
      /\ t.bundle = OpenMids(t.sections)
      /\ t.ice = s.ice /\ t.role = s.role /\ t.offers = s.offers
  BY AddFields DEF Whole, Written
<1>2. new.mid = mid /\ new.state = "active" /\ new.ice = s.ice /\ new.setup = Setup(s, s.role)
  BY DEF NewSection
<1>3. s.sections \in Seq(Sections) /\ new \in Sections
  BY SetupTyped DEF Whole, Typed, NewSection, Sections, States
<1> HIDE DEF new
<1>4. /\ n \in Nat /\ DOMAIN s.sections = 1 .. n /\ DOMAIN t.sections = 1 .. n + 1
      /\ \A i \in 1 .. n : t.sections[i] = s.sections[i]
      /\ t.sections[n + 1] = new
  BY <1>1, <1>3, AppendProperties
<1>5. /\ DOMAIN t.midToIndex = DOMAIN s.midToIndex \cup {mid}
      /\ t.midToIndex[mid] = n + 1
      /\ \A m \in DOMAIN s.midToIndex : m # mid => t.midToIndex[m] = s.midToIndex[m]
  BY <1>1 DEF Store
<1> HIDE DEF n
<1>6. \A i \in 1 .. n : i \in 1 .. n + 1
  BY <1>4
<1>7. n + 1 \in 1 .. n + 1 /\ \A i \in 1 .. n + 1 : i \in 1 .. n \/ i = n + 1
  BY <1>4
<1>8. IndexSound(t)
  <2> SUFFICES ASSUME NEW m \in DOMAIN t.midToIndex
               PROVE  t.midToIndex[m] \in 1 .. n + 1 /\ t.sections[t.midToIndex[m]].mid = m
    BY <1>4 DEF IndexSound
  <2>1. CASE m = mid
    BY <2>1, <1>2, <1>4, <1>5, <1>7
  <2>2. CASE m # mid
    BY <2>2, <1>4, <1>5, <1>6 DEF Whole, IndexSound
  <2> QED
    BY <2>1, <2>2
<1>9. FirstOpen(t)
  <2>1. t.sections # <<>>
    BY <1>1, <1>3, AppendProperties
  <2>2. CASE s.sections = <<>>
    <3>1. n = 0 /\ s.firstMid = None
      BY <2>2 DEF n, Whole, FirstOpen
    <3> QED
      BY <1>1, <1>2, <1>4, <2>1, <3>1 DEF FirstOpen
  <2>3. CASE s.sections # <<>>
    <3>1. 1 \in 1 .. n
      BY <1>3, <2>3 DEF n
    <3>2. s.sections[1] \in Sections
      BY <1>3, <1>4, <3>1
    <3>3. s.firstMid # None /\ s.sections[1].mid = s.firstMid /\ s.sections[1].state # "closed"
      BY <2>3, <3>2 DEF Whole, FirstOpen, Sections
    <3> QED
      BY <1>1, <1>4, <2>1, <3>1, <3>3 DEF FirstOpen
  <2> QED
    BY <2>2, <2>3
<1>10. Written(t)
  <2>1. Setup(t, t.role) = Setup(s, s.role)
    BY <1>1 DEF Setup
  <2>2. \A i \in 1 .. n : s.sections[i].ice = s.ice /\ s.sections[i].setup = Setup(s, s.role)
    BY <1>4 DEF Whole, Written
  <2>3. \A i \in 1 .. n + 1 : t.sections[i].ice = t.ice /\ t.sections[i].setup = Setup(t, t.role)
    BY <1>1, <1>2, <1>4, <1>7, <2>1, <2>2
  <2> QED
    BY <1>1, <1>4, <2>3 DEF Written
<1>11. ASSUME IndexExact(s), mid \notin Mids(s) PROVE IndexExact(t)
  <2>1. \A i \in 1 .. n : s.sections[i].mid # mid /\ s.sections[i].mid \in DOMAIN s.midToIndex
    BY <1>4, <1>11 DEF Mids, IndexExact
  <2>2. \A i \in 1 .. n + 1 : t.sections[i].mid \in DOMAIN t.midToIndex
                               /\ t.midToIndex[t.sections[i].mid] = i
    BY <1>2, <1>4, <1>5, <1>7, <1>11, <2>1 DEF IndexExact
  <2>3. \A m \in DOMAIN t.midToIndex : \E i \in 1 .. n + 1 : t.sections[i].mid = m
    BY <1>4, <1>8 DEF IndexSound
  <2>4. DOMAIN t.midToIndex = {t.sections[i].mid : i \in 1 .. n + 1}
    BY <2>2, <2>3
  <2> QED
    BY <1>4, <2>2, <2>4 DEF IndexExact
<1> QED
  BY <1>1, <1>5, <1>8, <1>9, <1>10, <1>11 DEF Whole, n, new, Grown

(* What ReplaceMediaSection() and CloseMediaSection() do: section x is      *)
(* written at idx, and the map becomes f.                                   *)
Put(s, idx, x, f) ==
  RegenerateBundleMids([s EXCEPT !.sections[idx] = x, !.midToIndex = f, !.media[idx] = x])

(* What t = Put(s, idx, x, f) differs in from s. *)
Putting(s, idx, x, f, t) ==
  /\ Typed(t)
  /\ t.sections = [s.sections EXCEPT ![idx] = x]
  /\ t.media = t.sections /\ t.midToIndex = f /\ t.firstMid = s.firstMid
  /\ t.bundle = OpenMids(t.sections)
  /\ t.ice = s.ice /\ t.role = s.role /\ t.offers = s.offers
  /\ DOMAIN t.sections = DOMAIN s.sections /\ Len(t.sections) = Len(s.sections)
  /\ t.sections[idx] = x
  /\ \A i \in DOMAIN s.sections : i # idx => t.sections[i] = s.sections[i]

(* Fields of an SDP in which the section at idx is replaced by x and the    *)
(* map by f.                                                                *)
LEMMA ReplaceFields ==
  ASSUME NEW s, Typed(s), s.media = s.sections, NEW idx \in DOMAIN s.sections,
         NEW x \in Sections, NEW f,
         NEW t, t = Put(s, idx, x, f)
  PROVE  Putting(s, idx, x, f, t)
<1> DEFINE new == [s.sections EXCEPT ![idx] = x]
<1>1. t = [sections |-> new, midToIndex |-> f, firstMid |-> s.firstMid,
           media |-> new, bundle |-> OpenMids(new),
           ice |-> s.ice, role |-> s.role, offers |-> s.offers]
  BY DEF Put, RegenerateBundleMids, Typed, Shape
<1>2. new \in Seq(Sections) /\ Len(new) = Len(s.sections) /\ DOMAIN new = DOMAIN s.sections
  BY ExceptSeq DEF Typed
<1>3. new[idx] = x /\ \A i \in DOMAIN s.sections : i # idx => new[i] = s.sections[i]
  OBVIOUS
<1> HIDE DEF new
<1>4. /\ t.sections = new /\ t.media = new /\ t.midToIndex = f /\ t.firstMid = s.firstMid
      /\ t.bundle = OpenMids(new)
      /\ t.ice = s.ice /\ t.role = s.role /\ t.offers = s.offers
  BY <1>1
<1>5. Shape(t)
  BY <1>1, <1>4 DEF Shape
<1>6. Typed(t)
  BY <1>2, <1>4, <1>5 DEF Typed
<1>7. t.sections = [s.sections EXCEPT ![idx] = x]
  BY <1>4 DEF new
<1> QED
  BY <1>2, <1>3, <1>4, <1>6, <1>7 DEF Putting

(* Replacing a section by one with the current parameters, first or not.    *)
LEMMA ReplaceWritten ==
  ASSUME NEW s, Whole(s), NEW idx \in DOMAIN s.sections, NEW x \in Sections, NEW f,
         x.ice = s.ice, x.setup = Setup(s, s.role),
         idx = 1 => x.mid = s.firstMid /\ x.state # "closed",
         NEW t, t = Put(s, idx, x, f)
  PROVE  Typed(t) /\ FirstOpen(t) /\ Written(t)
<1>1. /\ Typed(t)
      /\ t.media = t.sections /\ t.firstMid = s.firstMid
      /\ t.bundle = OpenMids(t.sections)
      /\ t.ice = s.ice /\ t.role = s.role /\ t.offers = s.offers
      /\ DOMAIN t.sections = DOMAIN s.sections
      /\ t.sections[idx] = x
      /\ \A i \in DOMAIN s.sections : i # idx => t.sections[i] = s.sections[i]
  <2>1. Typed(s) /\ s.media = s.sections
    BY DEF Whole, Written
  <2>2. Putting(s, idx, x, f, t)
    BY <2>1, ReplaceFields
  <2> QED
    BY <2>2 DEF Putting
<1>2. 1 \in DOMAIN s.sections /\ s.sections # <<>> /\ t.sections # <<>>
  BY <1>1 DEF Whole, Typed
<1>3. FirstOpen(t)
  BY <1>1, <1>2 DEF FirstOpen, Whole
<1>4. Setup(t, t.role) = Setup(s, s.role)
  BY <1>1 DEF Setup
<1>5. \A i \in DOMAIN t.sections : t.sections[i].ice = t.ice /\ t.sections[i].setup = Setup(t, t.role)
  BY <1>1, <1>4 DEF Whole, Written
<1> QED
  BY <1>1, <1>3, <1>5 DEF Written

(* t is s with the section at idx given to mid. *)
Reused(s, idx, mid, t) ==
  /\ Whole(t) /\ IndexExact(t)
  /\ t.sections = [s.sections EXCEPT ![idx] = NewSection(s, mid)]
  /\ DOMAIN t.sections = DOMAIN s.sections /\ Len(t.sections) = Len(s.sections)
  /\ t.sections[idx] = NewSection(s, mid)
  /\ \A i \in DOMAIN s.sections : i # idx => t.sections[i] = s.sections[i]
  /\ t.ice = s.ice /\ t.role = s.role /\ t.offers = s.offers

(* A closed section is given to a new mid, which then is in the map and the *)
(* old one is not.                                                          *)
LEMMA ReplaceWhole ==
  ASSUME NEW s, Whole(s), IndexExact(s), NEW idx \in DOMAIN s.sections, idx # 1,
         NEW mid \in Int \ {None},
         \A j \in DOMAIN s.sections : j # idx => s.sections[j].mid # mid,
         NEW t, t = ReplaceMediaSection(s, mid, s.sections[idx].mid)
  PROVE  Reused(s, idx, mid, t)
<1> DEFINE x == NewSection(s, mid)
           old == s.sections[idx].mid
           f == Store([m \in DOMAIN s.midToIndex \ {old} |-> s.midToIndex[m]], mid, idx)
<1>1. IndexOf(s, old) = idx
  BY ExactSound
<1>2. t = Put(s, idx, x, f)
  BY <1>1 DEF ReplaceMediaSection, Put, Whole, Typed, Shape
<1>3. x \in Sections /\ x.mid = mid /\ x.ice = s.ice /\ x.setup = Setup(s, s.role)
  BY SetupTyped DEF Whole, Typed, NewSection, Sections, States
<1> HIDE DEF x, f
<1>4. /\ t.midToIndex = f
      /\ t.sections = [s.sections EXCEPT ![idx] = x]
      /\ t.ice = s.ice /\ t.role = s.role /\ t.offers = s.offers
      /\ DOMAIN t.sections = DOMAIN s.sections /\ Len(t.sections) = Len(s.sections)
      /\ t.sections[idx] = x
      /\ \A i \in DOMAIN s.sections : i # idx => t.sections[i] = s.sections[i]
  <2>1. Typed(s) /\ s.media = s.sections
    BY DEF Whole, Written
  <2>2. Putting(s, idx, x, f, t)
    BY <1>2, <1>3, <2>1, ReplaceFields
  <2> QED
    BY <2>2 DEF Putting
<1>5. Typed(t) /\ FirstOpen(t) /\ Written(t)
  BY <1>2, <1>3, ReplaceWritten
<1>6. /\ DOMAIN f = (DOMAIN s.midToIndex \ {old}) \cup {mid}
      /\ f[mid] = idx
      /\ \A m \in DOMAIN s.midToIndex \ {old} : m # mid => f[m] = s.midToIndex[m]
  BY DEF Store, f
<1>7. \A i \in DOMAIN s.sections : i # idx =>
         /\ s.sections[i].mid # old /\ s.sections[i].mid # mid
         /\ s.sections[i].mid \in DOMAIN s.midToIndex
         /\ s.midToIndex[s.sections[i].mid] = i
  BY ExactDistinct DEF IndexExact
<1>8. \A i \in DOMAIN t.sections : t.sections[i].mid \in DOMAIN t.midToIndex
                                   /\ t.midToIndex[t.sections[i].mid] = i
  BY <1>3, <1>4, <1>6, <1>7
<1>9. \A m \in DOMAIN s.midToIndex : \E i \in DOMAIN s.sections : s.sections[i].mid = m
  BY DEF IndexExact
<1>10. \A m \in DOMAIN t.midToIndex : \E i \in DOMAIN t.sections : t.sections[i].mid = m
  BY <1>3, <1>4, <1>6, <1>9
<1>11. IndexExact(t)
  BY <1>8, <1>10, ExactFrom
<1> QED
  BY <1>4, <1>5, <1>11, ExactSound DEF Whole, x, Reused

(* t is s with the section of mid closed, or disabled if it is the first. *)
Shut(s, mid, t) ==
  LET idx == s.midToIndex[mid] IN
  /\ Whole(t)
  /\ idx \in DOMAIN s.sections /\ s.sections[idx].mid = mid
  /\ DOMAIN t.sections = DOMAIN s.sections /\ Len(t.sections) = Len(s.sections)
  /\ t.sections[idx].mid = mid /\ t.sections[idx].state \in {"disabled", "closed"}
  /\ s.sections[idx].state = "closed" => t.sections[idx].state = "closed"
  /\ \A i \in DOMAIN s.sections : i # idx => t.sections[i] = s.sections[i]
  /\ \A i \in DOMAIN s.sections : t.sections[i].mid = s.sections[i].mid
  /\ t.ice = s.ice /\ t.role = s.role /\ t.offers = s.offers
  /\ DOMAIN t.midToIndex = DOMAIN s.midToIndex
  /\ \A m \in DOMAIN s.midToIndex : t.midToIndex[m] = s.midToIndex[m]
  /\ IndexExact(s) => IndexExact(t)

(* Closing a section leaves the map as it is, and the first one open.       *)
LEMMA CloseWhole ==
  ASSUME NEW s, Whole(s), NEW mid \in DOMAIN s.midToIndex,
         NEW t, t = CloseMediaSection(s, mid)
  PROVE  Shut(s, mid, t)
<1> DEFINE idx == s.midToIndex[mid]
           old == s.sections[idx]
           x == [old EXCEPT !.state = IF mid = s.firstMid
                                      THEN IF old.state = "closed" THEN "closed" ELSE "disabled"
                                      ELSE "closed"]
           f == Store(s.midToIndex, mid, idx)
<1>1. idx \in DOMAIN s.sections /\ old.mid = mid
  BY DEF Whole, IndexSound
<1>2. old \in Sections
  BY <1>1 DEF Whole, Typed
<1>3. /\ x \in Sections /\ x.mid = mid /\ x.ice = old.ice /\ x.setup = old.setup
      /\ x.state \in {"disabled", "closed"}
      /\ old.state = "closed" => x.state = "closed"
      /\ mid = s.firstMid /\ old.state # "closed" => x.state # "closed"
  BY <1>1, <1>2 DEF Sections, States
<1>4. IndexOf(s, mid) = idx
  BY DEF IndexOf
<1>5. t = Put(s, idx, x, f)
  BY <1>4 DEF CloseMediaSection, Put, Whole, Typed, Shape
<1>6. old.ice = s.ice /\ old.setup = Setup(s, s.role)
  BY <1>1 DEF Whole, Written
<1>7. idx = 1 => mid = s.firstMid /\ old.state # "closed"
  <2>1. s.sections # <<>>
    BY <1>1 DEF Whole, Typed
  <2> QED
    BY <1>1, <2>1 DEF Whole, FirstOpen
<1>8. DOMAIN f = DOMAIN s.midToIndex /\ \A m \in DOMAIN s.midToIndex : f[m] = s.midToIndex[m]
  BY DEF Store
<1> HIDE DEF x, f, idx, old
<1>9. /\ t.midToIndex = f
      /\ t.ice = s.ice /\ t.role = s.role /\ t.offers = s.offers
      /\ DOMAIN t.sections = DOMAIN s.sections /\ Len(t.sections) = Len(s.sections)
      /\ t.sections[idx] = x
      /\ \A i \in DOMAIN s.sections : i # idx => t.sections[i] = s.sections[i]
  <2>1. Typed(s) /\ s.media = s.sections
    BY DEF Whole, Written
  <2>2. Putting(s, idx, x, f, t)
    BY <1>1, <1>3, <1>5, <2>1, ReplaceFields
  <2> QED
    BY <2>2 DEF Putting
<1>10. Typed(t) /\ FirstOpen(t) /\ Written(t)
  BY <1>1, <1>3, <1>5, <1>6, <1>7, ReplaceWritten
<1>11. \A i \in DOMAIN s.sections : t.sections[i].mid = s.sections[i].mid
  BY <1>1, <1>3, <1>9 DEF old
<1>12. IndexSound(t)
  <2>1. IndexSound(s)
    BY DEF Whole
  <2> QED
    BY <1>8, <1>9, <1>11, <2>1 DEF IndexSound
<1>13. IndexExact(s) => IndexExact(t)
  BY <1>8, <1>9, <1>11, SMTT(20) DEF IndexExact
<1> QED
  BY <1>1, <1>3, <1>8, <1>9, <1>10, <1>11, <1>12, <1>13 DEF Whole, idx, old, Shut

(* What UpdateIceParameters() and UpdateDtlsRole() do. *)
Renew(s, ice, role, new) ==
  [s EXCEPT !.ice = ice, !.role = role, !.sections = new, !.media = new]

Renewed(s, ice, role, new, t) ==
  /\ Whole(t) /\ t.sections = new /\ Len(new) = Len(s.sections)
  /\ t.ice = ice /\ t.role = role /\ t.offers = s.offers
  /\ t.midToIndex = s.midToIndex
  /\ IndexExact(s) => IndexExact(t)

(* Fields of an SDP whose sections get new parameters.                      *)
LEMMA UpdateWhole ==
  ASSUME NEW s, Whole(s), NEW ice \in Nat, NEW role \in Roles,
         NEW new \in Seq(Sections), DOMAIN new = DOMAIN s.sections,
         \A i \in DOMAIN s.sections :
            /\ new[i].mid = s.sections[i].mid /\ new[i].state = s.sections[i].state
            /\ new[i].ice = ice /\ new[i].setup = Setup(s, role),
         NEW t, t = Renew(s, ice, role, new)
  PROVE  Renewed(s, ice, role, new, t)
<1>1. t = [sections |-> new, midToIndex |-> s.midToIndex, firstMid |-> s.firstMid,
           media |-> new, bundle |-> s.bundle, ice |-> ice, role |-> role, offers |-> s.offers]
  BY DEF Renew, Whole, Typed, Shape
<1>2. Typed(t)
  BY <1>1 DEF Typed, Shape
<1>3. IndexSound(t)
  BY <1>1 DEF Whole, IndexSound
<1>4. new = <<>> <=> s.sections = <<>>
  BY DEF Whole, Typed
<1>5. FirstOpen(t)
  <2>1. CASE s.sections = <<>>
    BY <1>1, <1>4, <2>1 DEF Whole, FirstOpen
  <2>2. CASE s.sections # <<>>
    <3>1. 1 \in DOMAIN s.sections
      BY <2>2 DEF Whole, Typed
    <3> QED
      BY <1>1, <1>4, <2>2, <3>1 DEF Whole, FirstOpen
  <2> QED
    BY <2>1, <2>2
<1>6. OpenMids(new) = OpenMids(s.sections)
  BY DEF OpenMids
<1>7. Setup(t, t.role) = Setup(s, role)
  BY <1>1 DEF Setup
<1>8. Written(t)
  BY <1>1, <1>6, <1>7 DEF Whole, Written
<1>9. Len(new) = Len(s.sections)
  BY DEF Whole, Typed
<1>10. IndexExact(s) => IndexExact(t)
  BY <1>1 DEF IndexExact
<1> QED
  BY <1>1, <1>2, <1>3, <1>5, <1>8, <1>9, <1>10 DEF Whole, Renewed

(* t is s with these parameters in every section. *)
Restarted(s, ice, role, t) ==
  /\ Whole(t) /\ DOMAIN t.sections = DOMAIN s.sections
  /\ Len(t.sections) = Len(s.sections)
  /\ \A i \in DOMAIN s.sections : t.sections[i].mid = s.sections[i].mid
                                  /\ t.sections[i].state = s.sections[i].state
  /\ t.ice = ice /\ t.role = role /\ t.offers = s.offers
  /\ t.midToIndex = s.midToIndex
  /\ IndexExact(s) => IndexExact(t)

(* UpdateIceParameters() renews every section and the SDP object.           *)
LEMMA IceWhole ==
  ASSUME NEW s, Whole(s), NEW ice \in Nat, NEW t, t = UpdateIceParameters(s, ice)
  PROVE  Restarted(s, ice, s.role, t)
<1> DEFINE new == [i \in DOMAIN s.sections |-> [s.sections[i] EXCEPT !.ice = ice]]
           n == Len(s.sections)
<1>1. s.sections \in Seq(Sections) /\ DOMAIN s.sections = 1 .. n /\ n \in Nat
  BY DEF Whole, Typed
<1>2. \A c \in Sections : /\ [c EXCEPT !.ice = ice] \in Sections
                          /\ [c EXCEPT !.ice = ice].mid = c.mid
                          /\ [c EXCEPT !.ice = ice].state = c.state
                          /\ [c EXCEPT !.ice = ice].setup = c.setup
                          /\ [c EXCEPT !.ice = ice].ice = ice
  BY DEF Sections
<1>3. new \in Seq(Sections) /\ DOMAIN new = DOMAIN s.sections
  <2>1. new \in [1 .. n -> Sections]
    BY <1>1, <1>2
  <2> QED
    BY <1>1, <2>1, SeqDef
<1>4. \A i \in DOMAIN s.sections :
         /\ new[i].mid = s.sections[i].mid /\ new[i].state = s.sections[i].state
         /\ new[i].ice = ice /\ new[i].setup = Setup(s, s.role)
  BY <1>1, <1>2 DEF Whole, Written
<1>5. t = Renew(s, ice, s.role, new)
  BY DEF UpdateIceParameters, Renew, Whole, Typed, Shape
<1>6. s.role \in Roles
  BY DEF Whole, Typed
<1> HIDE DEF new
<1>7. Renewed(s, ice, s.role, new, t)
  BY <1>3, <1>4, <1>5, <1>6, UpdateWhole
<1> QED
  BY <1>3, <1>4, <1>7 DEF Renewed, Restarted

(* UpdateDtlsRole() renews the setup attribute of every section.            *)
LEMMA RoleWhole ==
  ASSUME NEW s, Whole(s), NEW role \in Roles, NEW t, t = UpdateDtlsRole(s, role)
  PROVE  Restarted(s, s.ice, role, t)
<1> DEFINE new == [i \in DOMAIN s.sections |-> [s.sections[i] EXCEPT !.setup = Setup(s, role)]]
           n == Len(s.sections)
<1>1. s.sections \in Seq(Sections) /\ DOMAIN s.sections = 1 .. n /\ n \in Nat
  BY DEF Whole, Typed
<1>2. \A c \in Sections, u \in Setups :
         /\ [c EXCEPT !.setup = u] \in Sections
         /\ [c EXCEPT !.setup = u].mid = c.mid
         /\ [c EXCEPT !.setup = u].state = c.state
         /\ [c EXCEPT !.setup = u].ice = c.ice
         /\ [c EXCEPT !.setup = u].setup = u
  BY DEF Sections
<1>3. new \in Seq(Sections) /\ DOMAIN new = DOMAIN s.sections
  <2>1. new \in [1 .. n -> Sections]
    <3>1. Setup(s, role) \in Setups
      BY SetupTyped
    <3>2. \A i \in 1 .. n : [s.sections[i] EXCEPT !.setup = Setup(s, role)] \in Sections
      BY <1>1, <1>2, <3>1
    <3> QED
      BY <1>1, <3>2
  <2> QED
    BY <1>1, <2>1, SeqDef
<1>4. \A i \in DOMAIN s.sections :
         /\ new[i].mid = s.sections[i].mid /\ new[i].state = s.sections[i].state
         /\ new[i].ice = s.ice /\ new[i].setup = Setup(s, role)
  BY <1>1, <1>2, SetupTyped DEF Whole, Written
<1>5. t = Renew(s, s.ice, role, new)
  BY DEF UpdateDtlsRole, Renew, Whole, Typed, Shape
<1>6. s.ice \in Nat
  BY DEF Whole, Typed
<1> HIDE DEF new
<1>7. Renewed(s, s.ice, role, new, t)
  BY <1>3, <1>4, <1>5, <1>6, UpdateWhole
<1> QED
  BY <1>3, <1>4, <1>7 DEF Renewed, Restarted

(* A new SDP has no sections and is whole.                                  *)
LEMMA NewWhole ==
  ASSUME NEW b \in BOOLEAN
  PROVE  /\ Whole(NewSdp(b)) /\ IndexExact(NewSdp(b))
         /\ NewSdp(b).sections = <<>> /\ NewSdp(b).offers = b
         /\ NewSdp(b).ice = 0 /\ NewSdp(b).role = "auto"
         /\ DOMAIN NewSdp(b).midToIndex = {}
<1> DEFINE s == NewSdp(b)
<1>1. /\ Shape(s) /\ s.sections = <<>> /\ s.media = <<>> /\ s.firstMid = None
      /\ s.bundle = {} /\ s.ice = 0 /\ s.role = "auto" /\ s.offers = b
      /\ DOMAIN s.midToIndex = {}
  BY DEF NewSdp, Shape
<1>2. OpenMids(<<>>) = {}
  BY DEF OpenMids
<1> HIDE DEF s
<1>3. Typed(s)
  BY <1>1 DEF Typed, Roles
<1>4. IndexSound(s) /\ IndexExact(s) /\ FirstOpen(s) /\ Written(s)
  BY <1>1, <1>2 DEF IndexSound, IndexExact, FirstOpen, Written
<1> QED
  BY <1>1, <1>3, <1>4 DEF Whole, s
===============================================================================
