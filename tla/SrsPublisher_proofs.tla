-------------------------- MODULE SrsPublisher_proofs --------------------------
(***************************************************************************)
(* Proofs about SrsPublisher and the native encoder LibEnc it drives, for  *)
(* every set of even widths and heights and any number of threads.         *)
(*                                                                         *)
(* First LibEnc alone: its conversions stay inside the buffer they reuse,  *)
(* and a stream starts with its headers.  Then the publisher: whatever the *)
(* handlers of the main thread are, a step that needs the encoder threads  *)
(* gone, or the encoders open or closed, comes after the step that sees to *)
(* it, and this is kept when the steps are taken one by one.               *)
(***************************************************************************)
EXTENDS SrsPublisher, TLAPS, SequenceTheorems, FiniteSetTheorems

-------------------------------------------------------------------------------
(* LibEnc *)

(* The buffer is large enough for any picture whose luma plane fits: chroma *)
(* is a quarter of it, twice.                                               *)
Room ==
  /\ rotated.y_size % 4 = 0
  /\ Area(rotated.size) <= rotated.y_size
  /\ 3 * rotated.y_size <= 2 * rotated.bytes

(* An open encoder that has given nothing yet still owes its headers. *)
HeaderOwed == x264 # NoSize /\ es = "none" => global_nal_header

EncInv == EncTypeOK /\ Room /\ HeaderOwed
-------------------------------------------------------------------------------
(* An even length is twice its half.                                        *)
LEMMA Halves ==
  ASSUME NEW n \in Nat, n % 2 = 0
  PROVE  n \div 2 \in Nat /\ n = 2 * (n \div 2)
  OBVIOUS

(* Products grow with their factors.                                        *)
LEMMA ProductGrows ==
  ASSUME NEW a \in Nat, NEW b \in Nat, NEW c \in Nat, NEW d \in Nat, a <= c, b <= d
  PROVE  a * b \in Nat /\ c * d \in Nat /\ a * b <= c * d
<1>1. a * b <= c * b
  OBVIOUS
<1>2. c * b <= c * d
  OBVIOUS
<1>3. a * b \in Nat /\ c * b \in Nat /\ c * d \in Nat
  OBVIOUS
<1> QED
  BY <1>1, <1>2, <1>3

(* A multiple of four has a half and a quarter.                             *)
LEMMA Quarters ==
  ASSUME NEW m \in Nat
  PROVE  (4 * m) % 4 = 0 /\ (4 * m) \div 4 = m /\ (4 * m * 3) \div 2 = 6 * m
         /\ (4 * m * 4) \div 2 = 8 * m
  OBVIOUS

(* Sizes are pairs of even numbers, so areas are multiples of four.         *)
LEMMA SizeFacts ==
  ASSUME NEW s \in Sizes \cup {NoSize}
  PROVE  /\ s[1] \in Nat /\ s[2] \in Nat /\ s[1] % 2 = 0 /\ s[2] % 2 = 0
         /\ Area(s) \in Nat /\ Area(s) = 4 * ((s[1] \div 2) * (s[2] \div 2))
         /\ (s[1] \div 2) * (s[2] \div 2) \in Nat
<1>1. s[1] \in Nat /\ s[2] \in Nat /\ s[1] % 2 = 0 /\ s[2] % 2 = 0
  BY LengthsAssumption DEF Sizes, NoSize
<1> DEFINE a == s[1] \div 2
           b == s[2] \div 2
<1>2. a \in Nat /\ b \in Nat /\ s[1] = 2 * a /\ s[2] = 2 * b
  BY <1>1, Halves
<1> HIDE DEF a, b
<1>3. \A x, y \in Nat : (2 * x) * (2 * y) = 4 * (x * y) /\ x * y \in Nat
  OBVIOUS
<1>4. Area(s) = 4 * (a * b) /\ a * b \in Nat
  BY <1>2, <1>3 DEF Area
<1>5. Area(s) \in Nat
  BY <1>4
<1> QED
  BY <1>1, <1>4, <1>5 DEF a, b

(* malloc() for a source leaves room for any picture not larger than it.    *)
LEMMA AllocationFacts ==
  ASSUME NEW src \in Sizes
  PROVE  /\ Area(src) \in Nat /\ Area(src) % 4 = 0
         /\ (Area(src) * 3) \div 2 \in Nat /\ (Area(src) * 4) \div 2 \in Nat
         /\ 3 * Area(src) <= 2 * ((Area(src) * 3) \div 2)
         /\ 3 * Area(src) <= 2 * ((Area(src) * 4) \div 2)
<1> DEFINE m == (src[1] \div 2) * (src[2] \div 2)
<1>1. m \in Nat /\ Area(src) = 4 * m
  BY SizeFacts
<1> HIDE DEF m
<1>2. (4 * m) % 4 = 0 /\ (4 * m * 3) \div 2 = 6 * m /\ (4 * m * 4) \div 2 = 8 * m
  BY <1>1, Quarters
<1> QED
  BY <1>1, <1>2

(* A turn by nothing or by 180 degrees keeps the size.                      *)
LEMMA RotationKeeps ==
  ASSUME NEW s, NEW r \in Rotations
  PROVE  Turned(s, r) = s
<1>1. r % 180 = 0
  BY DEF Rotations
<1> QED
  BY <1>1 DEF Turned

(* A whole picture is converted into a buffer that holds it.                *)
LEMMA ConvertFacts ==
  ASSUME EncTypeOK, Room, NEW src \in Sizes, NEW r \in Rotations, ConvertToI420(src, r)
  PROVE  /\ rotated' \in [size : Sizes \cup {NoSize}, y_size : Nat, bytes : Nat]
         /\ Room'
<1>1. CASE rotated.size = src
  BY <1>1, RotationKeeps DEF ConvertToI420, EncTypeOK, Room
<1>2. CASE rotated.size # src
  <2>1. rotated' = [size |-> src, y_size |-> Area(src), bytes |-> (Area(src) * 4) \div 2]
    BY <1>2, RotationKeeps DEF ConvertToI420
  <2>2. /\ Area(src) \in Nat /\ Area(src) % 4 = 0 /\ (Area(src) * 4) \div 2 \in Nat
        /\ 3 * Area(src) <= 2 * ((Area(src) * 4) \div 2)
    BY AllocationFacts
  <2>3. rotated' \in [size : Sizes \cup {NoSize}, y_size : Nat, bytes : Nat]
    BY <2>1, <2>2
  <2>4. /\ rotated'.size = src /\ rotated'.y_size = Area(src)
        /\ rotated'.bytes = (Area(src) * 4) \div 2
    BY <2>1
  <2>5. Area(rotated'.size) <= rotated'.y_size
    BY <2>2, <2>4
  <2> QED
    BY <2>2, <2>3, <2>4, <2>5 DEF Room, Area
<1> QED
  BY <1>1, <1>2

(* A cropped picture is converted into a buffer that holds its source.      *)
LEMMA CropFacts ==
  ASSUME EncTypeOK, Room, NEW src \in Sizes, NEW box \in Sizes, NEW r \in Rotations,
         box[1] <= src[1], box[2] <= src[2], ConvertToI420WithCropScale(src, box, r)
  PROVE  /\ rotated' \in [size : Sizes \cup {NoSize}, y_size : Nat, bytes : Nat]
         /\ Room'
<1>1. Area(box) <= Area(src) /\ Area(box) \in Nat /\ Area(src) \in Nat
  BY SizeFacts, ProductGrows DEF Area
<1>2. rotated \in [size : Sizes \cup {NoSize}, y_size : Nat, bytes : Nat]
  BY DEF EncTypeOK
<1>3. CASE rotated.size = src
  <2>1. rotated' = [rotated EXCEPT !.size = box]
    BY <1>3, RotationKeeps DEF ConvertToI420WithCropScale
  <2>2. rotated'.size = box /\ rotated'.y_size = rotated.y_size /\ rotated'.bytes = rotated.bytes
    BY <1>2, <2>1
  <2>3. Area(box) <= rotated.y_size
    BY <1>1, <1>2, <1>3 DEF Room
  <2>4. Area(rotated'.size) <= rotated'.y_size
    BY <2>2, <2>3
  <2>5. rotated' \in [size : Sizes \cup {NoSize}, y_size : Nat, bytes : Nat]
    BY <1>2, <2>1
  <2> QED
    BY <2>2, <2>4, <2>5 DEF Room, Area
<1>4. CASE rotated.size # src
  <2>1. rotated' = [size |-> box, y_size |-> Area(src), bytes |-> (Area(src) * 3) \div 2]
    BY <1>4, RotationKeeps DEF ConvertToI420WithCropScale
  <2>2. /\ Area(src) % 4 = 0 /\ (Area(src) * 3) \div 2 \in Nat
        /\ 3 * Area(src) <= 2 * ((Area(src) * 3) \div 2)
    BY AllocationFacts
  <2>3. /\ rotated'.size = box /\ rotated'.y_size = Area(src)
        /\ rotated'.bytes = (Area(src) * 3) \div 2
    BY <2>1
  <2>4. Area(rotated'.size) <= rotated'.y_size
    BY <1>1, <2>3
  <2>5. rotated' \in [size : Sizes \cup {NoSize}, y_size : Nat, bytes : Nat]
    BY <1>1, <2>1, <2>2
  <2> QED
    BY <2>2, <2>3, <2>4, <2>5 DEF Room, Area
<1> QED
  BY <1>3, <1>4

(* Every native method keeps the types, the room and the owed headers.      *)
LEMMA EncInvStep == EncInv /\ [EncNext]_encVars => EncInv'
<1> SUFFICES ASSUME EncInv, [EncNext]_encVars PROVE EncInv'
  OBVIOUS
<1>i. EncTypeOK /\ Room /\ HeaderOwed
  BY DEF EncInv
<1>r. UNCHANGED rotated => Room'
  BY <1>i DEF Room
<1>1. ASSUME NEW s \in Sizes, Resolution(s) PROVE EncInv'
  BY <1>1, <1>i, <1>r DEF Resolution, SetEncoderResolution, EncInv, EncTypeOK, HeaderOwed
<1>2. ASSUME NEW s \in Sizes, RGBASoftEncode(s) PROVE EncInv'
  <2>1. /\ rotated' \in [size : Sizes \cup {NoSize}, y_size : Nat, bytes : Nat]
        /\ Room'
    BY <1>2, <1>i, ConvertFacts DEF RGBASoftEncode, Rotations
  <2>2. /\ global_nal_header' \in BOOLEAN /\ es' \in {"none", "header", "failed", "frame"}
        /\ HeaderOwed'
    BY <1>2, <1>i DEF RGBASoftEncode, SoftEncode, EncTypeOK, HeaderOwed
  <2> QED
    BY <1>2, <1>i, <2>1, <2>2 DEF RGBASoftEncode, EncInv, EncTypeOK
<1>3. ASSUME NEW s \in Sizes, NEW r \in Rotations, Convert(s, r) PROVE EncInv'
  <2>1. /\ rotated' \in [size : Sizes \cup {NoSize}, y_size : Nat, bytes : Nat]
        /\ Room'
    BY <1>3, <1>i, ConvertFacts DEF Convert
  <2> QED
    BY <1>3, <1>i, <2>1 DEF Convert, EncInv, EncTypeOK, HeaderOwed
<1>4. ASSUME NEW s \in Sizes, NEW r \in Rotations, NEW b \in Sizes, ConvertScaled(s, b, r)
      PROVE  EncInv'
  <2>1. /\ rotated' \in [size : Sizes \cup {NoSize}, y_size : Nat, bytes : Nat]
        /\ Room'
    BY <1>4, <1>i, CropFacts DEF ConvertScaled
  <2> QED
    BY <1>4, <1>i, <2>1 DEF ConvertScaled, EncInv, EncTypeOK, HeaderOwed
<1>5. CASE Open
  BY <1>5, <1>i, <1>r DEF Open, OpenSoftEncoder, EncInv, EncTypeOK, HeaderOwed
<1>6. CASE Close
  BY <1>6, <1>i, <1>r DEF Close, CloseSoftEncoder, EncInv, EncTypeOK, HeaderOwed
<1>7. CASE UNCHANGED encVars
  BY <1>7, <1>i, <1>r DEF encVars, EncInv, EncTypeOK, HeaderOwed
<1> QED
  BY <1>1, <1>2, <1>3, <1>4, <1>5, <1>6, <1>7 DEF EncNext

(* The three parts hold together in every sequence of calls.                *)
LEMMA EncInvAlways == EncSpec => []EncInv
<1>1. EncInit => EncInv
  <2> SUFFICES ASSUME EncInit PROVE EncInv
    OBVIOUS
  <2>1. EncTypeOK /\ HeaderOwed
    BY DEF EncInit, EncTypeOK, HeaderOwed
  <2>2. rotated.y_size = 0 /\ rotated.bytes = 0 /\ Area(rotated.size) = 0
    BY DEF EncInit, Area, NoSize
  <2> QED
    BY <2>1, <2>2 DEF EncInv, Room
<1> QED
  BY <1>1, EncInvStep, PTL DEF EncSpec

(* The static frames and the encoder keep their types under every sequence  *)
(* of native calls.                                                         *)
THEOREM EncTypeCorrect == EncSpec => []EncTypeOK
<1>1. EncInv => EncTypeOK
  BY DEF EncInv
<1> QED
  BY <1>1, EncInvAlways, PTL

(* Room for the luma plane and its quarters is room for the three planes.   *)
LEMMA RoomSuffices == EncTypeOK /\ Room => WithinBuffer
<1> SUFFICES ASSUME EncTypeOK, Room PROVE WithinBuffer
  OBVIOUS
<1> DEFINE u == (rotated.size[1] \div 2) * (rotated.size[2] \div 2)
           y == rotated.y_size
           n == rotated.bytes
<1>1. rotated.size \in Sizes \cup {NoSize} /\ y \in Nat /\ n \in Nat
  BY DEF EncTypeOK
<1>2. u \in Nat /\ Area(rotated.size) = 4 * u
  BY <1>1, SizeFacts
<1>3. y % 4 = 0 /\ Area(rotated.size) <= y /\ 3 * y <= 2 * n
  BY DEF Room
<1>4. WithinBuffer = (/\ Area(rotated.size) <= y /\ u <= y \div 4 /\ y + y \div 4 + u <= n)
  BY DEF WithinBuffer
<1> HIDE DEF u, y, n
<1>5. y \div 4 \in Nat /\ y = 4 * (y \div 4)
  BY <1>1, <1>3
<1>6. u <= y \div 4
  BY <1>1, <1>2, <1>3, <1>5
<1>7. y + y \div 4 + u <= n
  BY <1>1, <1>2, <1>3, <1>5, <1>6
<1> QED
  BY <1>3, <1>4, <1>6, <1>7

(* convert_to_i420() and convert_to_i420_with_crop_scale() reuse the buffer *)
(* of i420_rotated_frame while its size field, which is not the size it was *)
(* allocated for, equals the picture's: the planes they write fit and do    *)
(* not overlap all the same, for every order of pictures and boxes.         *)
THEOREM BufferRespected == EncSpec => []WithinBuffer
<1>1. EncInv => WithinBuffer
  BY RoomSuffices DEF EncInv
<1> QED
  BY <1>1, EncInvAlways, PTL

(* RGBASoftEncode() hands out no frame before the SPS and PPS of the        *)
(* encoder that is open, or before the one call for them failed, whichever  *)
(* other calls failed and however encoders were opened and closed.          *)
THEOREM HeadersComeFirst == EncSpec => HeaderFirst
<1>1. EncInv /\ [EncNext]_encVars
        => [es' = "frame" => es \in {"header", "failed", "frame"}]_encVars
  <2> SUFFICES ASSUME EncInv, EncNext, es' = "frame"
               PROVE  es \in {"header", "failed", "frame"}
    BY DEF encVars
  <2>1. ASSUME NEW s \in Sizes, RGBASoftEncode(s) PROVE es # "none"
    BY <2>1 DEF RGBASoftEncode, SoftEncode, EncInv, HeaderOwed
  <2>2. CASE Open
    BY <2>2 DEF Open, OpenSoftEncoder
  <2>3. CASE UNCHANGED es
    BY <2>3
  <2>4. es # "none" => es \in {"header", "failed", "frame"}
    BY DEF EncInv, EncTypeOK
  <2> QED
    BY <2>1, <2>2, <2>3, <2>4 DEF EncNext, Resolution, Convert, ConvertScaled, Close
<1> QED
  BY <1>1, EncInvAlways, PTL DEF EncSpec, HeaderFirst

-------------------------------------------------------------------------------
(* SrsPublisher: what its proofs say of the states in between *)

(* Every step of a set comes after step g of the same handler. *)
Guarded(s, S, g) ==
  \A i \in 1..Len(s) : s[i] \in S => \E j \in 1..(i - 1) : s[j] = g

Has(s, x) == \E i \in 1..Len(s) : s[i] = x

(* What the steps of the main thread need *)
NeedsNoVideo == {"start", "stop", "setScreenOrientation", "enableEncoding", "enableIfEnabled"}
NeedsNoAudio == {"start", "stop", "setScreenOrientation", "startAudio"}
NeedsOff == {"setScreenOrientation", "start"}
NeedsOn == {"enableEncoding", "startAudio"}

Openers == {"start", "enableEncoding", "enableIfEnabled", "startAudio"}

(* What all handlers have in common: no step comes twice, what stops comes  *)
(* before what starts, start() is followed by the two steps that it skips   *)
(* when it fails, and a handler that stops the encoders enables nothing     *)
(* before it starts them.                                                   *)
Plan(s) ==
  /\ s \in Seq(Steps)
  /\ \A i, j \in 1..Len(s) : i < j => s[i] # s[j]
  /\ \A i, j \in 1..Len(s) : i < j /\ s[i] \in Openers =>
       s[j] \in (IF s[i] = "enableIfEnabled" THEN {"startCamera"}
                 ELSE {"enableEncoding", "startAudio", "startCamera"})
  /\ \A i \in 1..Len(s) : s[i] = "start" =>
       i + 2 <= Len(s) /\ s[i + 1] = "enableEncoding" /\ s[i + 2] = "startAudio"
  /\ Has(s, "stop") => Guarded(s, NeedsOn, "start")

(* No thread of the kind is left, or remembered. *)
NoVideo == worker = 0 /\ \A t \in Threads : video[t] = "none"
NoAudio == aworker = 0 /\ \A t \in Threads : audio[t] = "none"

On == vencoder # NoSize
Off == vencoder = NoSize /\ aencoder = "null" /\ x264 = NoSize /\ ~canSoftEncode

(* A step that needs the threads gone, the encoders closed or the encoders  *)
(* open finds them so, or comes after the step that sees to it.             *)
Prepared ==
  /\ NoVideo \/ Guarded(todo, NeedsNoVideo, "joinVideo")
  /\ NoAudio \/ Guarded(todo, NeedsNoAudio, "joinAudio")
  /\ Off \/ Guarded(todo, NeedsOff, "stop")
  /\ On \/ Guarded(todo, NeedsOn, "start")

(* The field knows the only thread, and whoever has one has its encoder.     *)
Known ==
  /\ \A t \in Threads : video[t] # "none" => t = worker
  /\ \A t \in Threads : audio[t] # "none" => t = aworker
  /\ worker # 0 => isEnabled
  /\ aworker # 0 => aencoder = "on"
  /\ \A t \in Threads : video[t] = "soft" => useSoftEncoder
  /\ \A t \in Threads : video[t] = "hard" => ~useSoftEncoder
  /\ mic => aworker # 0

(* The encoders agree: the codecs start together, after the soft encoder if *)
(* that one is in use, and have the size of the scaled picture.             *)
Matched ==
  /\ On <=> aencoder = "on"
  /\ On => vencoder = scaled /\ (useSoftEncoder => canSoftEncode)
  /\ canSoftEncode <=> x264 # NoSize
  /\ canSoftEncode => useSoftEncoder /\ x264 = scaled

(* What the buttons say of the encoders: the publish button is back only     *)
(* once they are closed or about to be, and only then they can be exchanged. *)
Labelled ==
  /\ swEncEnabled => btnPublish = "publish"
  /\ btnPublish = "publish" => ~Has(todo, "start") /\ (Off \/ Has(todo, "stop"))

(* A pause leaves no thread, and nothing starts one before it ends. *)
Halted ==
  paused =>
    /\ NoVideo \/ Has(todo, "joinVideo")
    /\ NoAudio \/ Has(todo, "joinAudio")
    /\ ~Has(todo, "start") /\ ~Has(todo, "enableEncoding") /\ ~Has(todo, "startAudio")
    /\ Has(todo, "enableIfEnabled") => ~isEnabled

Orderly == Prepared /\ Known /\ Matched /\ Labelled /\ Halted /\ crash # "released"

IndInv == TypeOK /\ Room /\ Plan(todo) /\ (~stray => Orderly)
-------------------------------------------------------------------------------
(* The rest of a sequence is the sequence shifted by one.                   *)
LEMMA TailFacts ==
  ASSUME NEW S, NEW s \in Seq(S), s # <<>>
  PROVE  /\ Tail(s) \in Seq(S) /\ Len(s) \in Nat \ {0} /\ Len(Tail(s)) = Len(s) - 1
         /\ \A i \in 1..Len(Tail(s)) : Tail(s)[i] = s[i + 1]
         /\ Head(s) = s[1]
  OBVIOUS

(* A step leaves the guards of the others behind, unless it was the guard,  *)
(* and a guarded step is never the first.                                   *)
LEMMA GuardedTail ==
  ASSUME NEW s \in Seq(Steps), s # <<>>, NEW S, NEW g, Guarded(s, S, g)
  PROVE  /\ Head(s) \notin S
         /\ g # Head(s) => Guarded(Tail(s), S, g)
<1> USE TailFacts
<1>1. Head(s) \notin S
  BY DEF Guarded
<1>2. ASSUME g # Head(s), NEW i \in 1..Len(Tail(s)), Tail(s)[i] \in S
      PROVE  \E j \in 1..(i - 1) : Tail(s)[j] = g
  <2>1. i + 1 \in 1..Len(s) /\ s[i + 1] \in S
    BY <1>2
  <2>2. PICK j \in 1..i : s[j] = g
    BY <2>1 DEF Guarded
  <2>3. j # 1
    BY <2>2, <1>2
  <2> QED
    BY <2>2, <2>3, <1>2, SMTT(20)
<1> QED
  BY <1>1, <1>2 DEF Guarded

(* What is still to be done after a step is what was to be done, but for it. *)
LEMMA HasTail ==
  ASSUME NEW s, Plan(s), s # <<>>, NEW x
  PROVE  Has(Tail(s), x) <=> Has(s, x) /\ x # Head(s)
<1>0. s \in Seq(Steps)
  BY DEF Plan
<1>1. ASSUME Has(Tail(s), x) PROVE Has(s, x) /\ x # Head(s)
  <2>1. PICK i \in 1..Len(Tail(s)) : Tail(s)[i] = x
    BY <1>1 DEF Has
  <2>2. i + 1 \in 1..Len(s) /\ 1 \in 1..Len(s) /\ s[i + 1] = x /\ 1 < i + 1 /\ Head(s) = s[1]
    BY <1>0, <2>1, TailFacts
  <2> QED
    BY <2>2 DEF Has, Plan
<1>2. ASSUME Has(s, x), x # Head(s) PROVE Has(Tail(s), x)
  <2>1. PICK i \in 1..Len(s) : s[i] = x
    BY <1>2 DEF Has
  <2>2. i # 1
    BY <1>0, <1>2, <2>1, TailFacts
  <2>3. i - 1 \in 1..Len(Tail(s)) /\ Tail(s)[i - 1] = x
    BY <1>0, <2>1, <2>2, TailFacts
  <2> QED
    BY <2>3 DEF Has
<1> QED
  BY <1>1, <1>2

(* The rest of a handler has what all handlers have in common.              *)
LEMMA PlanTail ==
  ASSUME NEW s, Plan(s), s # <<>>
  PROVE  Plan(Tail(s))
<1>0. s \in Seq(Steps)
  BY DEF Plan
<1> DEFINE r == Tail(s)
<1>1. /\ r \in Seq(Steps) /\ Len(s) \in Nat /\ Len(r) = Len(s) - 1 /\ Len(r) \in Nat
      /\ \A i \in 1..Len(r) : r[i] = s[i + 1] /\ i + 1 \in 1..Len(s)
      /\ Head(s) = s[1] /\ 1 \in 1..Len(s)
  BY <1>0, TailFacts
<1>2. \A i, j \in 1..Len(r) : i < j => i + 1 < j + 1
  BY <1>1
<1>3. ASSUME NEW i \in 1..Len(r), r[i] = "start"
      PROVE  i + 2 <= Len(r) /\ r[i + 1] = "enableEncoding" /\ r[i + 2] = "startAudio"
  <2>1. i + 1 \in 1..Len(s) /\ s[i + 1] = "start"
    BY <1>1, <1>3
  <2>2. (i + 1) + 2 <= Len(s) /\ s[(i + 1) + 1] = "enableEncoding" /\ s[(i + 1) + 2] = "startAudio"
    BY <2>1 DEF Plan
  <2>3. i + 2 <= Len(r) /\ i + 1 \in 1..Len(r) /\ i + 2 \in 1..Len(r)
    BY <1>1, <2>2
  <2> QED
    BY <1>1, <2>2, <2>3
<1>4. ASSUME Has(r, "stop") PROVE Guarded(r, NeedsOn, "start")
  <2>1. Has(s, "stop") /\ Guarded(s, NeedsOn, "start")
    BY <1>4, HasTail DEF Plan
  <2>2. PICK j \in 1..Len(r) : r[j] = "stop"
    BY <1>4 DEF Has
  <2>3. j + 1 \in 1..Len(s) /\ s[j + 1] = "stop" /\ 1 < j + 1
    BY <1>1, <2>2
  <2>4. s[1] # "start"
    BY <1>1, <2>3 DEF Plan, Openers
  <2> QED
    BY <1>0, <1>1, <2>1, <2>4, GuardedTail
<1> HIDE DEF r
<1>5. \A i, j \in 1..Len(r) : i < j => r[i] # r[j]
  BY <1>1, <1>2 DEF Plan
<1>6. \A i, j \in 1..Len(r) : i < j /\ r[i] \in Openers =>
        r[j] \in (IF r[i] = "enableIfEnabled" THEN {"startCamera"}
                  ELSE {"enableEncoding", "startAudio", "startCamera"})
  BY <1>1, <1>2 DEF Plan
<1>7. Plan(r)
  BY <1>1, <1>3, <1>4, <1>5, <1>6 DEF Plan
<1> QED
  BY <1>7 DEF r

(* Nothing that needs the threads gone comes after what starts one.         *)
LEMMA OpenersLast ==
  ASSUME NEW s, Plan(s), s # <<>>, Head(s) \in Openers
  PROVE  /\ Guarded(Tail(s), NeedsOff, "stop")
         /\ Head(s) \in {"enableEncoding", "enableIfEnabled"} => Guarded(Tail(s), NeedsNoVideo, "joinVideo")
         /\ Head(s) = "startAudio" => Guarded(Tail(s), NeedsNoAudio, "joinAudio")
<1>0. s \in Seq(Steps)
  BY DEF Plan
<1>1. \A i \in 1..Len(Tail(s)) :
        /\ Tail(s)[i] \in {"enableEncoding", "startAudio", "startCamera"} /\ Tail(s)[i] # Head(s)
        /\ Head(s) = "enableIfEnabled" => Tail(s)[i] = "startCamera"
  <2> TAKE i \in 1..Len(Tail(s))
  <2>1. i + 1 \in 1..Len(s) /\ 1 \in 1..Len(s) /\ 1 < i + 1 /\ Tail(s)[i] = s[i + 1] /\ Head(s) = s[1]
    BY <1>0, TailFacts
  <2> QED
    BY <2>1 DEF Plan
<1> QED
  BY <1>1 DEF Guarded, NeedsOff, NeedsNoVideo, NeedsNoAudio

(* A handler that sees to everything its steps need. *)
Ready(s) ==
  /\ Guarded(s, NeedsNoVideo, "joinVideo") /\ Guarded(s, NeedsNoAudio, "joinAudio")
  /\ Guarded(s, NeedsOff, "stop") /\ Guarded(s, NeedsOn, "start")

(* stopPublish() and handleException() stop the threads before the encoders. *)
LEMMA StopPlan ==
  /\ Plan(stopEncode) /\ Ready(stopEncode)
  /\ Has(stopEncode, "stop") /\ ~Has(stopEncode, "start")
<1>1. /\ stopEncode \in Seq(Steps) /\ Len(stopEncode) = 6
      /\ stopEncode[1] = "interruptAudio" /\ stopEncode[2] = "joinAudio"
      /\ stopEncode[3] = "interruptVideo" /\ stopEncode[4] = "joinVideo"
      /\ stopEncode[5] = "releaseCamera" /\ stopEncode[6] = "stop"
  BY DEF stopEncode, stopAudio, disableEncoding, Steps
<1>2. Ready(stopEncode)
  BY <1>1 DEF Ready, Guarded, NeedsNoVideo, NeedsNoAudio, NeedsOff, NeedsOn
<1>3. Has(stopEncode, "stop") /\ ~Has(stopEncode, "start")
  BY <1>1 DEF Has
<1> QED
  BY <1>1, <1>2, <1>3 DEF Plan, Ready, Openers

(* startPublish() needs the threads gone and the encoders closed.           *)
LEMMA PublishPlan ==
  LET s == startEncode \o <<"startCamera">> IN Plan(s) /\ Guarded(s, NeedsOn, "start")
<1> DEFINE s == startEncode \o <<"startCamera">>
<1>1. /\ s \in Seq(Steps) /\ Len(s) = 4
      /\ s[1] = "start" /\ s[2] = "enableEncoding" /\ s[3] = "startAudio" /\ s[4] = "startCamera"
  BY DEF startEncode, Steps
<1> HIDE DEF s
<1>2. Guarded(s, NeedsOn, "start")
  BY <1>1 DEF Guarded, NeedsOn
<1>3. Plan(s) /\ Guarded(s, NeedsOn, "start")
  BY <1>1, <1>2 DEF Plan, Openers
<1> QED
  BY <1>3 DEF s

(* pausePublish() stops the threads and nothing else.                       *)
LEMMA PausePlan ==
  LET s == stopAudio \o disableEncoding IN
  /\ Plan(s) /\ Ready(s) /\ Has(s, "joinVideo") /\ Has(s, "joinAudio")
  /\ \A x \in NeedsNoVideo \cup NeedsNoAudio : ~Has(s, x)
<1> DEFINE s == stopAudio \o disableEncoding
<1>1. /\ s \in Seq(Steps) /\ Len(s) = 4
      /\ s[1] = "interruptAudio" /\ s[2] = "joinAudio"
      /\ s[3] = "interruptVideo" /\ s[4] = "joinVideo"
  BY DEF stopAudio, disableEncoding, Steps
<1> HIDE DEF s
<1>2. Ready(s)
  BY <1>1 DEF Ready, Guarded, NeedsNoVideo, NeedsNoAudio, NeedsOff, NeedsOn
<1>3. /\ Has(s, "joinVideo") /\ Has(s, "joinAudio")
      /\ \A x \in NeedsNoVideo \cup NeedsNoAudio : ~Has(s, x)
  BY <1>1 DEF Has, NeedsNoVideo, NeedsNoAudio
<1>4. Plan(s)
  BY <1>1, <1>2 DEF Plan, Ready, Openers
<1>5. /\ Plan(s) /\ Ready(s) /\ Has(s, "joinVideo") /\ Has(s, "joinAudio")
      /\ \A x \in NeedsNoVideo \cup NeedsNoAudio : ~Has(s, x)
  BY <1>2, <1>3, <1>4
<1> QED
  BY <1>5 DEF s

(* resumePublish() needs the threads gone and the encoders open.            *)
LEMMA ResumePlan ==
  LET s == <<"startAudio", "enableEncoding">> IN
  Plan(s) /\ Guarded(s, NeedsOff, "stop") /\ ~Has(s, "start")
  BY DEF Plan, Guarded, Openers, Steps, NeedsOn, NeedsOff, Has

(* switchCameraFace() touches neither the encoders nor the microphone.      *)
LEMMA CameraPlan ==
  LET s == disableEncoding \o <<"releaseCamera", "enableIfEnabled", "startCamera">> IN
  /\ Plan(s) /\ Ready(s) /\ Has(s, "joinVideo")
  /\ ~Has(s, "start") /\ ~Has(s, "enableEncoding") /\ ~Has(s, "startAudio")
<1> DEFINE s == disableEncoding \o <<"releaseCamera", "enableIfEnabled", "startCamera">>
<1>1. /\ s \in Seq(Steps) /\ Len(s) = 5
      /\ s[1] = "interruptVideo" /\ s[2] = "joinVideo"
      /\ s[3] = "releaseCamera" /\ s[4] = "enableIfEnabled" /\ s[5] = "startCamera"
  BY DEF disableEncoding, Steps
<1> HIDE DEF s
<1>2. Ready(s)
  BY <1>1 DEF Ready, Guarded, NeedsNoVideo, NeedsNoAudio, NeedsOff, NeedsOn
<1>3. /\ Has(s, "joinVideo")
      /\ ~Has(s, "start") /\ ~Has(s, "enableEncoding") /\ ~Has(s, "startAudio")
  BY <1>1 DEF Has
<1>4. Plan(s)
  BY <1>1, <1>2 DEF Plan, Ready, Openers
<1>5. /\ Plan(s) /\ Ready(s) /\ Has(s, "joinVideo")
      /\ ~Has(s, "start") /\ ~Has(s, "enableEncoding") /\ ~Has(s, "startAudio")
  BY <1>2, <1>3, <1>4
<1> QED
  BY <1>5 DEF s

(* onConfigurationChanged() stops everything before it turns the picture,   *)
(* and starts again only what was published.                                *)
LEMMA RotatePlan ==
  ASSUME NEW p \in BOOLEAN
  PROVE  LET s == stopEncode \o <<"setScreenOrientation">>
                  \o (IF p THEN startEncode ELSE <<>>) \o <<"startCamera">> IN
         Plan(s) /\ Ready(s) /\ Has(s, "stop") /\ (~p => ~Has(s, "start"))
<1> DEFINE s == stopEncode \o <<"setScreenOrientation">>
                \o (IF p THEN startEncode ELSE <<>>) \o <<"startCamera">>
<1>1. CASE p
  <2>1. /\ s \in Seq(Steps) /\ Len(s) = 11
        /\ s[1] = "interruptAudio" /\ s[2] = "joinAudio"
        /\ s[3] = "interruptVideo" /\ s[4] = "joinVideo" /\ s[5] = "releaseCamera" /\ s[6] = "stop"
        /\ s[7] = "setScreenOrientation" /\ s[8] = "start" /\ s[9] = "enableEncoding"
        /\ s[10] = "startAudio" /\ s[11] = "startCamera"
    BY <1>1 DEF stopEncode, startEncode, stopAudio, disableEncoding, Steps
  <2> HIDE DEF s
  <2>2. Ready(s)
    BY <2>1 DEF Ready, Guarded, NeedsNoVideo, NeedsNoAudio, NeedsOff, NeedsOn
  <2>3. Has(s, "stop")
    BY <2>1 DEF Has
  <2>4. Plan(s)
    BY <2>1, <2>2 DEF Plan, Ready, Openers
  <2> QED
    BY <1>1, <2>2, <2>3, <2>4 DEF s
<1>2. CASE ~p
  <2>1. /\ s \in Seq(Steps) /\ Len(s) = 8
        /\ s[1] = "interruptAudio" /\ s[2] = "joinAudio"
        /\ s[3] = "interruptVideo" /\ s[4] = "joinVideo" /\ s[5] = "releaseCamera" /\ s[6] = "stop"
        /\ s[7] = "setScreenOrientation" /\ s[8] = "startCamera"
    BY <1>2 DEF stopEncode, stopAudio, disableEncoding, Steps
  <2> HIDE DEF s
  <2>2. Ready(s)
    BY <2>1 DEF Ready, Guarded, NeedsNoVideo, NeedsNoAudio, NeedsOff, NeedsOn
  <2>3. Has(s, "stop") /\ ~Has(s, "start")
    BY <2>1 DEF Has
  <2>4. Plan(s)
    BY <2>1, <2>2 DEF Plan, Ready, Openers
  <2> QED
    BY <1>2, <2>2, <2>3, <2>4 DEF s
<1> QED
  BY <1>1, <1>2

(* A handler that only stops or only starts the camera.                     *)
LEMMA CameraOnlyPlan ==
  /\ LET s == disableEncoding \o <<"releaseCamera">> IN
     Plan(s) /\ Ready(s) /\ \A x \in Openers \cup {"stop"} : ~Has(s, x)
  /\ LET s == <<"startCamera">> IN
     Plan(s) /\ Ready(s) /\ \A x \in Openers \cup {"stop"} : ~Has(s, x)
<1> DEFINE s == disableEncoding \o <<"releaseCamera">>
           r == <<"startCamera">>
<1>1. /\ s \in Seq(Steps) /\ Len(s) = 3
      /\ s[1] = "interruptVideo" /\ s[2] = "joinVideo" /\ s[3] = "releaseCamera"
  BY DEF disableEncoding, Steps
<1>2. r \in Seq(Steps) /\ Len(r) = 1 /\ r[1] = "startCamera"
  BY DEF Steps
<1> HIDE DEF s, r
<1>3. Ready(s) /\ Ready(r)
  BY <1>1, <1>2 DEF Ready, Guarded, NeedsNoVideo, NeedsNoAudio, NeedsOff, NeedsOn
<1>4. \A x \in Openers \cup {"stop"} : ~Has(s, x) /\ ~Has(r, x)
  BY <1>1, <1>2 DEF Has, Openers
<1>5. Plan(s)
  BY <1>1, <1>3 DEF Plan, Ready, Openers
<1>6. Plan(r)
  BY <1>2, <1>3 DEF Plan, Ready, Openers
<1>7. /\ Plan(s) /\ Ready(s) /\ \A x \in Openers \cup {"stop"} : ~Has(s, x)
      /\ Plan(r) /\ Ready(r) /\ \A x \in Openers \cup {"stop"} : ~Has(r, x)
  BY <1>3, <1>4, <1>5, <1>6
<1> QED
  BY <1>7 DEF s, r

-------------------------------------------------------------------------------
(* The sizes are sizes libenc knows.                                        *)
LEMMA SizesKnown == {Preview, Portrait, Landscape} \subseteq Sizes /\ NoSize \notin Sizes
  BY PublisherAssumption, LengthsAssumption DEF Preview, Portrait, Landscape, Sizes, NoSize

(* Without its first three steps a sequence is three shorter.               *)
LEMMA DropThree ==
  ASSUME NEW S, NEW s \in Seq(S), 3 <= Len(s)
  PROVE  Len(SubSeq(s, 4, Len(s))) = Len(s) - 3
<1>1. CASE 3 < Len(s)
  BY <1>1
<1>2. CASE 3 = Len(s)
  <2>1. Len(SubSeq(s, 4, Len(s))) = 0
    BY <1>2
  <2> QED
    BY <1>2, <2>1
<1>3. Len(s) \in Nat
  OBVIOUS
<1>4. \A n \in Nat : 3 <= n => 3 < n \/ 3 = n
  OBVIOUS
<1> QED
  BY <1>1, <1>2, <1>3, <1>4

(* A failed start() leaves at most the camera to be started.                *)
LEMMA StartSkips ==
  ASSUME NEW s, Plan(s), s # <<>>, Head(s) = "start"
  PROVE  LET r == SubSeq(s, 4, Len(s)) IN
         Plan(r) /\ \A i \in 1..Len(r) : r[i] = "startCamera"
<1> DEFINE r == SubSeq(s, 4, Len(s))
<1>1. s \in Seq(Steps)
  BY DEF Plan
<1>2. Len(s) \in Nat /\ 1 \in 1..Len(s) /\ s[1] = "start"
  BY <1>1, TailFacts
<1>3. 3 <= Len(s) /\ s[2] = "enableEncoding" /\ s[3] = "startAudio"
  BY <1>2 DEF Plan
<1>4. /\ r \in Seq(Steps) /\ Len(r) = Len(s) - 3
      /\ \A i \in 1..Len(r) : r[i] = s[i + 3] /\ i + 3 \in 1..Len(s)
  <2>1. r \in Seq(Steps)
    BY <1>1, <1>2, <1>3
  <2>2. Len(r) = Len(s) - 3
    BY <1>1, <1>3, DropThree
  <2>3. \A i \in 1..(Len(s) - 3) : r[i] = s[i + 3]
    BY <1>1, <1>2, <1>3
  <2> QED
    BY <1>2, <2>1, <2>2, <2>3
<1> HIDE DEF r
<1>5. \A i \in 1..Len(r) : r[i] = "startCamera"
  <2> TAKE i \in 1..Len(r)
  <2>1. r[i] = s[i + 3] /\ i + 3 \in 1..Len(s) /\ 1 < i + 3 /\ 2 < i + 3 /\ 3 < i + 3
        /\ 1 \in 1..Len(s) /\ 2 \in 1..Len(s) /\ 3 \in 1..Len(s)
    BY <1>3, <1>4, <1>2
  <2>2. s[i + 3] \in {"enableEncoding", "startAudio", "startCamera"}
    BY <2>1, <1>2 DEF Plan, Openers
  <2>3. s[i + 3] # s[2] /\ s[i + 3] # s[3]
    BY <2>1 DEF Plan
  <2> QED
    BY <2>1, <2>2, <2>3, <1>3
<1>6. \A i, j \in 1..Len(r) : i < j => r[i] # r[j]
  <2> SUFFICES ASSUME NEW i \in 1..Len(r), NEW j \in 1..Len(r), i < j
               PROVE  r[i] # r[j]
    OBVIOUS
  <2>1. i + 3 \in 1..Len(s) /\ j + 3 \in 1..Len(s) /\ i + 3 < j + 3
    BY <1>4
  <2>2. s[i + 3] # s[j + 3]
    BY <2>1 DEF Plan
  <2> QED
    BY <1>4, <2>2
<1>7. ~Has(r, "stop")
  BY <1>5 DEF Has
<1>8. Plan(r)
  BY <1>4, <1>5, <1>6, <1>7 DEF Plan, Openers
<1> QED
  BY <1>5, <1>8 DEF r

(* A handler that begins is a whole one; otherwise the main thread goes on   *)
(* with what is left, or skips what a failed start() makes pointless.       *)
LEMMA PlanStep ==
  ASSUME TypeOK, Plan(todo), [Next]_vars
  PROVE  Plan(todo)'
<1>1. CASE Click
  <2>1. CASE ClickPublish
    BY <2>1, PublishPlan DEF ClickPublish, Handler
  <2>2. CASE ClickStop \/ HandleException
    BY <2>2, StopPlan DEF ClickStop, HandleException, Handler
  <2>3. CASE ClickPause
    BY <2>3, PausePlan DEF ClickPause, Handler
  <2>4. CASE ClickResume
    BY <2>4, ResumePlan DEF ClickResume, Handler
  <2>5. CASE ClickCamera
    BY <2>5, CameraPlan DEF ClickCamera, Handler
  <2>6. CASE ClickEncoder
    BY <2>6 DEF ClickEncoder
  <2>7. CASE Rotate
    <3>1. (btnPublish = "stop") \in BOOLEAN
      OBVIOUS
    <3> QED
      BY <2>7, <3>1, RotatePlan DEF Rotate, Handler
  <2>8. CASE CameraError \/ OnStart
    BY <2>8, CameraOnlyPlan DEF CameraError, OnStart, Handler
  <2> QED
    BY <1>1, <2>1, <2>2, <2>3, <2>4, <2>5, <2>6, <2>7, <2>8 DEF Click
<1>2. CASE todo # <<>> /\ todo' = Tail(todo)
  BY <1>2, PlanTail
<1>3. CASE Start
  <2>1. \/ todo # <<>> /\ todo' = Tail(todo)
        \/ todo' = SubSeq(todo, 4, Len(todo))
    BY <1>3 DEF Start, Step
  <2>2. CASE todo' = SubSeq(todo, 4, Len(todo))
    BY <1>3, <2>2, StartSkips DEF Start, Step
  <2> QED
    BY <2>1, <2>2, PlanTail
<1>4. CASE UNCHANGED todo
  BY <1>4
<1>5. Next => Click \/ (todo # <<>> /\ todo' = Tail(todo)) \/ Start \/ UNCHANGED todo
  BY DEF Next, Main, Video, Audio, Step, Go, InterruptAudio, JoinAudio, InterruptVideo, JoinVideo, Camera,
         EnableEncoding, StayDisabled, StartAudio, Stop, SetScreenOrientation, DrawFrame, AddPicture,
         Loop, IsEmpty, Poll, OnGetRgbaFrame, Soft, Hard, Wait, ReadMic, OnGetPcmFrame
<1> QED
  BY <1>1, <1>2, <1>3, <1>4, <1>5 DEF vars

(* Every variable keeps its type, and the buffer its room: the publisher     *)
(* hands libenc only pictures of the preview, turned by 180 degrees.        *)
LEMMA TypeStep ==
  ASSUME TypeOK, Room, Plan(todo), [Next]_vars
  PROVE  TypeOK' /\ Room'
<1>p. todo' \in Seq(Steps)
  <2>1. Plan(todo')
    BY PlanStep
  <2> QED
    BY <2>1 DEF Plan
<1>s. {Preview, Portrait, Landscape} \subseteq Sizes
  BY SizesKnown
<1>r. UNCHANGED rotated => Room'
  BY DEF Room
<1>e. UNCHANGED encVars => EncTypeOK' /\ Room'
  BY <1>r DEF encVars, TypeOK, EncTypeOK
<1>c. MaxPictures \in Nat \ {0} /\ MaxClicks \in Nat
  BY PublisherAssumption
<1>1. CASE Click
  <2>1. CASE ClickEncoder
    BY <2>1, <1>e, <1>p, <1>c DEF ClickEncoder, TypeOK, view, threads
  <2>2. ASSUME NEW steps, Handler(steps),
               btnPublish' \in {"publish", "stop"}, btnPause' \in {"pause", "resume"},
               {pauseEnabled', swEncEnabled', paused', stray'} \subseteq BOOLEAN
        PROVE  TypeOK' /\ Room'
    BY <2>2, <1>e, <1>p, <1>c DEF Handler, TypeOK, codecs, view, threads
  <2>3. CASE ClickPublish \/ ClickStop \/ HandleException \/ ClickPause \/ Rotate \/ CameraError \/ OnStart
    BY <2>3, <2>2 DEF ClickPublish, ClickStop, HandleException, ClickPause, Rotate, CameraError, OnStart, TypeOK
  <2>4. CASE ClickResume
    BY <2>4, <2>2 DEF ClickResume, TypeOK
  <2>5. CASE ClickCamera
    BY <2>5, <2>2 DEF ClickCamera, TypeOK
  <2> QED
    BY <1>1, <2>1, <2>3, <2>4, <2>5 DEF Click
<1>2. CASE InterruptAudio
  BY <1>2, <1>e, <1>p DEF InterruptAudio, TypeOK, buttons, codecs, view
<1>3. CASE JoinAudio
  BY <1>3, <1>e, <1>p DEF JoinAudio, TypeOK, buttons, codecs, view
<1>4. CASE InterruptVideo
  <2>1. pictures' \in 0..MaxPictures
    BY <1>4, <1>c DEF InterruptVideo
  <2> QED
    BY <1>4, <2>1, <1>e, <1>p DEF InterruptVideo, TypeOK, buttons, codecs
<1>5. CASE JoinVideo
  BY <1>5, <1>e, <1>p DEF JoinVideo, TypeOK, buttons, codecs, view
<1>6. CASE Camera
  BY <1>6, <1>e, <1>p, ZenonT(30) DEF Camera, TypeOK, buttons, codecs, threads
<1>7. CASE EnableEncoding
  BY <1>7, <1>e, <1>p DEF EnableEncoding, Free, TypeOK, buttons, codecs
<1>8. CASE StayDisabled
  BY <1>8, <1>e, <1>p DEF StayDisabled, TypeOK, buttons, codecs, view, threads
<1>9. CASE StartAudio
  BY <1>9, <1>e, <1>p DEF StartAudio, Free, TypeOK, buttons, codecs, view
<1>10. CASE Start
  <2>1. /\ UNCHANGED <<rotated, vOut, useSoftEncoder>> /\ scaled' = vOut
        /\ x264' \in {x264, vOut, NoSize} /\ global_nal_header' \in {global_nal_header, TRUE}
        /\ es' \in {es, "none"} /\ canSoftEncode' \in {canSoftEncode, TRUE, FALSE}
        /\ aencoder' \in {aencoder, "on", "made"} /\ vencoder' \in {vencoder, vOut}
    BY <1>10 DEF Start, SetEncoderResolution, OpenSoftEncoder
  <2>2. UNCHANGED <<buttons, view, threads, mic, crash, paused, stray>>
    BY <1>10 DEF Start
  <2>3. EncTypeOK' /\ Room'
    BY <2>1, <1>s, <1>r DEF TypeOK, EncTypeOK
  <2> QED
    BY <2>1, <2>2, <2>3, <1>p, ZenonT(30) DEF TypeOK, buttons, view, threads
<1>11. CASE Stop
  <2>1. EncTypeOK' /\ Room'
    BY <1>11, <1>r DEF Stop, CloseSoftEncoder, TypeOK, EncTypeOK
  <2>2. canSoftEncode' \in {canSoftEncode, FALSE} /\ aencoder' = "null" /\ vencoder' = NoSize
        /\ UNCHANGED <<buttons, vOut, useSoftEncoder, view, threads, mic, crash, paused, stray>>
    BY <1>11 DEF Stop
  <2> QED
    BY <2>1, <2>2, <1>p DEF TypeOK, buttons, view, threads
<1>12. CASE SetScreenOrientation
  <2>1. EncTypeOK' /\ Room'
    BY <1>12, <1>r, <1>s DEF SetScreenOrientation, SetEncoderResolution, TypeOK, EncTypeOK
  <2> QED
    BY <1>12, <2>1, <1>p DEF SetScreenOrientation, TypeOK, buttons, view, threads
<1>13. CASE DrawFrame \/ AddPicture
  <2>1. pictures' \in 0..MaxPictures
    <3>1. pictures \in 0..MaxPictures
      BY DEF TypeOK
    <3> QED
      BY <1>13, <3>1, <1>c DEF DrawFrame, AddPicture
  <2> QED
    BY <1>13, <2>1, <1>e, <1>p, ZenonT(30) DEF DrawFrame, AddPicture, TypeOK, buttons, codecs, threads
<1>14. ASSUME NEW t \in Threads, Video(t) PROVE TypeOK' /\ Room'
  <2>1. CASE Loop(t) \/ Wait(t)
    BY <2>1, <1>e, <1>p DEF Loop, Wait, At, VideoTo, TypeOK, buttons, codecs, view
  <2>2. CASE IsEmpty(t)
    BY <2>2, <1>e, <1>p DEF IsEmpty, At, VideoTo, TypeOK, buttons, codecs, view
  <2>3. CASE Poll(t)
    BY <2>3, <1>e, <1>p, <1>c DEF Poll, At, VideoTo, TypeOK, buttons, codecs
  <2>4. CASE OnGetRgbaFrame(t)
    BY <2>4, <1>e, <1>p DEF OnGetRgbaFrame, At, VideoTo, TypeOK, buttons, codecs, view
  <2>5. CASE Soft(t) \/ Hard(t)
    <3>1. rotated' \in [size : Sizes \cup {NoSize}, y_size : Nat, bytes : Nat] /\ Room'
      BY <2>5, <1>s, ConvertFacts DEF Soft, Hard, Rotations, TypeOK
    <3>2. /\ UNCHANGED <<scaled, x264>> /\ global_nal_header' \in BOOLEAN
          /\ es' \in {"none", "header", "failed", "frame"}
      BY <2>5, ZenonT(30) DEF Soft, Hard, SoftEncode, TypeOK, EncTypeOK
    <3>3. EncTypeOK'
      BY <3>1, <3>2 DEF EncTypeOK, TypeOK
    <3>4. /\ video' = [video EXCEPT ![t] = "empty"] /\ crash' \in {crash, "released"}
          /\ UNCHANGED <<buttons, todo, codecs, view, worker, aworker, audio, interrupted, mic, paused, stray>>
      BY <2>5 DEF Soft, Hard, VideoTo
    <3> QED
      BY <3>1, <3>3, <3>4 DEF TypeOK, buttons, codecs, view
  <2> QED
    BY <1>14, <2>1, <2>2, <2>3, <2>4, <2>5 DEF Video
<1>15. ASSUME NEW t \in Threads, Audio(t) PROVE TypeOK' /\ Room'
  <2>1. CASE ReadMic(t)
    BY <2>1, <1>e, <1>p DEF ReadMic, AudioTo, TypeOK, buttons, codecs, view
  <2>2. CASE OnGetPcmFrame(t)
    BY <2>2, <1>e, <1>p DEF OnGetPcmFrame, AudioTo, TypeOK, buttons, codecs, view
  <2> QED
    BY <1>15, <2>1, <2>2 DEF Audio
<1>16. CASE UNCHANGED vars
  BY <1>16, <1>e, <1>p DEF vars, TypeOK, buttons, codecs, view, threads
<1> QED
  BY <1>1, <1>2, <1>3, <1>4, <1>5, <1>6, <1>7, <1>8, <1>9, <1>10, <1>11, <1>12, <1>13, <1>14, <1>15, <1>16
     DEF Next, Main

-------------------------------------------------------------------------------
(* What a handler begins with: a handler that has not set stray may rely on  *)
(* the order its predecessors left.                                         *)
LEMMA ClickOrderly ==
  ASSUME IndInv, Click, ~stray'
  PROVE  Orderly'
<1>t. TypeOK /\ stray \in BOOLEAN
  BY DEF IndInv, TypeOK
<1>1. ~stray
  BY <1>t DEF Click, ClickPublish, ClickStop, HandleException, ClickPause, ClickResume, ClickCamera, ClickEncoder,
              Rotate, CameraError, OnStart
<1>2. Prepared /\ Known /\ Matched /\ Labelled /\ Halted /\ crash # "released"
  BY <1>1 DEF IndInv, Orderly
<1>3. todo = <<>>
  BY DEF Click, ClickPublish, ClickStop, HandleException, ClickPause, ClickResume, ClickCamera, ClickEncoder,
         Rotate, CameraError, OnStart, Handler
<1>4. \A x : ~Has(todo, x)
  BY <1>3 DEF Has
<1>5. btnPublish = "publish" => Off /\ NoVideo /\ NoAudio
  <2> SUFFICES ASSUME btnPublish = "publish" PROVE Off /\ NoVideo /\ NoAudio
    OBVIOUS
  <2>1. Off
    BY <1>2, <1>4 DEF Labelled
  <2>2. worker = 0 /\ aworker = 0
    BY <1>2, <2>1 DEF Known, Off, isEnabled
  <2>3. 0 \notin Threads
    BY PublisherAssumption
  <2> QED
    BY <1>2, <2>1, <2>2, <2>3 DEF Known, NoVideo, NoAudio
<1>6. paused => NoVideo /\ NoAudio
  BY <1>2, <1>4 DEF Halted
<1>7. ASSUME NEW s, Handler(s)
      PROVE  /\ todo' = s /\ Known' /\ Matched' /\ crash' # "released"
             /\ (NoVideo' <=> NoVideo) /\ (NoAudio' <=> NoAudio) /\ (On' <=> On) /\ (Off' <=> Off)
             /\ (isEnabled' <=> isEnabled)
  <2>1. todo' = s /\ UNCHANGED <<encVars, codecs, view, threads, mic, crash>>
    BY <1>7 DEF Handler
  <2> QED
    BY <2>1, <1>2 DEF encVars, codecs, view, threads, Known, Matched, NoVideo, NoAudio, On, Off, isEnabled
<1>8. Ready(todo') => Prepared'
  BY DEF Ready, Prepared
<1>9. CASE ClickPublish
  <2> DEFINE s == startEncode \o <<"startCamera">>
  <2>1. /\ btnPublish = "publish" /\ Handler(s)
        /\ btnPublish' = "stop" /\ swEncEnabled' = FALSE /\ paused' = FALSE
    BY <1>9 DEF ClickPublish
  <2>2. Guarded(s, NeedsOn, "start")
    BY PublishPlan
  <2> HIDE DEF s
  <2>3. Prepared'
    BY <2>1, <2>2, <1>5, <1>7 DEF Prepared
  <2>4. Labelled' /\ Halted'
    BY <2>1 DEF Labelled, Halted
  <2> QED
    BY <2>1, <2>3, <2>4, <1>7 DEF Orderly
<1>10. CASE ClickStop \/ HandleException
  <2>1. Handler(stopEncode) /\ btnPublish' = "publish" /\ paused' = FALSE
    BY <1>10 DEF ClickStop, HandleException
  <2>2. Ready(stopEncode) /\ Has(stopEncode, "stop") /\ ~Has(stopEncode, "start")
    BY StopPlan
  <2>3. todo' = stopEncode
    BY <2>1, <1>7
  <2>4. Prepared' /\ Labelled' /\ Halted'
    BY <2>1, <2>2, <2>3, <1>8 DEF Labelled, Halted
  <2> QED
    BY <2>1, <2>4, <1>7 DEF Orderly
<1>11. CASE ClickPause
  <2> DEFINE s == stopAudio \o disableEncoding
  <2>1. Handler(s) /\ UNCHANGED <<btnPublish, swEncEnabled>>
    BY <1>11 DEF ClickPause
  <2>2. /\ Ready(s) /\ Has(s, "joinVideo") /\ Has(s, "joinAudio")
        /\ \A x \in NeedsNoVideo \cup NeedsNoAudio : ~Has(s, x)
    BY PausePlan
  <2> HIDE DEF s
  <2>3. todo' = s /\ (Off' <=> Off)
    BY <2>1, <1>7
  <2>4. ~Has(s, "start") /\ ~Has(s, "enableEncoding") /\ ~Has(s, "enableIfEnabled") /\ ~Has(s, "startAudio")
    BY <2>2 DEF NeedsNoVideo, NeedsNoAudio
  <2>5. Labelled'
    BY <2>1, <2>3, <2>4, <1>2, <1>5 DEF Labelled
  <2>6. Prepared' /\ Halted'
    BY <2>2, <2>3, <2>4, <1>8 DEF Halted
  <2> QED
    BY <2>1, <2>5, <2>6, <1>7 DEF Orderly
<1>12. CASE ClickResume
  <2> DEFINE s == <<"startAudio", "enableEncoding">>
  <2>1. Handler(s) /\ UNCHANGED <<btnPublish, swEncEnabled>> /\ paused' = FALSE /\ paused /\ On
    BY <1>12, <1>t DEF ClickResume, TypeOK, On
  <2>2. Guarded(s, NeedsOff, "stop") /\ ~Has(s, "start")
    BY ResumePlan
  <2> HIDE DEF s
  <2>3. Prepared'
    BY <2>1, <2>2, <1>6, <1>7 DEF Prepared
  <2>4. Labelled' /\ Halted'
    BY <2>1, <2>2, <1>2, <1>5, <1>7 DEF Labelled, Halted
  <2> QED
    BY <2>1, <2>3, <2>4, <1>7 DEF Orderly
<1>13. CASE ClickCamera
  <2> DEFINE s == disableEncoding \o <<"releaseCamera", "enableIfEnabled", "startCamera">>
  <2>1. Handler(s) /\ UNCHANGED <<btnPublish, swEncEnabled, paused>> /\ ~(paused /\ isEnabled)
    BY <1>13, <1>t DEF ClickCamera
  <2>2. /\ Ready(s) /\ Has(s, "joinVideo")
        /\ ~Has(s, "start") /\ ~Has(s, "enableEncoding") /\ ~Has(s, "startAudio")
    BY CameraPlan
  <2> HIDE DEF s
  <2>3. Prepared'
    BY <2>1, <2>2, <1>7, <1>8
  <2>4. Labelled'
    BY <2>1, <2>2, <1>2, <1>5, <1>7 DEF Labelled
  <2>5. Halted'
    BY <2>1, <2>2, <1>6, <1>7 DEF Halted
  <2> QED
    BY <2>1, <2>3, <2>4, <2>5, <1>7 DEF Orderly
<1>14. CASE ClickEncoder
  <2>1. swEncEnabled /\ UNCHANGED <<encVars, btnPublish, swEncEnabled, todo, vOut, canSoftEncode,
                 aencoder, vencoder, view, threads, mic, crash, paused, stray>>
    BY <1>14 DEF ClickEncoder
  <2>2. Off /\ NoVideo /\ NoAudio
    BY <2>1, <1>2, <1>5 DEF Labelled
  <2>3. Prepared' /\ Labelled' /\ Halted' /\ crash' # "released"
    BY <2>1, <1>2 DEF Prepared, Labelled, Halted, NoVideo, NoAudio, Off, On, encVars, threads, isEnabled
  <2>4. Known'
    BY <2>1, <2>2, <1>2 DEF Known, NoVideo, NoAudio, isEnabled, threads
  <2>5. Matched'
    BY <2>1, <2>2, <1>2 DEF Matched, Off, On, encVars
  <2> QED
    BY <2>3, <2>4, <2>5 DEF Orderly
<1>15. CASE Rotate
  <2> DEFINE p == btnPublish = "stop"
             s == stopEncode \o <<"setScreenOrientation">>
                  \o (IF p THEN startEncode ELSE <<>>) \o <<"startCamera">>
  <2>1. Handler(s) /\ UNCHANGED <<btnPublish, swEncEnabled>> /\ paused' = FALSE
    BY <1>15 DEF Rotate
  <2>2. Ready(s) /\ Has(s, "stop") /\ (~p => ~Has(s, "start"))
    <3>1. p \in BOOLEAN
      OBVIOUS
    <3> QED
      BY <3>1, RotatePlan
  <2>3. btnPublish = "publish" => ~p
    OBVIOUS
  <2> HIDE DEF s, p
  <2>4. Prepared'
    BY <2>1, <2>2, <1>7, <1>8
  <2>5. Labelled' /\ Halted'
    BY <2>1, <2>2, <2>3, <1>2, <1>7 DEF Labelled, Halted
  <2> QED
    BY <2>1, <2>4, <2>5, <1>7 DEF Orderly
<1>16. CASE CameraError \/ OnStart
  <2>1. PICK s : /\ Handler(s) /\ UNCHANGED <<btnPublish, swEncEnabled, paused>>
                 /\ Ready(s) /\ \A x \in Openers \cup {"stop"} : ~Has(s, x)
    BY <1>16, CameraOnlyPlan DEF CameraError, OnStart
  <2>2. /\ ~Has(s, "start") /\ ~Has(s, "enableEncoding") /\ ~Has(s, "enableIfEnabled")
        /\ ~Has(s, "startAudio")
    BY <2>1 DEF Openers
  <2>3. Prepared'
    BY <2>1, <1>7, <1>8
  <2>4. Labelled' /\ Halted'
    BY <2>1, <2>2, <1>2, <1>5, <1>6, <1>7 DEF Labelled, Halted
  <2> QED
    BY <2>1, <2>3, <2>4, <1>7 DEF Orderly
<1> QED
  BY <1>9, <1>10, <1>11, <1>12, <1>13, <1>14, <1>15, <1>16 DEF Click

(* What a step of the main thread may rely on, and what it leaves to the     *)
(* next ones.                                                               *)
LEMMA StepAhead ==
  ASSUME Plan(todo), todo # <<>>, todo' = Tail(todo)
  PROVE  /\ Head(todo) # "joinVideo" /\ Guarded(todo, NeedsNoVideo, "joinVideo") =>
              Guarded(todo', NeedsNoVideo, "joinVideo")
         /\ Head(todo) # "joinAudio" /\ Guarded(todo, NeedsNoAudio, "joinAudio") =>
              Guarded(todo', NeedsNoAudio, "joinAudio")
         /\ Head(todo) # "stop" /\ Guarded(todo, NeedsOff, "stop") => Guarded(todo', NeedsOff, "stop")
         /\ Head(todo) # "start" /\ Guarded(todo, NeedsOn, "start") => Guarded(todo', NeedsOn, "start")
         /\ \A x : Has(todo', x) <=> Has(todo, x) /\ x # Head(todo)
<1>1. todo \in Seq(Steps)
  BY DEF Plan
<1> QED
  BY <1>1, GuardedTail, HasTail

(* The head of the handler has what it needs.                               *)
LEMMA StepReady ==
  ASSUME Plan(todo), todo # <<>>, Prepared
  PROVE  /\ Head(todo) \in NeedsNoVideo => NoVideo
         /\ Head(todo) \in NeedsNoAudio => NoAudio
         /\ Head(todo) \in NeedsOff => Off
         /\ Head(todo) \in NeedsOn => On
         /\ Has(todo, Head(todo))
<1>1. todo \in Seq(Steps)
  BY DEF Plan
<1>2. Has(todo, Head(todo))
  BY <1>1, TailFacts DEF Has
<1> QED
  BY <1>1, <1>2, GuardedTail DEF Prepared

(* The steps of the main thread keep the order.                             *)
LEMMA MainOrderly ==
  ASSUME IndInv, Main, ~stray
  PROVE  Orderly'
<1>t. TypeOK /\ Plan(todo)
  BY DEF IndInv
<1>o. Prepared /\ Known /\ Matched /\ Labelled /\ Halted /\ crash # "released"
  BY DEF IndInv, Orderly
<1>0. todo # <<>>
  BY DEF Main, Step, InterruptAudio, JoinAudio, InterruptVideo, JoinVideo, Camera,
         EnableEncoding, StayDisabled, StartAudio, Start, Stop, SetScreenOrientation
<1>z. 0 \notin Threads
  BY PublisherAssumption
<1>n. Portrait # NoSize /\ Landscape # NoSize
  BY DEF Portrait, Landscape, NoSize
<1> DEFINE h == Head(todo)
<1>r. /\ h \in NeedsNoVideo => NoVideo
      /\ h \in NeedsNoAudio => NoAudio
      /\ h \in NeedsOff => Off
      /\ h \in NeedsOn => On
      /\ Has(todo, h)
  BY <1>t, <1>o, <1>0, StepReady
<1>a. todo' = Tail(todo) =>
         /\ h # "joinVideo" /\ Guarded(todo, NeedsNoVideo, "joinVideo") =>
              Guarded(todo', NeedsNoVideo, "joinVideo")
         /\ h # "joinAudio" /\ Guarded(todo, NeedsNoAudio, "joinAudio") =>
              Guarded(todo', NeedsNoAudio, "joinAudio")
         /\ h # "stop" /\ Guarded(todo, NeedsOff, "stop") => Guarded(todo', NeedsOff, "stop")
         /\ h # "start" /\ Guarded(todo, NeedsOn, "start") => Guarded(todo', NeedsOn, "start")
         /\ \A x : Has(todo', x) <=> Has(todo, x) /\ x # h
  BY <1>t, <1>0, StepAhead
<1>1. CASE InterruptAudio \/ InterruptVideo \/ Camera \/ StayDisabled
  <2>1. /\ todo' = Tail(todo) /\ h \notin {"joinVideo", "joinAudio", "stop", "start"}
        /\ UNCHANGED <<encVars, buttons, codecs, worker, aworker, video, audio, mic, crash, paused>>
    BY <1>1 DEF InterruptAudio, InterruptVideo, Camera, StayDisabled, Step, Go, threads
  <2> HIDE DEF h
  <2>2. Known' /\ Matched' /\ crash' # "released"
    BY <2>1, <1>o DEF Known, Matched, On, isEnabled, encVars, codecs
  <2>3. /\ (NoVideo' <=> NoVideo) /\ (NoAudio' <=> NoAudio) /\ (On' <=> On) /\ (Off' <=> Off)
        /\ (isEnabled' <=> isEnabled)
    BY <2>1 DEF NoVideo, NoAudio, On, Off, isEnabled, encVars, codecs
  <2>4. Prepared'
    BY <2>1, <2>3, <1>a, <1>o DEF Prepared
  <2>5. Labelled'
    BY <2>1, <2>3, <1>a, <1>o DEF Labelled, buttons
  <2>6. Halted'
    BY <2>1, <2>3, <1>a, <1>o DEF Halted
  <2> QED
    BY <2>2, <2>4, <2>5, <2>6 DEF Orderly
<1>2. CASE JoinAudio
  <2>1. /\ todo' = Tail(todo) /\ h = "joinAudio"
        /\ audio' = [t \in Threads |-> IF t = aworker THEN "none" ELSE audio[t]]
        /\ aworker' = 0 /\ mic' = FALSE
        /\ UNCHANGED <<encVars, buttons, codecs, worker, video, crash, paused>>
    BY <1>2 DEF JoinAudio, Step, Go
  <2> HIDE DEF h
  <2>2. NoAudio'
    BY <2>1, <1>o DEF NoAudio, Known
  <2>3. Known' /\ Matched' /\ crash' # "released"
    BY <2>1, <2>2, <1>o DEF Known, NoAudio, Matched, On, isEnabled, encVars, codecs
  <2>4. /\ (NoVideo' <=> NoVideo) /\ (On' <=> On) /\ (Off' <=> Off) /\ (isEnabled' <=> isEnabled)
    BY <2>1 DEF NoVideo, On, Off, isEnabled, encVars, codecs
  <2>5. Prepared'
    BY <2>1, <2>2, <2>4, <1>a, <1>o DEF Prepared
  <2>6. Labelled'
    BY <2>1, <2>4, <1>a, <1>o DEF Labelled, buttons
  <2>7. Halted'
    BY <2>1, <2>2, <2>4, <1>a, <1>o DEF Halted
  <2> QED
    BY <2>3, <2>5, <2>6, <2>7 DEF Orderly
<1>3. CASE JoinVideo
  <2>1. /\ todo' = Tail(todo) /\ h = "joinVideo"
        /\ video' = [t \in Threads |-> IF t = worker THEN "none" ELSE video[t]]
        /\ worker' = 0
        /\ UNCHANGED <<encVars, buttons, codecs, aworker, audio, mic, crash, paused>>
    BY <1>3 DEF JoinVideo, Step, Go
  <2> HIDE DEF h
  <2>2. NoVideo'
    BY <2>1, <1>o DEF NoVideo, Known
  <2>3. Known' /\ Matched' /\ crash' # "released"
    BY <2>1, <2>2, <1>o DEF Known, NoVideo, Matched, On, isEnabled, encVars, codecs
  <2>4. /\ (NoAudio' <=> NoAudio) /\ (On' <=> On) /\ (Off' <=> Off) /\ (isEnabled' <=> isEnabled)
    BY <2>1 DEF NoAudio, On, Off, isEnabled, encVars, codecs
  <2>5. Prepared'
    BY <2>1, <2>2, <2>4, <1>a, <1>o DEF Prepared
  <2>6. Labelled'
    BY <2>1, <2>4, <1>a, <1>o DEF Labelled, buttons
  <2>7. Halted'
    BY <2>1, <2>2, <2>4, <1>a, <1>o DEF Halted
  <2> QED
    BY <2>3, <2>5, <2>6, <2>7 DEF Orderly
<1>4. CASE EnableEncoding
  <2>1. PICK t \in Threads : worker' = t /\ video' = [video EXCEPT ![t] = "loop"]
    BY <1>4 DEF EnableEncoding, Free
  <2>2. /\ todo' = Tail(todo) /\ (h = "enableEncoding" \/ (h = "enableIfEnabled" /\ isEnabled))
        /\ UNCHANGED <<encVars, buttons, codecs, aworker, audio, mic, crash, paused>>
    BY <1>4 DEF EnableEncoding, Step, Go
  <2>3. Guarded(todo', NeedsNoVideo, "joinVideo")
    BY <2>2, <1>t, <1>0, OpenersLast DEF Openers
  <2> HIDE DEF h
  <2>4. NoVideo /\ isEnabled
    BY <2>2, <1>r DEF NeedsNoVideo, NeedsOn, On, isEnabled
  <2>5. ~paused
    BY <2>2, <2>4, <1>r, <1>o DEF Halted
  <2>6. Known'
    BY <2>1, <2>2, <2>4, <1>o, <1>t DEF Known, NoVideo, isEnabled, codecs, TypeOK
  <2>7. Matched' /\ crash' # "released"
    BY <2>2, <1>o DEF Matched, On, encVars, codecs
  <2>8. /\ (NoAudio' <=> NoAudio) /\ (On' <=> On) /\ (Off' <=> Off)
    BY <2>2 DEF NoAudio, On, Off, encVars, codecs
  <2>9. Prepared'
    BY <2>2, <2>3, <2>8, <1>a, <1>o DEF Prepared
  <2>10. Labelled' /\ Halted'
    BY <2>2, <2>5, <2>8, <1>a, <1>o DEF Labelled, Halted, buttons
  <2> QED
    BY <2>6, <2>7, <2>9, <2>10 DEF Orderly
<1>5. CASE StartAudio
  <2>1. /\ todo' = Tail(todo) /\ h = "startAudio"
        /\ UNCHANGED <<encVars, buttons, codecs, worker, video, crash, paused>>
        /\ \/ \E t \in Threads : aworker' = t /\ audio' = [audio EXCEPT ![t] = "loop"]
           \/ mic' = FALSE /\ UNCHANGED <<aworker, audio>>
    BY <1>5 DEF StartAudio, Free, Step, Go
  <2>2. Guarded(todo', NeedsNoAudio, "joinAudio")
    BY <2>1, <1>t, <1>0, OpenersLast DEF Openers
  <2> HIDE DEF h
  <2>3. NoAudio /\ On /\ aencoder = "on"
    BY <2>1, <1>r, <1>o DEF NeedsNoAudio, NeedsOn, Matched
  <2>4. ~paused
    BY <2>1, <1>r, <1>o DEF Halted
  <2>5. Known'
    BY <2>1, <2>3, <1>o, <1>t, <1>z DEF Known, NoAudio, isEnabled, codecs, TypeOK
  <2>6. Matched' /\ crash' # "released"
    BY <2>1, <1>o DEF Matched, On, encVars, codecs
  <2>7. /\ (NoVideo' <=> NoVideo) /\ (On' <=> On) /\ (Off' <=> Off)
    BY <2>1 DEF NoVideo, On, Off, encVars, codecs
  <2>8. Prepared'
    BY <2>1, <2>2, <2>7, <1>a, <1>o DEF Prepared
  <2>9. Labelled' /\ Halted'
    BY <2>1, <2>4, <2>7, <1>a, <1>o DEF Labelled, Halted, buttons
  <2> QED
    BY <2>5, <2>6, <2>8, <2>9 DEF Orderly
<1>6. CASE Start
  <2>1. h = "start"
    BY <1>6 DEF Start, Step
  <2>2. /\ scaled' = vOut
        /\ UNCHANGED <<rotated, buttons, vOut, useSoftEncoder, view, threads, mic, crash, paused, stray>>
    BY <1>6 DEF Start, SetEncoderResolution
  <2>3. PICK ok \in BOOLEAN :
          /\ IF ok THEN todo' = Tail(todo) /\ aencoder' = "on" /\ vencoder' = vOut
             ELSE todo' = SubSeq(todo, 4, Len(todo)) /\ aencoder' \in {aencoder, "made"} /\ vencoder' = vencoder
          /\ ok /\ useSoftEncoder => canSoftEncode'
          /\ IF useSoftEncoder
             THEN canSoftEncode' \in BOOLEAN /\ x264' = IF canSoftEncode' THEN vOut ELSE NoSize
             ELSE UNCHANGED <<x264, canSoftEncode>>
    <3>1. PICK soft \in BOOLEAN, acodec \in BOOLEAN, vcodec \in BOOLEAN :
            LET made == useSoftEncoder => soft IN
            /\ IF useSoftEncoder
               THEN OpenSoftEncoder(vOut, soft) /\ canSoftEncode' = soft
               ELSE UNCHANGED <<global_nal_header, es, x264, canSoftEncode>>
            /\ aencoder' = CASE made /\ acodec /\ vcodec -> "on"
                             [] made /\ acodec /\ ~vcodec -> "made"
                             [] OTHER -> aencoder
            /\ vencoder' = IF made /\ acodec /\ vcodec THEN vOut ELSE vencoder
            /\ todo' = IF made /\ acodec /\ vcodec THEN Tail(todo) ELSE SubSeq(todo, 4, Len(todo))
      BY <1>6 DEF Start
    <3> DEFINE all == (useSoftEncoder => soft) /\ acodec /\ vcodec
    <3>2. all \in BOOLEAN
      OBVIOUS
    <3>3. /\ IF all THEN todo' = Tail(todo) /\ aencoder' = "on" /\ vencoder' = vOut
             ELSE todo' = SubSeq(todo, 4, Len(todo)) /\ aencoder' \in {aencoder, "made"} /\ vencoder' = vencoder
          /\ all /\ useSoftEncoder => canSoftEncode'
          /\ IF useSoftEncoder
             THEN canSoftEncode' \in BOOLEAN /\ x264' = IF canSoftEncode' THEN vOut ELSE NoSize
             ELSE UNCHANGED <<x264, canSoftEncode>>
      BY <3>1 DEF OpenSoftEncoder
    <3> HIDE DEF all
    <3> QED
      BY <3>2, <3>3
  <2>4. NoVideo /\ NoAudio /\ Off
    BY <2>1, <1>r DEF NeedsNoVideo, NeedsNoAudio, NeedsOff
  <2>5. vOut # NoSize
    BY <1>t, <1>n DEF TypeOK
  <2>6. NoVideo' /\ NoAudio'
    BY <2>2, <2>4 DEF NoVideo, NoAudio, threads
  <2>7. Guarded(todo', NeedsOff, "stop")
    <3>1. CASE ok
      BY <3>1, <2>1, <2>3, <1>t, <1>0, OpenersLast DEF Openers
    <3>2. CASE ~ok
      <4>1. todo' = SubSeq(todo, 4, Len(todo))
        BY <3>2, <2>3
      <4>2. \A i \in 1..Len(todo') : todo'[i] = "startCamera"
        BY <4>1, <2>1, <1>t, <1>0, StartSkips
      <4> QED
        BY <4>2 DEF Guarded, NeedsOff
    <3> QED
      BY <3>1, <3>2
  <2>8. On' \/ Guarded(todo', NeedsOn, "start")
    <3>1. CASE ok
      BY <3>1, <2>3, <2>5 DEF On
    <3>2. CASE ~ok
      <4>1. todo' = SubSeq(todo, 4, Len(todo))
        BY <3>2, <2>3
      <4>2. \A i \in 1..Len(todo') : todo'[i] = "startCamera"
        BY <4>1, <2>1, <1>t, <1>0, StartSkips
      <4> QED
        BY <4>2 DEF Guarded, NeedsOn
    <3> QED
      BY <3>1, <3>2
  <2> HIDE DEF h
  <2>9. Prepared'
    BY <2>6, <2>7, <2>8 DEF Prepared
  <2>10. Known'
    BY <2>2, <2>4, <2>6, <1>o DEF Known, NoVideo, NoAudio, threads
  <2>11. Matched'
    BY <2>2, <2>3, <2>4, <2>5 DEF Matched, On, Off
  <2>12. Labelled'
    BY <2>1, <2>2, <1>r, <1>o DEF Labelled, buttons
  <2>13. Halted'
    BY <2>1, <2>2, <1>r, <1>o DEF Halted
  <2> QED
    BY <2>2, <2>9, <2>10, <2>11, <2>12, <2>13, <1>o DEF Orderly
<1>7. CASE Stop
  <2>1. /\ todo' = Tail(todo) /\ h = "stop" /\ aencoder' = "null" /\ vencoder' = NoSize
        /\ IF useSoftEncoder THEN x264' = NoSize /\ canSoftEncode' = FALSE
           ELSE UNCHANGED <<x264, canSoftEncode>>
        /\ UNCHANGED <<buttons, useSoftEncoder, threads, mic, crash, paused>>
    BY <1>7 DEF Stop, Step, Go, CloseSoftEncoder
  <2> HIDE DEF h
  <2>2. NoVideo /\ NoAudio
    BY <2>1, <1>r DEF NeedsNoVideo, NeedsNoAudio
  <2>3. NoVideo' /\ NoAudio'
    BY <2>1, <2>2 DEF NoVideo, NoAudio, threads
  <2>4. Off'
    BY <2>1, <1>o DEF Off, Matched
  <2>5. Guarded(todo', NeedsOn, "start")
    BY <2>1, <1>a, <1>r, <1>t DEF Plan
  <2>6. Prepared'
    BY <2>3, <2>4, <2>5 DEF Prepared
  <2>7. Known'
    BY <2>1, <2>2, <2>3, <1>o DEF Known, NoVideo, NoAudio, threads
  <2>8. Matched'
    BY <2>4 DEF Matched, On, Off
  <2>9. Labelled' /\ Halted'
    BY <2>1, <2>3, <2>4, <1>a, <1>o DEF Labelled, Halted, Off, isEnabled, buttons
  <2> QED
    BY <2>1, <2>6, <2>7, <2>8, <2>9, <1>o DEF Orderly
<1>8. CASE SetScreenOrientation
  <2>1. /\ todo' = Tail(todo) /\ h = "setScreenOrientation"
        /\ UNCHANGED <<x264, buttons, useSoftEncoder, canSoftEncode, aencoder, vencoder, threads, mic, crash, paused>>
    BY <1>8 DEF SetScreenOrientation, Step, Go
  <2> HIDE DEF h
  <2>2. NoVideo /\ NoAudio /\ Off
    BY <2>1, <1>r DEF NeedsNoVideo, NeedsNoAudio, NeedsOff
  <2>3. NoVideo' /\ NoAudio' /\ Off' /\ (On' <=> On) /\ (isEnabled' <=> isEnabled)
    BY <2>1, <2>2 DEF NoVideo, NoAudio, Off, On, isEnabled, threads
  <2>4. Prepared'
    BY <2>1, <2>3, <1>a, <1>o DEF Prepared
  <2>5. Known'
    BY <2>1, <2>2, <1>o DEF Known, NoVideo, NoAudio, threads
  <2>6. Matched'
    BY <2>3 DEF Matched, On, Off
  <2>7. Labelled' /\ Halted'
    BY <2>1, <2>3, <1>a, <1>o DEF Labelled, Halted, buttons
  <2> QED
    BY <2>1, <2>4, <2>5, <2>6, <2>7, <1>o DEF Orderly
<1> QED
  BY <1>1, <1>2, <1>3, <1>4, <1>5, <1>6, <1>7, <1>8 DEF Main

(* The threads find their encoders, and leave the order of the rest alone.   *)
LEMMA ThreadsOrderly ==
  ASSUME IndInv, ~stray,
         DrawFrame \/ AddPicture \/ (\E t \in Threads : Video(t) \/ Audio(t)) \/ UNCHANGED vars
  PROVE  Orderly'
<1>t. TypeOK
  BY DEF IndInv
<1>o. Prepared /\ Known /\ Matched /\ Labelled /\ Halted /\ crash # "released"
  BY DEF IndInv, Orderly
<1>z. 0 \notin Threads
  BY PublisherAssumption
<1>1. ASSUME UNCHANGED <<scaled, x264, buttons, todo, codecs, worker, aworker, mic, paused>>
      PROVE  /\ Matched' /\ (On' <=> On) /\ (Off' <=> Off) /\ (isEnabled' <=> isEnabled)
             /\ Labelled'
             /\ (NoVideo' <=> NoVideo) /\ (NoAudio' <=> NoAudio) => Prepared' /\ Halted'
  BY <1>1, <1>o DEF Matched, On, Off, isEnabled, Labelled, Prepared, Halted, buttons, codecs
<1>2. CASE DrawFrame \/ AddPicture \/ UNCHANGED vars
  <2>1. UNCHANGED <<scaled, x264, buttons, todo, codecs, worker, aworker, video, audio, mic, crash, paused>>
    BY <1>2 DEF DrawFrame, AddPicture, vars, encVars, threads
  <2>2. Known' /\ (NoVideo' <=> NoVideo) /\ (NoAudio' <=> NoAudio)
    BY <2>1, <1>o DEF Known, NoVideo, NoAudio, isEnabled, codecs
  <2> QED
    BY <2>1, <2>2, <1>1, <1>o DEF Orderly
<1>3. ASSUME NEW t \in Threads, Video(t) PROVE Orderly'
  <2>1. /\ UNCHANGED <<scaled, x264, buttons, todo, codecs, worker, aworker, audio, mic, paused>>
        /\ video[t] # "none"
    BY <1>3 DEF Video, Loop, IsEmpty, Poll, OnGetRgbaFrame, Soft, Hard, Wait, At, encVars
  <2>2. t = worker /\ worker # 0 /\ ~NoVideo /\ isEnabled
    BY <2>1, <1>o, <1>z DEF Known, NoVideo
  <2>3. /\ useSoftEncoder => x264 # NoSize
        /\ ~useSoftEncoder => vencoder # NoSize
    BY <2>2, <1>o DEF Matched, isEnabled, On
  <2>4. \E pc \in {"loop", "empty", "poll", "frame", "soft", "hard", "wait", "done"} :
          /\ video' = [video EXCEPT ![t] = pc]
          /\ (pc = "soft" => useSoftEncoder) /\ (pc = "hard" => ~useSoftEncoder)
    BY <1>3 DEF Video, Loop, IsEmpty, Poll, OnGetRgbaFrame, Soft, Hard, Wait, VideoTo
  <2>5. crash' # "released"
    <3>1. CASE Soft(t)
      BY <3>1, <2>3, <1>o DEF Soft, At, Known
    <3>2. CASE Hard(t)
      BY <3>2, <2>3, <1>o DEF Hard, At, Known
    <3> QED
      BY <1>3, <3>1, <3>2, <1>o DEF Video, Loop, IsEmpty, Poll, OnGetRgbaFrame, Wait
  <2>6. Known' /\ ~NoVideo'
    BY <2>1, <2>2, <2>4, <1>o, <1>t DEF Known, NoVideo, isEnabled, codecs, TypeOK
  <2>7. NoAudio' <=> NoAudio
    BY <2>1 DEF NoAudio
  <2> QED
    BY <2>1, <2>2, <2>5, <2>6, <2>7, <1>1 DEF Orderly
<1>4. ASSUME NEW t \in Threads, Audio(t) PROVE Orderly'
  <2>1. /\ UNCHANGED <<scaled, x264, buttons, todo, codecs, worker, aworker, video, mic, paused>>
        /\ audio[t] # "none"
        /\ \E pc \in {"loop", "pcm", "done"} : audio' = [audio EXCEPT ![t] = pc]
    BY <1>4 DEF Audio, ReadMic, OnGetPcmFrame, AudioTo, encVars
  <2>2. t = aworker /\ aworker # 0 /\ ~NoAudio /\ aencoder = "on"
    BY <2>1, <1>o, <1>z DEF Known, NoAudio
  <2>3. crash' # "released"
    BY <1>4, <2>2, <1>o DEF Audio, ReadMic, OnGetPcmFrame
  <2>4. Known' /\ ~NoAudio'
    BY <2>1, <2>2, <1>o, <1>t DEF Known, NoAudio, isEnabled, codecs, TypeOK
  <2>5. NoVideo' <=> NoVideo
    BY <2>1 DEF NoVideo
  <2> QED
    BY <2>1, <2>2, <2>3, <2>4, <2>5, <1>1 DEF Orderly
<1> QED
  BY <1>2, <1>3, <1>4

-------------------------------------------------------------------------------
(* The inductive invariant.                                                 *)
LEMMA IndInvAlways == Spec => []IndInv
<1>1. Init => IndInv
  <2> SUFFICES ASSUME Init PROVE IndInv
    OBVIOUS
  <2>1. TypeOK
    <3>1. EncTypeOK
      BY DEF Init, EncInit, EncTypeOK
    <3>2. todo \in Seq(Steps) /\ pictures \in 0..MaxPictures /\ clicks \in 0..MaxClicks
      BY PublisherAssumption DEF Init
    <3> QED
      BY <3>1, <3>2 DEF Init, TypeOK
  <2>2. Room
    <3>1. rotated.y_size = 0 /\ rotated.bytes = 0 /\ Area(rotated.size) = 0
      BY DEF Init, EncInit, Area, NoSize
    <3> QED
      BY <3>1 DEF Room
  <2>3. Plan(todo) /\ \A x : ~Has(todo, x)
    BY DEF Init, Plan, Has
  <2>4. NoVideo /\ NoAudio /\ Off /\ Guarded(todo, NeedsOn, "start")
    BY DEF Init, EncInit, NoVideo, NoAudio, Off, Guarded
  <2>5. Known /\ Matched
    BY <2>4 DEF Init, Known, Matched, NoVideo, NoAudio, Off, On, isEnabled
  <2>6. Orderly
    BY <2>3, <2>4, <2>5 DEF Init, Orderly, Prepared, Labelled, Halted
  <2> QED
    BY <2>1, <2>2, <2>3, <2>6 DEF IndInv
<1>2. IndInv /\ [Next]_vars => IndInv'
  <2> SUFFICES ASSUME IndInv, [Next]_vars PROVE IndInv'
    OBVIOUS
  <2>1. TypeOK' /\ Room' /\ Plan(todo)'
    BY TypeStep, PlanStep DEF IndInv
  <2>2. ASSUME ~stray' PROVE Orderly'
    <3>1. CASE Click
      BY <3>1, <2>2, ClickOrderly
    <3>2. CASE Main
      <4>1. ~stray
        BY <3>2, <2>2 DEF Main, InterruptAudio, JoinAudio, InterruptVideo, JoinVideo, Camera,
             EnableEncoding, StayDisabled, StartAudio, Start, Stop, SetScreenOrientation
      <4> QED
        BY <3>2, <4>1, MainOrderly
    <3>3. CASE DrawFrame \/ AddPicture \/ (\E t \in Threads : Video(t) \/ Audio(t)) \/ UNCHANGED vars
      <4>1. ~stray
        BY <3>3, <2>2 DEF DrawFrame, AddPicture, Video, Audio, Loop, IsEmpty, Poll, OnGetRgbaFrame, Soft, Hard,
             Wait, ReadMic, OnGetPcmFrame, vars
      <4> QED
        BY <3>3, <4>1, ThreadsOrderly
    <3> QED
      BY <3>1, <3>2, <3>3 DEF Next
  <2> QED
    BY <2>1, <2>2 DEF IndInv
<1> QED
  BY <1>1, <1>2, PTL DEF Spec

(* Every field of the publisher, of the camera view and of libenc keeps its  *)
(* type.                                                                    *)
THEOREM TypeCorrect == Spec => []TypeOK
<1>1. IndInv => TypeOK
  BY DEF IndInv
<1> QED
  BY <1>1, IndInvAlways, PTL

(* stopEncode(), startEncode() and setScreenOrientation() never run while a  *)
(* thread of SrsCameraView is inside RGBASoftEncode() or RGBAToI420(), and   *)
(* no two threads are inside at once, in whatever order clicks, rotations,   *)
(* camera switches and errors come.                                         *)
THEOREM NativeCodeExclusive == Spec => []NativeExclusive
<1>1. IndInv => NativeExclusive
  <2> SUFFICES ASSUME IndInv, InEncoder # {}, ~stray PROVE
                 /\ Cardinality(InEncoder) = 1
                 /\ todo # <<>> => Head(todo) \notin {"start", "stop", "setScreenOrientation"}
    BY DEF NativeExclusive
  <2>1. Prepared /\ Known /\ Plan(todo)
    BY DEF IndInv, Orderly
  <2>2. InEncoder = {worker} /\ ~NoVideo
    BY <2>1 DEF InEncoder, Known, NoVideo
  <2>3. Cardinality(InEncoder) = 1
    BY <2>2, FS_Singleton
  <2> QED
    BY <2>1, <2>2, <2>3, StepReady DEF NeedsNoVideo
<1> QED
  BY <1>1, IndInvAlways, PTL

(* A picture in onGetRgbaFrame() is scaled to the size that the encoder it   *)
(* goes to was opened with, across rotations and changes of the encoder.     *)
THEOREM PicturesFit == Spec => []PictureFits
<1>1. IndInv => PictureFits
  <2> SUFFICES ASSUME IndInv, ~stray, NEW t \in Threads PROVE
                 /\ video[t] = "soft" => x264 = scaled
                 /\ video[t] = "hard" => vencoder = scaled
    BY DEF PictureFits
  <2>1. Known /\ Matched /\ 0 \notin Threads
    BY PublisherAssumption DEF IndInv, Orderly
  <2> QED
    BY <2>1 DEF Known, Matched, On, isEnabled
<1> QED
  BY <1>1, IndInvAlways, PTL

(* RGBASoftEncode(), onProcessedYuvFrame() and onGetPcmFrame() never meet an *)
(* encoder that stop() released or start() failed to make.                  *)
THEOREM EncodersThere == Spec => []EncoderThere
<1>1. IndInv => EncoderThere
  BY DEF IndInv, TypeOK, Orderly, EncoderThere
<1> QED
  BY <1>1, IndInvAlways, PTL

(* After stopPublish(), or handleException(), no thread, codec, soft encoder *)
(* or microphone is left, and no later handler brings one back.             *)
THEOREM QuietAfterStop == Spec => []Quiet
<1>1. IndInv => Quiet
  <2> SUFFICES ASSUME IndInv, todo = <<>>, btnPublish = "publish", ~stray PROVE
                 /\ Alive(video) = {} /\ Alive(audio) = {}
                 /\ x264 = NoSize /\ vencoder = NoSize /\ aencoder = "null" /\ ~mic
    BY DEF Quiet
  <2>1. Known /\ Labelled /\ 0 \notin Threads
    BY PublisherAssumption DEF IndInv, Orderly
  <2>2. ~Has(todo, "stop")
    BY DEF Has
  <2>3. Off
    BY <2>1, <2>2 DEF Labelled
  <2>4. worker = 0 /\ aworker = 0
    BY <2>1, <2>3 DEF Known, Off, isEnabled
  <2> QED
    BY <2>1, <2>3, <2>4 DEF Known, Off, Alive
<1> QED
  BY <1>1, IndInvAlways, PTL
===============================================================================
