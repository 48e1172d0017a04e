-------------------------------- MODULE LibEnc --------------------------------
(***************************************************************************)
(* library/src/main/cpp/libenc/libenc.cc: the static frame buffers and the *)
(* x264 encoder behind the native methods of SrsEncoder.                   *)
(*                                                                         *)
(* A picture is its size <<width, height>>.  i420_scaled_frame, nv12_frame *)
(* and the size in x264_ctx change together, in setEncoderResolution()     *)
(* alone, so that one variable stands for the three.  Of the pixels, bit   *)
(* rates and presets nothing is kept, of libyuv only when a call fails.    *)
(***************************************************************************)
EXTENDS Integers

CONSTANTS Lengths         \* the widths and heights of sources, boxes and outputs

(* Planes of odd sizes have no room for the last column or line of u and v; *)
(* every size the repository uses is even.                                  *)
ASSUME LengthsAssumption ==
  /\ Lengths # {}
  /\ \A n \in Lengths : n \in Nat \ {0} /\ n % 2 = 0

Sizes == Lengths \X Lengths
NoSize == <<0, 0>>        \* a static frame or an encoder that is still null
Area(s) == s[1] * s[2]
Turned(s, rotate_degree) == IF rotate_degree % 180 = 0 THEN s ELSE <<s[2], s[1]>>

VARIABLES
  rotated,                \* i420_rotated_frame: [size, y_size, bytes], of malloc
  scaled,                 \* i420_scaled_frame, nv12_frame, x264_ctx.width and height
  x264,                   \* the size x264_ctx.encoder was opened with
  global_nal_header,
  es                      \* what onSoftEncodedData() got last since the encoder was opened,
                          \* or that x264_encoder_headers() failed

encVars == <<rotated, scaled, x264, global_nal_header, es>>

EncInit ==
  /\ rotated = [size |-> NoSize, y_size |-> 0, bytes |-> 0]
  /\ scaled = NoSize /\ x264 = NoSize /\ global_nal_header = FALSE /\ es = "none"

SetEncoderResolution(out) == scaled' = out

(* I420Scale() fails when it has nowhere to write to. *)
Converted == scaled # NoSize

(* convert_to_i420() *)
ConvertToI420(src, rotate_degree) ==
  LET size == Turned(src, rotate_degree) IN
  rotated' = IF rotated.size # size
             THEN [size |-> size, y_size |-> Area(src), bytes |-> (Area(src) * 4) \div 2]
             ELSE rotated

(* A plausible slip: only the width is compared. *)
CropScaleByWidth(src, box, rotate_degree) ==
  rotated' = [IF rotated.size[1] # Turned(src, rotate_degree)[1]
              THEN [size |-> src, y_size |-> Area(src), bytes |-> (Area(src) * 3) \div 2]
              ELSE rotated
              EXCEPT !.size = Turned(box, rotate_degree)]

(* convert_to_i420_with_crop_scale(): the buffer is allocated for the       *)
(* source, but the frame keeps the size of the box.                         *)
ConvertToI420WithCropScale(src, box, rotate_degree) ==
  rotated' = [IF rotated.size # Turned(src, rotate_degree)
              THEN [size |-> src, y_size |-> Area(src), bytes |-> (Area(src) * 3) \div 2]
              ELSE rotated
              EXCEPT !.size = Turned(box, rotate_degree)]

(* A plausible slip: the encoder opens without asking for its headers. *)
OpenWithoutHeader(size, ok) ==
  /\ x264' = IF ok THEN size ELSE NoSize
  /\ es' = "none"
  /\ UNCHANGED global_nal_header

(* openSoftEncoder() with the size in x264_ctx; x264 may refuse. *)
OpenSoftEncoder(size, ok) ==
  /\ global_nal_header' = TRUE
  /\ x264' = IF ok THEN size ELSE NoSize
  /\ es' = "none"

CloseSoftEncoder == x264' = NoSize

(* RGBASoftEncode() after the conversion: the first call of a stream gives  *)
(* its headers and drops the picture; x264 may fail, or have no output yet. *)
(* The flag is cleared first and the result of x264_encoder_headers() not   *)
(* looked at, so that headers that failed are never asked for again.        *)
SoftEncode ==
  \/ /\ global_nal_header
     /\ global_nal_header' = FALSE /\ es' \in {"header", "failed"}
  \/ /\ ~global_nal_header
     /\ es' \in {es, "frame"}
     /\ UNCHANGED global_nal_header

-------------------------------------------------------------------------------
(* The library alone: SrsEncoder's calls in any order on one thread.  Only   *)
(* openSoftEncoder() and RGBASoftEncode() expect something of the caller,    *)
(* which SrsPublisher.tla shows the publisher to keep.                       *)

(* SrsEncoder turns pictures by nothing or by 180 degrees. *)
Rotations == {0, 180}

Resolution(out) == SetEncoderResolution(out) /\ UNCHANGED <<rotated, x264, global_nal_header, es>>

(* RGBAToI420(), RGBAToNV12(), ARGBToI420() and ARGBToNV12() *)
Convert(src, rotate_degree) ==
  ConvertToI420(src, rotate_degree) /\ UNCHANGED <<scaled, x264, global_nal_header, es>>

(* ARGBToI420Scaled(), ARGBToNV12Scaled(), NV21ToI420Scaled() and           *)
(* NV21ToNV12Scaled(), with a box inside the picture                        *)
ConvertScaled(src, box, rotate_degree) ==
  /\ box[1] <= src[1] /\ box[2] <= src[2]
  /\ ConvertToI420WithCropScale(src, box, rotate_degree)
  /\ UNCHANGED <<scaled, x264, global_nal_header, es>>

Open ==
  /\ Converted /\ x264 = NoSize
  /\ \E ok \in BOOLEAN : OpenSoftEncoder(scaled, ok)
  /\ UNCHANGED <<rotated, scaled>>

RGBASoftEncode(src) ==
  /\ x264 # NoSize
  /\ ConvertToI420(src, 180)
  /\ SoftEncode
  /\ UNCHANGED <<scaled, x264>>

Close == CloseSoftEncoder /\ UNCHANGED <<rotated, scaled, global_nal_header, es>>

EncNext ==
  \/ \E s \in Sizes : Resolution(s) \/ RGBASoftEncode(s)
  \/ \E s \in Sizes, r \in Rotations : Convert(s, r) \/ \E b \in Sizes : ConvertScaled(s, b, r)
  \/ Open
  \/ Close

EncSpec == EncInit /\ [][EncNext]_encVars

-------------------------------------------------------------------------------
(* The types of the variables. *)
EncTypeOK ==
  /\ rotated \in [size : Sizes \cup {NoSize}, y_size : Nat, bytes : Nat]
  /\ scaled \in Sizes \cup {NoSize} /\ x264 \in Sizes \cup {NoSize}
  /\ global_nal_header \in BOOLEAN /\ es \in {"none", "header", "failed", "frame"}

(* Whatever calls came before, with whatever sizes and boxes, the planes     *)
(* that the last conversion wrote lie inside the buffer that some earlier    *)
(* conversion allocated, and do not overlap: y before u before v.            *)
WithinBuffer ==
  LET u == (rotated.size[1] \div 2) * (rotated.size[2] \div 2) IN
  /\ Area(rotated.size) <= rotated.y_size
  /\ u <= rotated.y_size \div 4
  /\ rotated.y_size + rotated.y_size \div 4 + u <= rotated.bytes

(* No frame comes out of an encoder before the SPS and the PPS, or before    *)
(* the one call that asks x264 for them has failed: whichever of the other   *)
(* calls failed, and however encoders were opened and closed before.         *)
HeaderFirst == [][es' = "frame" => es \in {"header", "failed", "frame"}]_encVars
===============================================================================
