----------------------------- MODULE SrsPublisher -----------------------------
(***************************************************************************)
(* SrsPublisher.java with SrsEncoder.java and the encoding thread of       *)
(* SrsCameraView.java, over LibEnc, as the buttons and the callbacks of    *)
(* app's MainActivity drive them.                                          *)
(*                                                                         *)
(* The main thread runs one handler at a time: a handler is the sequence   *)
(* todo of the steps it still has to make, two of which wait for another   *)
(* thread.  The GL thread offers pictures, the worker of the camera view   *)
(* encodes them, and aworker encodes what the microphone gives.            *)
(*                                                                         *)
(* Left out: the time stamps, the muxers behind the encoders (see          *)
(* SrsFlvMuxer.tla), recording, filters, and the camera's own settings.    *)
(***************************************************************************)
EXTENDS LibEnc, Sequences, FiniteSets

CONSTANTS
  Threads,        \* bound: the threads of one kind that are alive at once
  MaxPictures,    \* bound: pictures in mGLIntBufferCache
  MaxClicks       \* bound: handlers the main thread runs

ASSUME PublisherAssumption ==
  /\ Threads \subseteq Nat \ {0} /\ MaxPictures \in Nat \ {0} /\ MaxClicks \in Nat
  /\ {2, 4} \subseteq Lengths

Preview == <<4, 2>>       \* setPreviewResolution(), with a wide picture
Portrait == <<2, 4>>      \* setOutputResolution()
Landscape == <<4, 2>>

VARIABLES
  btnPublish, btnPause,   \* what the two buttons say
  pauseEnabled, swEncEnabled,
  todo,                   \* the rest of the handler the main thread runs
  vOut,                   \* vOutWidth and vOutHeight
  useSoftEncoder, canSoftEncode,
  aencoder,               \* "null", "made" (but not started) or "on"
  vencoder,               \* NoSize for null, or the size it was configured with
  mCamera, mIsEncoding,
  pictures,               \* the length of mGLIntBufferCache
  gl,                     \* the GL thread has found mIsEncoding set
  worker, aworker,        \* the fields: a thread, or 0 for null
  video, audio,           \* where each thread is
  interrupted,            \* the video threads, and apart from them the audio threads
  mic,
  crash,                  \* why the process ended
  clicks,
  paused,                 \* pausePublish() is in effect
  stray                   \* encoding was resumed, or went on, when it should not

buttons == <<btnPublish, btnPause, pauseEnabled, swEncEnabled, clicks>>
codecs == <<vOut, useSoftEncoder, canSoftEncode, aencoder, vencoder>>
view == <<mCamera, mIsEncoding, pictures, gl>>
threads == <<worker, aworker, video, audio, interrupted>>
vars == <<encVars, buttons, todo, codecs, view, threads, mic, crash, paused, stray>>

Init ==
  /\ EncInit
  /\ btnPublish = "publish" /\ btnPause = "pause" /\ pauseEnabled = FALSE /\ swEncEnabled = TRUE
  /\ todo = <<>> /\ vOut = Portrait
  /\ useSoftEncoder = FALSE /\ canSoftEncode = FALSE
  /\ aencoder = "null" /\ vencoder = NoSize
  /\ mCamera = TRUE /\ mIsEncoding = FALSE /\ pictures = 0 /\ gl = FALSE
  /\ worker = 0 /\ aworker = 0
  /\ video = [t \in Threads |-> "none"] /\ audio = [t \in Threads |-> "none"]
  /\ interrupted = [video |-> {}, audio |-> {}]
  /\ mic = FALSE /\ crash = "none" /\ clicks = 0 /\ paused = FALSE /\ stray = FALSE

Up == crash = "none"
Alive(kind) == {t \in Threads : kind[t] \notin {"none", "done"}}
Free(kind) == {t \in Threads : kind[t] = "none" /\ \A u \in Threads : u < t => kind[u] # "none"}
isEnabled == vencoder # NoSize \/ canSoftEncode

-------------------------------------------------------------------------------
(* The handlers of the main thread, as sequences of its steps *)

stopAudio == <<"interruptAudio", "joinAudio">>
disableEncoding == <<"interruptVideo", "joinVideo">>

(* A plausible slip: the microphone is opened before the encoder. *)
startAudioFirst == <<"startAudio", "start", "enableEncoding">>

startEncode == <<"start", "enableEncoding", "startAudio">>

(* A plausible slip: the camera and its worker are stopped last. *)
stopCameraLast == stopAudio \o <<"stop">> \o disableEncoding \o <<"releaseCamera">>

stopEncode == stopAudio \o disableEncoding \o <<"releaseCamera", "stop">>

Handler(steps) ==
  /\ Up /\ todo = <<>> /\ clicks < MaxClicks
  /\ todo' = steps
  /\ clicks' = clicks + 1
  /\ UNCHANGED <<encVars, codecs, view, threads, mic, crash>>

(* btnPublish: startPublish() and startCamera(), or stopPublish() *)
ClickPublish ==
  /\ btnPublish = "publish"
  /\ Handler(startEncode \o <<"startCamera">>)
  /\ btnPublish' = "stop" /\ swEncEnabled' = FALSE /\ pauseEnabled' = TRUE /\ paused' = FALSE
  /\ UNCHANGED <<btnPause, stray>>

ClickStop ==
  /\ btnPublish = "stop"
  /\ Handler(stopEncode)
  /\ btnPublish' = "publish" /\ swEncEnabled' = TRUE /\ pauseEnabled' = FALSE /\ paused' = FALSE
  /\ UNCHANGED <<btnPause, stray>>

(* handleException(): a muxer reported an error, perhaps of a session that   *)
(* is over.  btnPause stays enabled.                                        *)
HandleException ==
  /\ Handler(stopEncode)
  /\ btnPublish' = "publish" /\ swEncEnabled' = TRUE /\ paused' = FALSE
  /\ UNCHANGED <<btnPause, pauseEnabled, stray>>

(* btnPause: pausePublish(), or resumePublish(), whatever is paused *)
ClickPause ==
  /\ pauseEnabled /\ btnPause = "pause"
  /\ Handler(stopAudio \o disableEncoding)
  /\ btnPause' = "resume" /\ paused' = TRUE
  /\ UNCHANGED <<btnPublish, pauseEnabled, swEncEnabled, stray>>

ClickResume ==
  /\ pauseEnabled /\ btnPause = "resume"
  /\ Handler(<<"startAudio", "enableEncoding">>)
  /\ btnPause' = "pause" /\ paused' = FALSE
  /\ stray' = (stray \/ ~paused \/ vencoder = NoSize)
  /\ UNCHANGED <<btnPublish, pauseEnabled, swEncEnabled>>

(* switchCameraFace() *)
ClickCamera ==
  /\ Handler(disableEncoding \o <<"releaseCamera", "enableIfEnabled", "startCamera">>)
  /\ stray' = (stray \/ (paused /\ isEnabled))
  /\ UNCHANGED <<btnPublish, btnPause, pauseEnabled, swEncEnabled, paused>>

(* btnSwitchEncoder: switchToSoftEncoder() or switchToHardEncoder() *)
ClickEncoder ==
  /\ Up /\ todo = <<>> /\ clicks < MaxClicks /\ swEncEnabled
  /\ useSoftEncoder' = ~useSoftEncoder
  /\ clicks' = clicks + 1
  /\ UNCHANGED <<encVars, btnPublish, btnPause, pauseEnabled, swEncEnabled, todo, vOut, canSoftEncode,
                 aencoder, vencoder, view, threads, mic, crash, paused, stray>>

(* A plausible slip: the new orientation is set after the restart. *)
RotateLate ==
  /\ Handler(stopEncode \o (IF btnPublish = "stop" THEN startEncode ELSE <<>>)
             \o <<"setScreenOrientation", "startCamera">>)
  /\ paused' = FALSE
  /\ UNCHANGED <<btnPublish, btnPause, pauseEnabled, swEncEnabled, stray>>

(* onConfigurationChanged() *)
Rotate ==
  /\ Handler(stopEncode \o <<"setScreenOrientation">>
             \o (IF btnPublish = "stop" THEN startEncode ELSE <<>>) \o <<"startCamera">>)
  /\ paused' = FALSE
  /\ UNCHANGED <<btnPublish, btnPause, pauseEnabled, swEncEnabled, stray>>

(* Camera.ErrorCallback: stopCamera() *)
CameraError ==
  /\ mCamera
  /\ Handler(disableEncoding \o <<"releaseCamera">>)
  /\ UNCHANGED <<btnPublish, btnPause, pauseEnabled, swEncEnabled, paused, stray>>

(* onStart() *)
OnStart ==
  /\ ~mCamera
  /\ Handler(<<"startCamera">>)
  /\ UNCHANGED <<btnPublish, btnPause, pauseEnabled, swEncEnabled, paused, stray>>

-------------------------------------------------------------------------------
(* The steps of the main thread *)

Step(s) == Up /\ todo # <<>> /\ Head(todo) = s
Go == todo' = Tail(todo)

InterruptAudio ==
  /\ Step("interruptAudio") /\ Go
  /\ interrupted' = [interrupted EXCEPT !.audio = @ \cup ({aworker} \ {0})]
  /\ UNCHANGED <<encVars, buttons, codecs, view, worker, aworker, video, audio, mic, crash, paused, stray>>

(* aworker.join(), then the microphone is released *)
JoinAudio ==
  /\ Step("joinAudio") /\ Go
  /\ aworker # 0 => audio[aworker] = "done"
  /\ audio' = [t \in Threads |-> IF t = aworker THEN "none" ELSE audio[t]]
  /\ interrupted' = [interrupted EXCEPT !.audio = @ \ {aworker}]
  /\ aworker' = 0 /\ mic' = FALSE
  /\ UNCHANGED <<encVars, buttons, codecs, view, worker, video, crash, paused, stray>>

(* disableEncoding() up to the join *)
InterruptVideo ==
  /\ Step("interruptVideo") /\ Go
  /\ mIsEncoding' = FALSE /\ pictures' = 0
  /\ interrupted' = [interrupted EXCEPT !.video = @ \cup ({worker} \ {0})]
  /\ UNCHANGED <<encVars, buttons, codecs, mCamera, gl, worker, aworker, video, audio, mic, crash, paused, stray>>

JoinVideo ==
  /\ Step("joinVideo") /\ Go
  /\ worker # 0 => video[worker] = "done"
  /\ video' = [t \in Threads |-> IF t = worker THEN "none" ELSE video[t]]
  /\ interrupted' = [interrupted EXCEPT !.video = @ \ {worker}]
  /\ worker' = 0
  /\ UNCHANGED <<encVars, buttons, codecs, view, aworker, audio, mic, crash, paused, stray>>

(* The end of stopCamera(), and startCamera(), which may not get the camera *)
Camera ==
  /\ \/ Step("releaseCamera") /\ mCamera' = FALSE
     \/ Step("startCamera") /\ mCamera' \in {mCamera, TRUE}
  /\ Go
  /\ UNCHANGED <<encVars, buttons, codecs, mIsEncoding, pictures, gl, threads, mic, crash, paused, stray>>

(* enableEncoding(); a thread that still runs is forgotten *)
EnableEncoding ==
  /\ \/ Step("enableEncoding")
     \/ Step("enableIfEnabled") /\ isEnabled
  /\ \E t \in Free(video) :
       /\ worker' = t /\ video' = [video EXCEPT ![t] = "loop"]
  /\ mIsEncoding' = TRUE /\ Go
  /\ UNCHANGED <<encVars, buttons, codecs, mCamera, pictures, gl, aworker, audio, interrupted, mic, crash,
                 paused, stray>>

StayDisabled ==
  /\ Step("enableIfEnabled") /\ ~isEnabled /\ Go
  /\ UNCHANGED <<encVars, buttons, codecs, view, threads, mic, crash, paused, stray>>

(* startAudio(): without a microphone there is no thread *)
StartAudio ==
  /\ Step("startAudio") /\ Go
  /\ \/ /\ \E t \in Free(audio) :
             /\ aworker' = t /\ audio' = [audio EXCEPT ![t] = "loop"]
        /\ mic' = TRUE
     \/ mic' = FALSE /\ UNCHANGED <<aworker, audio>>
  /\ UNCHANGED <<encVars, buttons, codecs, view, worker, video, interrupted, crash, paused, stray>>

(* SrsEncoder.start(): it can fail at the soft encoder, at the audio codec  *)
(* and at the video codec, and keeps what it has made until then;           *)
(* startEncode() then starts no thread.                                     *)
Start ==
  /\ Step("start")
  /\ SetEncoderResolution(vOut)
  /\ \E soft, acodec, vcodec \in BOOLEAN :
       LET made == useSoftEncoder => soft IN
       /\ IF useSoftEncoder
          THEN OpenSoftEncoder(vOut, soft) /\ canSoftEncode' = soft
          ELSE UNCHANGED <<global_nal_header, es, x264, canSoftEncode>>
       /\ aencoder' = CASE made /\ acodec /\ vcodec -> "on"
                        [] made /\ acodec /\ ~vcodec -> "made"
                        [] OTHER -> aencoder
       /\ vencoder' = IF made /\ acodec /\ vcodec THEN vOut ELSE vencoder
       /\ todo' = IF made /\ acodec /\ vcodec THEN Tail(todo) ELSE SubSeq(todo, 4, Len(todo))
  /\ UNCHANGED <<rotated, buttons, vOut, useSoftEncoder, view, threads, mic, crash, paused, stray>>

(* A plausible slip: the encoder is closed, but still counts as usable. *)
StopKeepsFlag ==
  /\ Step("stop") /\ Go
  /\ IF useSoftEncoder THEN CloseSoftEncoder ELSE UNCHANGED x264
  /\ aencoder' = "null" /\ vencoder' = NoSize
  /\ UNCHANGED <<rotated, scaled, global_nal_header, es, buttons, vOut, useSoftEncoder, canSoftEncode, view, threads, mic,
                 crash, paused, stray>>

(* SrsEncoder.stop() *)
Stop ==
  /\ Step("stop") /\ Go
  /\ IF useSoftEncoder
     THEN CloseSoftEncoder /\ canSoftEncode' = FALSE
     ELSE UNCHANGED <<x264, canSoftEncode>>
  /\ aencoder' = "null" /\ vencoder' = NoSize
  /\ UNCHANGED <<rotated, scaled, global_nal_header, es, buttons, vOut, useSoftEncoder, view, threads, mic,
                 crash, paused, stray>>

(* SrsEncoder.setScreenOrientation() *)
SetScreenOrientation ==
  /\ Step("setScreenOrientation") /\ Go
  /\ vOut' \in {Portrait, Landscape}
  /\ SetEncoderResolution(vOut')
  /\ UNCHANGED <<rotated, x264, global_nal_header, es, buttons, useSoftEncoder, canSoftEncode, aencoder, vencoder,
                 view, threads, mic, crash, paused, stray>>

-------------------------------------------------------------------------------
(* The GL thread: onDrawFrame() looks at mIsEncoding, then adds the picture *)

DrawFrame ==
  /\ Up /\ mCamera /\ mIsEncoding /\ ~gl
  /\ gl' = TRUE
  /\ UNCHANGED <<encVars, buttons, todo, codecs, mCamera, mIsEncoding, pictures, threads, mic, crash, paused, stray>>

AddPicture ==
  /\ Up /\ gl /\ pictures < MaxPictures
  /\ gl' = FALSE /\ pictures' = pictures + 1
  /\ UNCHANGED <<encVars, buttons, todo, codecs, mCamera, mIsEncoding, threads, mic, crash, paused, stray>>

-------------------------------------------------------------------------------
(* The worker of the camera view *)

At(t, pc) == Up /\ video[t] = pc
VideoTo(t, pc) == video' = [video EXCEPT ![t] = pc]

(* while (!Thread.interrupted()) *)
Loop(t) ==
  /\ At(t, "loop")
  /\ VideoTo(t, IF t \in interrupted.video THEN "done" ELSE "empty")
  /\ interrupted' = [interrupted EXCEPT !.video = @ \ {t}]
  /\ UNCHANGED <<encVars, buttons, todo, codecs, view, worker, aworker, audio, mic, crash, paused, stray>>

(* while (!mGLIntBufferCache.isEmpty()) *)
IsEmpty(t) ==
  /\ At(t, "empty")
  /\ VideoTo(t, IF pictures = 0 THEN "wait" ELSE "poll")
  /\ UNCHANGED <<encVars, buttons, todo, codecs, view, worker, aworker, audio, interrupted, mic, crash, paused, stray>>

(* poll() returns null when disableEncoding() has cleared the cache since *)
Poll(t) ==
  /\ At(t, "poll")
  /\ VideoTo(t, "frame")
  /\ IF pictures = 0
     THEN crash' = "cleared" /\ UNCHANGED pictures
     ELSE pictures' = pictures - 1 /\ UNCHANGED crash
  /\ UNCHANGED <<encVars, buttons, todo, codecs, mCamera, mIsEncoding, gl, worker, aworker, audio, interrupted, mic,
                 paused, stray>>

(* onGetRgbaFrame(): nothing if too many frames are cached, else one of the *)
(* encoders                                                                 *)
OnGetRgbaFrame(t) ==
  /\ At(t, "frame")
  /\ \E full \in BOOLEAN :
       VideoTo(t, IF full THEN "empty" ELSE IF useSoftEncoder THEN "soft" ELSE "hard")
  /\ UNCHANGED <<encVars, buttons, todo, codecs, view, worker, aworker, audio, interrupted, mic, crash, paused, stray>>

(* RGBASoftEncode() uses the encoder without a look at it *)
Soft(t) ==
  /\ At(t, "soft")
  /\ ConvertToI420(Preview, 180)
  /\ VideoTo(t, "empty")
  /\ IF x264 = NoSize
     THEN crash' = "released" /\ UNCHANGED <<global_nal_header, es>>
     ELSE SoftEncode /\ UNCHANGED crash
  /\ UNCHANGED <<scaled, x264, buttons, todo, codecs, view, worker, aworker, audio, interrupted, mic, paused, stray>>

(* hwRgbaFrame() and onProcessedYuvFrame() *)
Hard(t) ==
  /\ At(t, "hard")
  /\ ConvertToI420(Preview, 180)
  /\ VideoTo(t, "empty")
  /\ crash' = IF vencoder = NoSize THEN "released" ELSE crash
  /\ UNCHANGED <<scaled, x264, global_nal_header, es, buttons, todo, codecs, view, worker, aworker, audio, interrupted,
                 mic, paused, stray>>

(* A plausible slip: the exception of an interrupted wait() is ignored. *)
WaitSwallows(t) ==
  /\ At(t, "wait")
  /\ VideoTo(t, "loop")
  /\ interrupted' = [interrupted EXCEPT !.video = @ \ {t}]
  /\ UNCHANGED <<encVars, buttons, todo, codecs, view, worker, aworker, audio, mic, crash, paused, stray>>

(* writeLock.wait(500) ends by notify, time or interrupt; the interrupt,    *)
(* which the exception clears, is sent again to the thread in worker.       *)
Wait(t) ==
  /\ At(t, "wait")
  /\ VideoTo(t, "loop")
  /\ interrupted' = [interrupted EXCEPT !.video = IF t \in @ THEN (@ \ {t}) \cup ({worker} \ {0}) ELSE @]
  /\ UNCHANGED <<encVars, buttons, todo, codecs, view, worker, aworker, audio, mic, crash, paused, stray>>

-------------------------------------------------------------------------------
(* aworker *)

AudioTo(t, pc) == Up /\ audio' = [audio EXCEPT ![t] = pc]

(* while (!Thread.interrupted()) mic.read() *)
ReadMic(t) ==
  /\ audio[t] = "loop"
  /\ AudioTo(t, IF t \in interrupted.audio THEN "done" ELSE "pcm")
  /\ interrupted' = [interrupted EXCEPT !.audio = @ \ {t}]
  /\ UNCHANGED <<encVars, buttons, todo, codecs, view, worker, aworker, video, mic, crash, paused, stray>>

(* onGetPcmFrame(): nothing if too many frames are cached *)
OnGetPcmFrame(t) ==
  /\ audio[t] = "pcm"
  /\ AudioTo(t, "loop")
  /\ crash' \in {crash, IF aencoder = "on" THEN crash ELSE "released"}
  /\ UNCHANGED <<encVars, buttons, todo, codecs, view, worker, aworker, video, interrupted, mic, paused, stray>>

-------------------------------------------------------------------------------
Click ==
  \/ ClickPublish \/ ClickStop \/ HandleException \/ ClickPause \/ ClickResume
  \/ ClickCamera \/ ClickEncoder \/ Rotate \/ CameraError \/ OnStart

Main ==
  \/ InterruptAudio \/ JoinAudio \/ InterruptVideo \/ JoinVideo \/ Camera
  \/ EnableEncoding \/ StayDisabled \/ StartAudio \/ Start \/ Stop \/ SetScreenOrientation

Video(t) == Loop(t) \/ IsEmpty(t) \/ Poll(t) \/ OnGetRgbaFrame(t) \/ Soft(t) \/ Hard(t) \/ Wait(t)
Audio(t) == ReadMic(t) \/ OnGetPcmFrame(t)

Next ==
  \/ Click \/ Main \/ DrawFrame \/ AddPicture
  \/ \E t \in Threads : Video(t) \/ Audio(t)

Spec == Init /\ [][Next]_vars

(* Every thread is scheduled; libyuv, x264, the codecs and mic.read() return. *)
FairSpec ==
  /\ Spec /\ WF_vars(Main)
  /\ \A t \in Threads : WF_vars(Video(t)) /\ WF_vars(Audio(t))

-------------------------------------------------------------------------------
Steps == {"interruptAudio", "joinAudio", "interruptVideo", "joinVideo", "releaseCamera", "startCamera",
          "enableEncoding", "enableIfEnabled", "startAudio", "start", "stop", "setScreenOrientation"}

TypeOK ==
  /\ EncTypeOK
  /\ btnPublish \in {"publish", "stop"} /\ btnPause \in {"pause", "resume"}
  /\ {pauseEnabled, swEncEnabled, useSoftEncoder, canSoftEncode, mCamera, mIsEncoding, gl, mic, paused, stray}
       \subseteq BOOLEAN
  /\ todo \in Seq(Steps)
  /\ vOut \in {Portrait, Landscape} /\ vencoder \in {NoSize, Portrait, Landscape}
  /\ aencoder \in {"null", "made", "on"}
  /\ pictures \in 0..MaxPictures /\ clicks \in 0..MaxClicks
  /\ {worker, aworker} \subseteq {0} \cup Threads
  /\ video \in [Threads -> {"none", "loop", "empty", "poll", "frame", "soft", "hard", "wait", "done"}]
  /\ audio \in [Threads -> {"none", "loop", "pcm", "done"}]
  /\ interrupted \in [video : SUBSET Threads, audio : SUBSET Threads]
  /\ crash \in {"none", "cleared", "released"}

(* Inside a native method or the codec. *)
InEncoder == {t \in Threads : video[t] \in {"soft", "hard"}}

(* The static buffers and the encoder of libenc.cc have no lock: one thread  *)
(* at a time is inside, and the main thread neither frees nor resizes        *)
(* anything then, however stops, rotations, camera switches and errors fall. *)
NativeExclusive ==
  InEncoder # {} /\ ~stray =>
    /\ Cardinality(InEncoder) = 1
    /\ todo # <<>> => Head(todo) \notin {"start", "stop", "setScreenOrientation"}

(* A picture has the size the encoder that gets it was opened with.         *)
PictureFits ==
  ~stray => \A t \in Threads :
    /\ video[t] = "soft" => x264 = scaled
    /\ video[t] = "hard" => vencoder = scaled

(* No thread meets an encoder that is gone or was never started, unless the *)
(* user resumed what was not paused or turned the camera during a pause.    *)
EncoderThere == crash = "released" => stray

(* When the user has stopped, and the handler is done, nothing is left: no  *)
(* thread, no codec, no soft encoder, no microphone; and whatever buttons   *)
(* are pressed then, the camera switch included, none of it comes back.     *)
Quiet ==
  todo = <<>> /\ btnPublish = "publish" /\ Up /\ ~stray =>
    /\ Alive(video) = {} /\ Alive(audio) = {}
    /\ x264 = NoSize /\ vencoder = NoSize /\ aencoder = "null" /\ ~mic

(* Every handler of the main thread ends: the interrupts reach the threads   *)
(* it waits for wherever they are.                                          *)
HandlersEnd == todo # <<>> ~> (todo = <<>> \/ crash # "none")
===============================================================================
