---------------------------- MODULE FramePipeline ----------------------------
(***************************************************************************)
(* One camera of the sender, from its images to the timing messages:       *)
(* sender/ros2_bridge.py, sender/gst_pipeline.py, and how sender/main.py   *)
(* sets them up and shuts them down.                                       *)
(*                                                                         *)
(* Four threads meet here with no lock.  The camera thread converts an     *)
(* image, pushes it into appsrc, reads the averages of the probes and      *)
(* sends them over the data channel.  The streaming thread of the pipeline *)
(* takes frames from appsrc through the encoder and the payloader and runs *)
(* the probes.  The thread of webrtcbin opens and closes the data channel. *)
(* The main thread sets all of it up, handles receiver_left, and shuts     *)
(* down; the other threads are daemons and run on until the process exits. *)
(***************************************************************************)
EXTENDS Integers, Sequences

CONSTANTS
  Encoding,   \* encodings of the images of the topic, keys of Layout
  EncLimit,   \* an encode time of this many ticks or more is ignored (500 ms)
  PktLimit,   \* the same for a packetize time (200 ms)
  RawSamples, \* the first samples that are not averaged (5)
  MaxDelay,   \* bound: frames an encoder keeps back
  MaxFrames,  \* bound: images taken
  MaxTime     \* bound: ticks of the monotonic clock

(* A pixel of an image in each encoding, channel by channel.  The last two *)
(* stand for the encodings the bridge does not know.                       *)
Layout == [rgb8   |-> <<"R", "G", "B">>,      bgr8   |-> <<"B", "G", "R">>,
           rgba8  |-> <<"R", "G", "B", "A">>, bgra8  |-> <<"B", "G", "R", "A">>,
           mono8  |-> <<"Y">>,                uc1    |-> <<"Y">>,
           yuv422 |-> <<"Y", "U">>,           uc3    |-> <<"B", "G", "R">>]

ASSUME PipelineAssumption ==
  /\ Encoding \subseteq DOMAIN Layout
  /\ EncLimit \in Nat /\ PktLimit \in Nat /\ RawSamples \in Nat \ {0}
  /\ MaxDelay \in Nat /\ MaxFrames \in Nat /\ MaxTime \in Nat \ {0}

VARIABLES
  app,      \* how far the main thread is
  ros,      \* ROS2_AVAILABLE; otherwise the camera is simulated
  probed,   \* whether the payloader was found and has its probe
  delay,    \* frames the encoder keeps back: 0 if its properties could be set
  cam,      \* the camera thread
  ptsBase,  \* _pts_base_ns, 0 for None
  frames,   \* _frame_counter
  queue,    \* time stamps of the buffers in appsrc
  coder,    \* when the frames now in the encoder entered it
  paying,   \* the streaming thread is in the payloader
  probe,    \* _enc_sink_last_ns, _enc_src_last_ns, the two averages, _probe_frame_count
  channels, \* whether the stream is in data_channels
  dcOpen,   \* whether it is in _dc_open
  dc,       \* the data channel itself, and the callback running on it
  now,      \* time.monotonic_ns()
  began,    \* when the pipeline started to play
  taken,    \* images taken so far
  real,     \* how long each frame that left the encoder was in it
  late      \* timing messages sent since the stream left _dc_open

camera == <<cam, ptsBase, frames, queue, taken>>
stream == <<coder, paying, probe, real>>
channel == <<channels, dcOpen, dc, late>>
setup == <<ros, probed, delay, began>>
vars == <<app, setup, camera, stream, channel, now>>

(* Averages are kept in parts of a tick, so that they have a fraction.     *)
Unit == 25

Playing == app \in {"playing", "ready", "running"}

Init ==
  /\ app = "new" /\ ros \in BOOLEAN /\ probed = FALSE /\ delay = 0 /\ began = 0
  /\ cam = [pc |-> "off", ts |-> 0, pix |-> <<>>, known |-> FALSE,
            enc |-> 0, pkt |-> 0]
  /\ ptsBase = 0 /\ frames = 0 /\ queue = <<>> /\ taken = 0
  /\ coder = <<>> /\ paying = FALSE /\ real = {}
  /\ probe = [sink |-> 0, src |-> 0, enc |-> 0, pkt |-> 0, n |-> 0]
  /\ channels = FALSE /\ dcOpen = FALSE /\ dc = "none" /\ late = 0
  /\ now = 1

-----------------------------------------------------------------------------
(* The main thread.                                                        *)

(* create_pipeline.  parse_launch has a fallback; when that fails too, or  *)
(* an element but the payloader is missing, the exception is raised        *)
(* outside of the try of run, and nothing is shut down.                    *)
Setup ==
  /\ app = "new"
  /\ \E parsed \in BOOLEAN,
        missing \in SUBSET {"appsrc", "webrtcbin", "encoder", "payloader"} :
       /\ app' = IF parsed /\ missing \subseteq {"payloader"}
                 THEN "built" ELSE "failed"
       /\ probed' = ("payloader" \notin missing)
  /\ delay' \in 0 .. MaxDelay
  /\ UNCHANGED <<ros, began, camera, stream, channel, now>>

Connect ==
  /\ app = "built" /\ app' = "connected"
  /\ UNCHANGED <<setup, camera, stream, channel, now>>

(* builder.start *)
StartPipeline ==
  /\ app = "connected" /\ app' = "playing" /\ began' = now
  /\ UNCHANGED <<ros, probed, delay, camera, stream, channel, now>>

(* create-data-channel may return None or raise. *)
CreateDataChannel ==
  /\ app = "playing" /\ app' = "ready"
  /\ \/ dc' = "new" /\ channels' = TRUE
     \/ UNCHANGED <<dc, channels>>
  /\ UNCHANGED <<setup, camera, stream, dcOpen, late, now>>

StartBridge ==
  /\ app = "ready" /\ app' = "running"
  /\ cam' = [cam EXCEPT !.pc = "idle"]
  /\ UNCHANGED <<setup, ptsBase, frames, queue, taken, stream, channel, now>>

(* The receive loop on receiver_left. *)
ReceiverLeft ==
  /\ app \in {"connected", "playing", "ready", "running"}
  /\ dcOpen /\ dcOpen' = FALSE
  /\ UNCHANGED <<app, setup, camera, stream, channels, dc, late, now>>

(* The connection failed or was lost, or a signal ended the main thread.   *)
(* Setting the state to NULL waits for the streaming thread and empties    *)
(* the pipeline.                                                           *)
Shutdown ==
  /\ app \in {"built", "connected"} \/ Playing
  /\ app' = "stopped"
  /\ queue' = <<>> /\ coder' = <<>> /\ paying' = FALSE
  /\ UNCHANGED <<setup, cam, ptsBase, frames, taken, probe, real, channel, now>>

(* ros2_bridge.shutdown comes after that and destroys the node; a simulated *)
(* camera runs on.                                                         *)
ShutdownBridge ==
  /\ app = "stopped" /\ app' = "ended"
  /\ UNCHANGED <<setup, camera, stream, channel, now>>

-----------------------------------------------------------------------------
(* The camera thread.                                                      *)

(* The channels per pixel that an image is reshaped to.  When its data are *)
(* not of that size, reshape raises and the image is dropped.              *)
Depth(e) == CASE e \in {"mono8", "uc1"} -> 1
              [] e \in {"rgba8", "bgra8"} -> 4
              [] OTHER -> 3

\* Mutant of Order: all channels of a bgra8 pixel are reversed ("::-1").
OrderReversed(e) ==
  CASE e = "bgr8" -> <<3, 2, 1>>
    [] e = "bgra8" -> <<4, 3, 2>>
    [] e \in {"mono8", "uc1"} -> <<1, 1, 1>>
    [] OTHER -> <<1, 2, 3>>

(* Which channels of the image are taken.                                  *)
Order(e) ==
  CASE e \in {"bgr8", "bgra8"} -> <<3, 2, 1>>
    [] e \in {"mono8", "uc1"} -> <<1, 1, 1>>
    [] OTHER -> <<1, 2, 3>>

Converted(e) == [i \in 1 .. 3 |-> Layout[e][Order(e)[i]]]

(* _on_image, or one turn of _simulate_camera.                             *)
Capture ==
  /\ cam.pc = "idle" /\ taken < MaxFrames
  /\ ros => app \in {"running", "stopped"}
  /\ taken' = taken + 1
  /\ \E e \in IF ros THEN Encoding ELSE {"rgb8"} :
       cam' = IF Len(Layout[e]) = Depth(e)
              THEN [cam EXCEPT !.pc = "push", !.ts = now, !.pix = Converted(e),
                               !.known = e # "uc3"]
              ELSE cam
  /\ UNCHANGED <<app, setup, ptsBase, frames, queue, stream, channel, now>>

\* Mutant of Accepts: a pipeline that was stopped takes buffers.
AcceptsAlways == TRUE

(* appsrc refuses buffers unless the pipeline is playing. *)
Accepts == Playing

\* Mutant of Base: no base, time stamps are those of the capture.
NoBase == 0

Base == IF ptsBase = 0 THEN cam.ts ELSE ptsBase

\* Mutant of RunningTime: the operands are swapped.
RunningSwapped(ts) == Base - ts

RunningTime(ts) == IF ts < Base THEN 0 ELSE ts - Base

(* push_frame up to push-buffer. *)
Push ==
  /\ cam.pc = "push"
  /\ ptsBase' = Base
  /\ frames' = frames + 1
  /\ queue' = IF Accepts THEN Append(queue, RunningTime(cam.ts)) ELSE queue
  /\ cam' = [cam EXCEPT !.pc = "readEnc", !.pix = <<>>]
  /\ UNCHANGED <<app, setup, taken, stream, channel, now>>

ReadEnc ==
  /\ cam.pc = "readEnc"
  /\ cam' = [cam EXCEPT !.pc = "readPkt", !.enc = probe.enc]
  /\ UNCHANGED <<app, setup, ptsBase, frames, queue, taken, stream, channel, now>>

ReadPkt ==
  /\ cam.pc = "readPkt"
  /\ cam' = [cam EXCEPT !.pc = "test", !.pkt = probe.pkt]
  /\ UNCHANGED <<app, setup, ptsBase, frames, queue, taken, stream, channel, now>>

\* Mutant of SeesOpen: what has a data channel is taken to be open.
SeesEntry == channels

SeesOpen == dcOpen

Rest(c) == [c EXCEPT !.pc = "idle", !.ts = 0, !.enc = 0, !.pkt = 0]

(* _on_frame_timed: "if stream_id in _dc_open", data_channels.get, and the *)
(* emit, whose exceptions are caught.                                      *)
TestOpen ==
  /\ cam.pc = "test"
  /\ cam' = IF SeesOpen THEN [cam EXCEPT !.pc = "get"] ELSE Rest(cam)
  /\ UNCHANGED <<app, setup, ptsBase, frames, queue, taken, stream, channel, now>>

GetChannel ==
  /\ cam.pc = "get"
  /\ cam' = IF channels THEN [cam EXCEPT !.pc = "emit"] ELSE Rest(cam)
  /\ UNCHANGED <<app, setup, ptsBase, frames, queue, taken, stream, channel, now>>

Emit ==
  /\ cam.pc = "emit"
  /\ cam' = Rest(cam)
  /\ late' = IF dcOpen THEN 0 ELSE late + 1
  /\ UNCHANGED <<app, setup, ptsBase, frames, queue, taken, stream,
                 channels, dcOpen, dc, now>>

-----------------------------------------------------------------------------
(* The streaming thread and its probes.                                    *)

EncodeStart ==
  /\ Playing /\ ~paying
  /\ queue # <<>> /\ Len(coder) <= delay
  /\ queue' = Tail(queue)
  /\ coder' = Append(coder, now)
  /\ probe' = [probe EXCEPT !.sink = now]
  /\ UNCHANGED <<app, setup, cam, ptsBase, frames, taken, paying, real,
                 channel, now>>

\* Mutant of Average: the two weights do not add up to one.
AverageHeavy(n, x, avg) == IF n <= RawSamples THEN x ELSE (2 * x + 4 * avg) \div 5

(* 0.2 and 0.8, once there are enough samples. *)
Average(n, x, avg) == IF n <= RawSamples THEN x ELSE (x + 4 * avg) \div 5

EncodeComplete ==
  /\ Playing /\ Len(coder) > delay
  /\ LET ms == now - probe.sink
         n == probe.n + 1
     IN probe' = IF probe.sink > 0 /\ 0 < ms /\ ms < EncLimit
                 THEN [probe EXCEPT !.src = now, !.n = n,
                                    !.enc = Average(n, Unit * ms, @)]
                 ELSE [probe EXCEPT !.src = now]
  /\ real' = real \cup {Unit * (now - Head(coder))}
  /\ coder' = Tail(coder)
  /\ paying' = TRUE
  /\ UNCHANGED <<app, setup, camera, channel, now>>

(* One packet of the frame. *)
Packetized ==
  /\ Playing /\ paying
  /\ LET ms == now - probe.src
     IN probe' = IF probed /\ probe.src > 0 /\ 0 <= ms /\ ms < PktLimit
                 THEN [probe EXCEPT !.pkt = Average(probe.n, Unit * ms, @)]
                 ELSE probe
  /\ UNCHANGED <<app, setup, camera, coder, paying, real, channel, now>>

Payed ==
  /\ Playing /\ paying
  /\ paying' = FALSE
  /\ UNCHANGED <<app, setup, camera, coder, probe, real, channel, now>>

-----------------------------------------------------------------------------
(* The callbacks of the data channel, one access to a field at a time.     *)

DcOpens ==
  /\ dc = "new" /\ dc' = "opening"
  /\ channels' = TRUE
  /\ UNCHANGED <<app, setup, camera, stream, dcOpen, late, now>>

DcAddsOpen ==
  /\ dc = "opening" /\ dc' = "open"
  /\ dcOpen' = TRUE /\ late' = 0
  /\ UNCHANGED <<app, setup, camera, stream, channels, now>>

DcCloses ==
  /\ dc = "open" /\ dc' = "closing"
  /\ dcOpen' = FALSE
  /\ UNCHANGED <<app, setup, camera, stream, channels, late, now>>

DcDeletes ==
  /\ dc = "closing" /\ dc' = "closed"
  /\ channels' = FALSE
  /\ UNCHANGED <<app, setup, camera, stream, dcOpen, late, now>>

-----------------------------------------------------------------------------
Tick ==
  /\ now < MaxTime /\ now' = now + 1
  /\ UNCHANGED <<app, setup, camera, stream, channel>>

(* The process has ended, or is about to. *)
Ended == app \in {"failed", "ended"} /\ UNCHANGED vars

MainStep ==
  \/ Setup \/ Connect \/ StartPipeline \/ CreateDataChannel \/ StartBridge
  \/ ReceiverLeft \/ Shutdown \/ ShutdownBridge

CameraStep ==
  Capture \/ Push \/ ReadEnc \/ ReadPkt \/ TestOpen \/ GetChannel \/ Emit

StreamStep == EncodeStart \/ EncodeComplete \/ Packetized \/ Payed

ChannelStep == DcOpens \/ DcAddsOpen \/ DcCloses \/ DcDeletes

Next ==
  MainStep \/ CameraStep \/ StreamStep \/ ChannelStep \/ Tick \/ Ended

Spec == Init /\ [][Next]_vars

-----------------------------------------------------------------------------
(* Properties.                                                             *)

Channel == {"R", "G", "B", "A", "Y", "U"}

Camera ==
  [pc : {"off", "idle", "push", "readEnc", "readPkt", "test", "get", "emit"},
   ts : 0 .. MaxTime, pix : Seq(Channel), known : BOOLEAN,
   enc : Nat, pkt : Nat]

Probe ==
  [sink : 0 .. MaxTime, src : 0 .. MaxTime, enc : Nat, pkt : Nat, n : Nat]

SetupType ==
  /\ app \in {"new", "failed", "built", "connected", "playing", "ready",
              "running", "stopped", "ended"}
  /\ ros \in BOOLEAN /\ probed \in BOOLEAN /\ delay \in 0 .. MaxDelay
  /\ now \in 1 .. MaxTime /\ began \in 0 .. MaxTime

CameraType ==
  /\ cam \in Camera /\ ptsBase \in 0 .. MaxTime
  /\ frames \in Nat /\ taken \in 0 .. MaxFrames /\ queue \in Seq(0 .. MaxTime)

StreamType ==
  /\ coder \in Seq(1 .. MaxTime) /\ paying \in BOOLEAN
  /\ real \in SUBSET Nat /\ probe \in Probe

ChannelType ==
  /\ channels \in BOOLEAN /\ dcOpen \in BOOLEAN /\ late \in Nat
  /\ dc \in {"none", "new", "opening", "open", "closing", "closed"}

(* Every variable has its type. *)
TypeOK == SetupType /\ CameraType /\ StreamType /\ ChannelType

(* An average lies within the encode times that frames really had, and     *)
(* with an encoder that keeps frames back it is too small but never too    *)
(* large.                                                                  *)
WithinReal(avg) ==
  avg > 0 => /\ \E r \in real : avg <= r
             /\ delay = 0 => \E r \in real : r <= avg

(* The encode time in a timing message is one the frames of this camera    *)
(* really had: the probes store only when the last frame entered and left  *)
(* the encoder, and the camera thread reads their average while they       *)
(* change it (gst_pipeline.py:343, 354-387).                               *)
MeasuredIsReal == WithinReal(probe.enc) /\ WithinReal(cam.enc)

(* What is pushed has the three channels of the caps of appsrc, and for an *)
(* encoding the bridge knows they are red, green and blue of the camera, or *)
(* its grey (ros2_bridge.py:87-112).                                       *)
PushedIsRGB ==
  cam.pc = "push" =>
    /\ Len(cam.pix) = 3
    /\ cam.known => cam.pix \in {<<"R", "G", "B">>, <<"Y", "Y", "Y">>}

(* The time stamps of the buffers are running times of the pipeline: never *)
(* ahead of its clock, which starts at 0 when it begins to play, and in    *)
(* the order the frames were pushed (gst_pipeline.py:114-117, 302-315).    *)
PtsIsRunningTime ==
  \A i \in DOMAIN queue :
    /\ queue[i] <= now - began
    /\ \A j \in 1 .. i : queue[j] <= queue[i]

(* Once the stream is taken from _dc_open, by the close of its channel or  *)
(* because the receiver left, at most one more timing message goes out:    *)
(* the one that was past the test (main.py:138-142, webrtc_sender.py:172). *)
LateAtMostOnce == ~dcOpen => late <= 1

(* The camera runs on after the shutdown, but what it pushes stays out of  *)
(* the pipeline and nothing is measured any more (main.py:207-215,         *)
(* gst_pipeline.py:320).                                                   *)
StopIsFinal ==
  [][(app \in {"stopped", "ended"}) => UNCHANGED <<queue, coder, probe>>]_vars
=============================================================================
