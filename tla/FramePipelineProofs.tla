------------------------- MODULE FramePipelineProofs -------------------------
(* Theorems about FramePipeline, for every set of encodings and all bounds *)
(* and limits.                                                             *)
EXTENDS FramePipeline, TLAPS

USE PipelineAssumption

-----------------------------------------------------------------------------
(* Lemmas about the operators.                                             *)

(* A weighted average lies between the old one and the sample.             *)
LEMMA AverageBetween ==
  ASSUME NEW n \in Nat, NEW x \in Nat, NEW avg \in Nat
  PROVE /\ Average(n, x, avg) \in Nat
        /\ Average(n, x, avg) <= x \/ Average(n, x, avg) <= avg
        /\ x <= Average(n, x, avg) \/ avg <= Average(n, x, avg)
        /\ n <= RawSamples => Average(n, x, avg) = x
  BY DEF Average

(* What fits the shape the bridge expects becomes three channels, red,     *)
(* green and blue or all grey when the bridge knows the encoding.          *)
LEMMA ConvertedIsRGB ==
  ASSUME NEW e \in DOMAIN Layout, Len(Layout[e]) = Depth(e)
  PROVE /\ Converted(e) \in Seq(Channel) /\ Len(Converted(e)) = 3
        /\ e # "uc3" => Converted(e) \in {<<"R", "G", "B">>, <<"Y", "Y", "Y">>}
  <1>1. e \in {"rgb8", "bgr8", "rgba8", "bgra8", "mono8", "uc1", "yuv422", "uc3"}
    BY DEF Layout
  <1>2. CASE e = "rgb8"
    BY <1>2 DEF Layout, Converted, Order, Channel
  <1>3. CASE e = "bgr8"
    BY <1>3 DEF Layout, Converted, Order, Channel
  <1>4. CASE e = "rgba8"
    BY <1>4 DEF Layout, Converted, Order, Channel
  <1>5. CASE e = "bgra8"
    BY <1>5 DEF Layout, Converted, Order, Channel
  <1>6. CASE e = "mono8"
    BY <1>6 DEF Layout, Converted, Order, Channel
  <1>10. CASE e = "uc1"
    BY <1>10 DEF Layout, Converted, Order, Channel
  <1>7. CASE e = "yuv422"
    BY <1>7 DEF Layout, Depth
  <1>8. CASE e = "uc3"
    BY <1>8 DEF Layout, Converted, Order, Channel
  <1>9. QED BY <1>1, <1>2, <1>3, <1>4, <1>5, <1>6, <1>10, <1>7, <1>8

-----------------------------------------------------------------------------
(* Types, with what the encoder holds: frames in the order they entered,   *)
(* the last of which is the one the sink probe saw last.                   *)
CoderInv ==
  /\ \A i \in DOMAIN coder : coder[i] <= probe.sink
  /\ coder # <<>> => probe.sink = coder[Len(coder)]
  /\ probe.sink <= now /\ probe.src <= now
  /\ Len(coder) <= delay + 1
  /\ app = "new" => delay = 0

TypeInv == TypeOK /\ CoderInv

(* What each thread leaves alone.                                          *)
LEMMA CameraLeaves ==
  CameraStep => UNCHANGED <<app, setup, stream, channels, dcOpen, dc, now>>
  BY Zenon DEF CameraStep, Capture, Push, ReadEnc, ReadPkt, TestOpen, GetChannel,
     Emit, channel

LEMMA StreamLeaves ==
  StreamStep =>
    UNCHANGED <<app, setup, cam, ptsBase, frames, taken, channel, now>>
  BY Zenon DEF StreamStep, EncodeStart, EncodeComplete, Packetized, Payed, camera

LEMMA ChannelLeaves ==
  ChannelStep => UNCHANGED <<app, setup, camera, stream, now>>
  BY Zenon DEF ChannelStep, DcOpens, DcAddsOpen, DcCloses, DcDeletes

LEMMA MainLeaves ==
  MainStep => /\ UNCHANGED <<frames, ptsBase, taken, probe, real, late, now>>
              /\ app' # "new"
  BY DEF MainStep, Setup, Connect, StartPipeline, CreateDataChannel, StartBridge,
     ReceiverLeft, Shutdown, ShutdownBridge, Playing, setup, camera, stream, channel

LEMMA SetupTypeNext == TypeInv /\ [Next]_vars => SetupType'
  <1> SUFFICES ASSUME SetupType, [Next]_vars PROVE SetupType'
    BY DEF TypeInv, TypeOK
  <1>1. CASE UNCHANGED <<app, setup, now>>
    BY <1>1 DEF SetupType, setup
  <1>2. CASE Setup
    BY <1>2 DEF Setup, SetupType
  <1>3. CASE StartPipeline
    BY <1>3 DEF StartPipeline, SetupType
  <1>4. CASE \/ Connect \/ CreateDataChannel \/ StartBridge
             \/ Shutdown \/ ShutdownBridge
    BY <1>4 DEF Connect, CreateDataChannel, StartBridge, Shutdown,
       ShutdownBridge, SetupType, setup
  <1>5. CASE Tick
    BY <1>5 DEF Tick, SetupType, setup
  <1>6. CASE ReceiverLeft
    BY <1>1, <1>6 DEF ReceiverLeft
  <1>7. QED
    BY <1>1, <1>2, <1>3, <1>4, <1>5, <1>6, CameraLeaves, StreamLeaves,
       ChannelLeaves DEF Next, MainStep, Ended, vars

LEMMA CameraTypeNext == TypeInv /\ [Next]_vars => CameraType'
  <1> SUFFICES ASSUME SetupType, CameraType, StreamType, [Next]_vars
               PROVE CameraType'
    BY DEF TypeInv, TypeOK
  <1>1. CASE UNCHANGED camera
    BY <1>1 DEF CameraType, camera
  <1>2. CASE StartBridge
    BY <1>2 DEF StartBridge, CameraType, Camera
  <1>3. CASE Shutdown
    BY <1>3 DEF Shutdown, CameraType
  <1>4. CASE Capture
    <2>1. PICK e \in DOMAIN Layout :
            cam' = IF Len(Layout[e]) = Depth(e)
                   THEN [cam EXCEPT !.pc = "push", !.ts = now,
                                    !.pix = Converted(e), !.known = e # "uc3"]
                   ELSE cam
      <3>1. "rgb8" \in DOMAIN Layout
        BY DEF Layout
      <3>2. QED BY <1>4, <3>1 DEF Capture
    <2>2. Len(Layout[e]) = Depth(e) => Converted(e) \in Seq(Channel)
      BY ConvertedIsRGB
    <2>3. cam \in Camera /\ now \in 0 .. MaxTime /\ (e # "uc3") \in BOOLEAN
      BY DEF CameraType, SetupType
    <2>4. cam' \in Camera
      BY <2>1, <2>2, <2>3 DEF Camera
    <2>5. QED BY <1>4, <2>4 DEF Capture, CameraType
  <1>5. CASE Push
    <2>1. cam \in Camera /\ cam.ts \in 0 .. MaxTime /\ Base \in 0 .. MaxTime
      BY DEF Base, CameraType, Camera
    <2>2. RunningTime(cam.ts) \in 0 .. MaxTime
      BY <2>1 DEF RunningTime
    <2>3. cam' = [cam EXCEPT !.pc = "readEnc", !.pix = <<>>]
      BY <1>5 DEF Push
    <2>4. <<>> \in Seq(Channel)
      OBVIOUS
    <2>5. cam' \in Camera
      BY <2>1, <2>3, <2>4 DEF Camera
    <2>6. queue' \in Seq(0 .. MaxTime)
      <3>1. queue' = Append(queue, RunningTime(cam.ts)) \/ queue' = queue
        BY <1>5 DEF Push
      <3>2. queue \in Seq(0 .. MaxTime)
        BY DEF CameraType
      <3> DEFINE T == 0 .. MaxTime
      <3> HIDE DEF T
      <3>3. Append(queue, RunningTime(cam.ts)) \in Seq(T)
        BY <2>2, <3>2 DEF T
      <3>4. QED BY <3>1, <3>2, <3>3 DEF T
    <2>7. QED BY <1>5, <2>1, <2>5, <2>6 DEF Push, CameraType
  <1>6. CASE ReadEnc \/ ReadPkt
    <2>1. cam \in Camera /\ probe.enc \in Nat /\ probe.pkt \in Nat
      BY DEF CameraType, StreamType, Probe
    <2>2. cam' \in Camera
      BY <1>6, <2>1 DEF ReadEnc, ReadPkt, Camera
    <2>3. QED BY <1>6, <2>2 DEF ReadEnc, ReadPkt, CameraType
  <1>7. CASE TestOpen \/ GetChannel \/ Emit
    <2>1. cam \in Camera
      BY DEF CameraType
    <2>2. Rest(cam) \in Camera
      <3>1. 0 \in 0 .. MaxTime /\ 0 \in Nat
        OBVIOUS
      <3> DEFINE T == 0 .. MaxTime
      <3> HIDE DEF T
      <3>2. Rest(cam) \in Camera
        BY <2>1, <3>1 DEF Rest, Camera, T
      <3>3. QED BY <3>2
    <2>3. cam' \in Camera
      BY <1>7, <2>1, <2>2 DEF TestOpen, GetChannel, Emit, Camera
    <2>4. QED BY <1>7, <2>3 DEF TestOpen, GetChannel, Emit, CameraType
  <1>8. CASE EncodeStart
    BY <1>8 DEF EncodeStart, CameraType
  <1>9. CASE Setup \/ Connect \/ StartPipeline \/ CreateDataChannel
             \/ ReceiverLeft \/ ShutdownBridge \/ Tick
    BY <1>1, <1>9 DEF Setup, Connect, StartPipeline, CreateDataChannel,
       ReceiverLeft, ShutdownBridge, Tick
  <1>10. CASE EncodeComplete \/ Packetized \/ Payed
    BY <1>1, <1>10 DEF EncodeComplete, Packetized, Payed
  <1>11. QED
    BY <1>1, <1>2, <1>3, <1>4, <1>5, <1>6, <1>7, <1>8, <1>9, <1>10,
       ChannelLeaves
    DEF Next, MainStep, CameraStep, StreamStep, Ended, vars

LEMMA StreamTypeNext == TypeInv /\ [Next]_vars => (StreamType /\ CoderInv)'
  <1> SUFFICES ASSUME SetupType, CameraType, StreamType, CoderInv, [Next]_vars
               PROVE (StreamType /\ CoderInv)'
    BY DEF TypeInv, TypeOK
  <1>1. CASE UNCHANGED <<stream, delay, now>> /\ (app' = app \/ app' # "new")
    BY <1>1 DEF StreamType, CoderInv, stream
  <1>2. CASE Setup
    <2>1. coder' = coder /\ delay = 0 /\ delay' \in Nat /\ app' # "new"
      BY <1>2 DEF Setup, CoderInv, stream, SetupType
    <2>2. QED BY <1>2, <2>1 DEF Setup, StreamType, CoderInv, stream
  <1>3. CASE Shutdown
    <2>1. /\ coder' = <<>> /\ paying' = FALSE /\ app' # "new"
          /\ UNCHANGED <<probe, real, delay, now>> /\ delay \in Nat
      BY <1>3 DEF Shutdown, setup, SetupType
    <2>2. /\ <<>> \in Seq(1 .. MaxTime) /\ Len(<<>>) = 0
          /\ \A i \in DOMAIN <<>> : FALSE
      OBVIOUS
    <2>3. StreamType'
      BY <2>1, <2>2 DEF StreamType
    <2>4. CoderInv'
      BY <2>1, <2>2 DEF CoderInv
    <2>5. QED BY <2>3, <2>4
  <1>4. CASE EncodeStart
    <2>1. /\ coder' \in Seq(1 .. MaxTime)
          /\ coder' # <<>> /\ Len(coder') = Len(coder) + 1
          /\ coder'[Len(coder')] = now
          /\ \A i \in DOMAIN coder' : coder'[i] <= now
      <3>1. /\ coder \in Seq(1 .. MaxTime) /\ now \in 1 .. MaxTime
            /\ \A i \in DOMAIN coder : coder[i] <= probe.sink
            /\ probe.sink <= now /\ probe.sink \in Nat
        BY DEF CoderInv, StreamType, SetupType, Probe
      <3>2. coder' = Append(coder, now)
        BY <1>4 DEF EncodeStart
      <3>3. /\ Append(coder, now) \in Seq(1 .. MaxTime)
            /\ Append(coder, now) # <<>>
            /\ Len(Append(coder, now)) = Len(coder) + 1
            /\ Append(coder, now)[Len(coder) + 1] = now
        BY <3>1
      <3>4. \A i \in 1 .. Len(coder) : Append(coder, now)[i] = coder[i]
        BY <3>1
      <3>5. /\ DOMAIN coder = 1 .. Len(coder) /\ Len(coder) \in Nat
            /\ DOMAIN Append(coder, now) = 1 .. Len(coder) + 1
        BY <3>1
      <3>6. ASSUME NEW i \in 1 .. Len(coder) + 1
            PROVE Append(coder, now)[i] <= now
        <4>1. CASE i = Len(coder) + 1
          BY <3>1, <3>3, <4>1
        <4>2. CASE i # Len(coder) + 1
          <5>1. i \in 1 .. Len(coder)
            BY <3>5, <4>2
          <5>2. coder[i] \in Nat /\ coder[i] <= probe.sink
            BY <3>1, <3>5, <5>1
          <5>3. QED BY <3>1, <3>4, <5>1, <5>2
        <4>3. QED BY <4>1, <4>2
      <3>7. QED BY <3>2, <3>3, <3>5, <3>6
    <2>2. /\ probe' \in Probe
          /\ probe'.sink = now /\ probe'.src = probe.src
      <3>1. probe \in Probe /\ now \in 0 .. MaxTime
        BY DEF SetupType, StreamType
      <3>2. probe' = [probe EXCEPT !.sink = now]
        BY <1>4 DEF EncodeStart
      <3>3. QED BY <3>1, <3>2 DEF Probe
    <2>3. /\ UNCHANGED <<app, now, delay, paying, real>>
          /\ Len(coder) <= delay
      BY <1>4 DEF EncodeStart, setup
    <2>4. QED BY <2>1, <2>2, <2>3 DEF SetupType, StreamType, CoderInv
  <1>5. CASE EncodeComplete
    <2>1. coder # <<>> /\ Len(coder) \in Nat
      BY <1>5 DEF EncodeComplete, StreamType, SetupType
    <2>2. /\ coder' \in Seq(1 .. MaxTime) /\ Len(coder') = Len(coder) - 1
          /\ \A i \in DOMAIN coder' : coder'[i] = coder[i + 1]
                                      /\ i + 1 \in DOMAIN coder
      BY <1>5, <2>1 DEF EncodeComplete, StreamType
    <2>3. coder' # <<>> => coder'[Len(coder')] = coder[Len(coder)]
      BY <2>1, <2>2
    <2>4. Head(coder) \in 1 .. now
      BY <2>1 DEF CoderInv, StreamType, SetupType, Probe
    <2>5. real' \in SUBSET Nat
      BY <1>5, <2>4 DEF EncodeComplete, Unit, StreamType, SetupType
    <2>6. /\ probe \in Probe /\ now \in 1 .. MaxTime
          /\ now - probe.sink \in Nat
      BY DEF StreamType, SetupType, CoderInv, Probe
    <2>7. Average(probe.n + 1, Unit * (now - probe.sink), probe.enc) \in Nat
      <3>1. /\ probe.n + 1 \in Nat /\ Unit * (now - probe.sink) \in Nat
            /\ probe.enc \in Nat
        BY <2>6 DEF Unit, Probe
      <3>2. QED BY <3>1, AverageBetween
    <2>8. probe' \in Probe /\ probe'.sink = probe.sink /\ probe'.src = now
      <3> DEFINE avg == Average(probe.n + 1, Unit * (now - probe.sink), probe.enc)
      <3>1. \/ probe' = [probe EXCEPT !.src = now, !.n = probe.n + 1, !.enc = avg]
            \/ probe' = [probe EXCEPT !.src = now]
        BY <1>5, <2>6 DEF EncodeComplete, Probe
      <3>2. now \in 0 .. MaxTime /\ probe.n + 1 \in Nat
        BY <2>6 DEF Probe
      <3> HIDE DEF avg
      <3>3. avg \in Nat
        BY <2>7 DEF avg
      <3>4. QED BY <2>6, <3>1, <3>2, <3>3 DEF Probe
    <2>9. UNCHANGED <<app, now, delay>> /\ paying' = TRUE
      BY <1>5 DEF EncodeComplete, setup
    <2>10. StreamType'
      BY <2>2, <2>5, <2>8, <2>9 DEF StreamType
    <2>11. /\ \A i \in DOMAIN coder : coder[i] <= probe.sink
           /\ probe.sink = coder[Len(coder)] /\ probe.sink <= now
           /\ Len(coder) <= delay + 1 /\ (app = "new" => delay = 0)
           /\ delay \in Nat
      BY <2>1 DEF CoderInv, SetupType
    <2>12. \A i \in DOMAIN coder' : coder'[i] <= probe'.sink
      BY <2>2, <2>8, <2>11
    <2>13. coder' # <<>> => probe'.sink = coder'[Len(coder')]
      BY <2>3, <2>8, <2>11
    <2>14. probe'.src <= now' /\ probe'.sink <= now'
      BY <2>6, <2>8, <2>9, <2>11
    <2>15. Len(coder') <= delay' + 1
      BY <2>1, <2>2, <2>9, <2>11
    <2>16. QED
      BY <2>9, <2>10, <2>11, <2>12, <2>13, <2>14, <2>15 DEF CoderInv
  <1>6. CASE Packetized
    <2>1. probe \in Probe /\ now - probe.src \in Nat
      BY DEF StreamType, SetupType, CoderInv, Probe
    <2>2. Average(probe.n, Unit * (now - probe.src), probe.pkt) \in Nat
      <3>1. /\ probe.n \in Nat /\ Unit * (now - probe.src) \in Nat
            /\ probe.pkt \in Nat
        BY <2>1 DEF Unit, Probe
      <3>2. QED BY <3>1, AverageBetween
    <2>3. /\ probe' \in Probe
          /\ probe'.sink = probe.sink /\ probe'.src = probe.src
      BY <1>6, <2>1, <2>2 DEF Packetized, Probe
    <2>4. QED BY <1>6, <2>3 DEF Packetized, setup, StreamType, CoderInv
  <1>7. CASE Payed
    BY <1>7 DEF Payed, setup, StreamType, CoderInv
  <1>8. CASE Tick
    BY <1>8 DEF Tick, setup, stream, StreamType, SetupType, CoderInv, Probe
  <1>9. CASE Connect \/ StartPipeline \/ CreateDataChannel \/ StartBridge
             \/ ReceiverLeft \/ ShutdownBridge
    BY <1>1, <1>9 DEF Connect, StartPipeline, CreateDataChannel, StartBridge,
       ReceiverLeft, ShutdownBridge, setup, stream
  <1>10. QED
    BY <1>1, <1>2, <1>3, <1>4, <1>5, <1>6, <1>7, <1>8, <1>9, CameraLeaves,
       ChannelLeaves
    DEF Next, MainStep, StreamStep, Ended, vars, setup

LEMMA ChannelTypeNext == TypeInv /\ [Next]_vars => ChannelType'
  <1> SUFFICES ASSUME ChannelType, [Next]_vars PROVE ChannelType'
    BY DEF TypeInv, TypeOK
  <1>1. CASE UNCHANGED channel
    BY <1>1 DEF ChannelType, channel
  <1>2. CASE MainStep
    BY <1>2 DEF MainStep, Setup, Connect, StartPipeline, CreateDataChannel,
       StartBridge, ReceiverLeft, Shutdown, ShutdownBridge, ChannelType, channel
  <1>3. CASE CameraStep
    <2>1. CASE Emit
      BY <2>1 DEF Emit, ChannelType
    <2>2. CASE Capture \/ Push \/ ReadEnc \/ ReadPkt \/ TestOpen \/ GetChannel
      BY <1>1, <2>2 DEF Capture, Push, ReadEnc, ReadPkt, TestOpen, GetChannel
    <2>3. QED BY <1>3, <2>1, <2>2 DEF CameraStep
  <1>4. CASE ChannelStep
    <2>1. CASE DcOpens BY <2>1 DEF DcOpens, ChannelType
    <2>2. CASE DcAddsOpen BY <2>2 DEF DcAddsOpen, ChannelType
    <2>3. CASE DcCloses BY <2>3 DEF DcCloses, ChannelType
    <2>4. CASE DcDeletes BY <2>4 DEF DcDeletes, ChannelType
    <2>5. QED BY <1>4, <2>1, <2>2, <2>3, <2>4 DEF ChannelStep
  <1>5. QED
    BY <1>1, <1>2, <1>3, <1>4, StreamLeaves DEF Next, Tick, Ended, vars

LEMMA TypeNext == TypeInv /\ [Next]_vars => TypeInv'
  BY SetupTypeNext, CameraTypeNext, StreamTypeNext, ChannelTypeNext
  DEF TypeInv, TypeOK

LEMMA TypeInit == Init => TypeInv
  <1> SUFFICES ASSUME Init PROVE TypeInv
    OBVIOUS
  <1>1. SetupType /\ ChannelType
    <2>1. /\ 1 \in 1 .. MaxTime /\ 0 \in 0 .. MaxTime /\ 0 \in 0 .. MaxDelay
          /\ 0 \in Nat
      OBVIOUS
    <2>2. SetupType
      BY <2>1, Zenon DEF Init, SetupType
    <2>3. ChannelType
      BY <2>1, Zenon DEF Init, ChannelType
    <2>4. QED BY <2>2, <2>3
  <1>2. cam \in Camera
    BY DEF Init, Camera
  <1>3. CameraType
    BY <1>2 DEF Init, CameraType
  <1>4. StreamType
    <2>1. [sink |-> 0, src |-> 0, enc |-> 0, pkt |-> 0, n |-> 0] \in Probe
      BY DEF Probe
    <2>2. <<>> \in Seq(1 .. MaxTime) /\ {} \in SUBSET Nat /\ FALSE \in BOOLEAN
      OBVIOUS
    <2>3. QED BY <2>1, <2>2 DEF Init, StreamType
  <1>5. CoderInv
    BY DEF Init, CoderInv
  <1>6. QED BY <1>1, <1>3, <1>4, <1>5 DEF TypeInv, TypeOK

(* Every variable always has its type.                                     *)
THEOREM PipelineTypeCorrect == Spec => []TypeOK
  <1>1. TypeInv => TypeOK
    BY DEF TypeInv
  <1>2. QED BY <1>1, TypeInit, TypeNext, PTL DEF Spec

-----------------------------------------------------------------------------
(* The camera's time stamps.  The base is a capture after the pipeline     *)
(* began, and what is in the queue was captured no later than the frame    *)
(* that is pushed next.                                                    *)
PtsInv ==
  /\ began <= now /\ ptsBase <= now
  /\ ptsBase # 0 => began <= ptsBase
  /\ cam.pc = "push" =>
       /\ began <= cam.ts /\ ptsBase <= cam.ts /\ cam.ts <= now /\ cam.ts > 0
       /\ \A i \in DOMAIN queue : queue[i] + ptsBase <= cam.ts
  /\ app \notin {"running", "stopped", "ended"} => cam.pc = "off"
  /\ cam.pc = "off" => ptsBase = 0
  /\ queue # <<>> => ptsBase # 0
  /\ \A i \in DOMAIN queue : queue[i] + ptsBase <= now
  /\ \A i \in DOMAIN queue : \A j \in 1 .. i : queue[j] <= queue[i]

LEMMA PtsNext == TypeInv /\ PtsInv /\ [Next]_vars => PtsInv'
  <1> SUFFICES ASSUME TypeInv, PtsInv, [Next]_vars PROVE PtsInv'
    OBVIOUS
  <1>1. /\ now \in Nat /\ now >= 1 /\ began \in Nat /\ ptsBase \in Nat
        /\ cam \in Camera /\ cam.ts \in Nat
        /\ queue \in Seq(0 .. MaxTime)
        /\ DOMAIN queue = 1 .. Len(queue) /\ Len(queue) \in Nat
        /\ \A i \in DOMAIN queue : queue[i] \in Nat
    BY DEF TypeInv, TypeOK, SetupType, CameraType, Camera
  <1>2. ASSUME UNCHANGED <<queue, ptsBase, began, now>>,
               cam'.pc = cam.pc \/ (cam.pc # "off" /\ cam'.pc \notin {"push", "off"}),
               cam'.ts = cam.ts \/ cam'.pc # "push",
               \/ app' = app
               \/ /\ app \in {"running", "stopped", "ended"}
                  /\ app' \in {"running", "stopped", "ended"}
               \/ cam.pc = "off"
        PROVE PtsInv'
    BY <1>1, <1>2 DEF PtsInv
  <1>3. CASE Setup \/ Connect \/ CreateDataChannel
    <2>1. UNCHANGED <<queue, ptsBase, began, now, cam>> /\ cam.pc = "off"
      BY <1>3 DEF Setup, Connect, CreateDataChannel, setup, camera, PtsInv
    <2>2. QED BY <1>2, <2>1
  <1>4. CASE StartPipeline
    <2>1. cam.pc = "off" /\ ptsBase = 0 /\ queue = <<>>
      BY <1>4 DEF StartPipeline, PtsInv
    <2>2. UNCHANGED <<queue, ptsBase, cam, now>> /\ began' = now
      BY <1>4 DEF StartPipeline, camera
    <2>3. DOMAIN queue = {}
      BY <1>1, <2>1
    <2>4. QED BY <1>1, <2>1, <2>2, <2>3 DEF PtsInv
  <1>5. CASE StartBridge
    <2>1. /\ cam.pc = "off" /\ cam'.pc = "idle" /\ ptsBase = 0 /\ queue = <<>>
          /\ UNCHANGED <<queue, ptsBase, began, now>> /\ app' = "running"
      BY <1>1, <1>5 DEF StartBridge, PtsInv, setup, Camera
    <2>2. QED BY <1>1, <2>1 DEF PtsInv
  <1>6. CASE ReceiverLeft \/ ShutdownBridge
    BY <1>2, <1>6 DEF ReceiverLeft, ShutdownBridge, camera, setup
  <1>7. CASE Shutdown
    <2>1. /\ UNCHANGED <<ptsBase, began, now, cam>> /\ queue' = <<>>
          /\ app' = "stopped"
      BY <1>7 DEF Shutdown, setup
    <2>2. queue' # <<>> <=> FALSE
      BY <2>1
    <2>3. DOMAIN queue' = {}
      BY <2>1
    <2>4. QED BY <2>1, <2>2, <2>3 DEF PtsInv
  <1>8. CASE Capture
    <2>1. /\ UNCHANGED <<queue, ptsBase, began, now, app>>
          /\ cam.pc = "idle"
          /\ cam' = cam \/ (cam'.pc = "push" /\ cam'.ts = now)
      BY <1>1, <1>8 DEF Capture, Camera, setup
    <2>2. CASE cam' = cam
      BY <1>2, <2>1, <2>2
    <2>3. CASE cam'.pc = "push" /\ cam'.ts = now
      BY <1>1, <2>1, <2>3 DEF PtsInv
    <2>4. QED BY <2>1, <2>2, <2>3
  <1>9. CASE Push
    <2>1. /\ UNCHANGED <<began, now, app>> /\ ptsBase' = Base
          /\ cam.pc = "push" /\ cam'.pc = "readEnc" /\ cam'.ts = cam.ts
          /\ queue' = queue \/ queue' = Append(queue, RunningTime(cam.ts))
      BY <1>1, <1>9 DEF Push, Camera, setup
    <2>2. /\ began <= cam.ts /\ ptsBase <= cam.ts /\ cam.ts <= now /\ cam.ts > 0
          /\ \A i \in DOMAIN queue : queue[i] + ptsBase <= cam.ts
          /\ queue # <<>> => ptsBase # 0
          /\ \A i \in DOMAIN queue : \A j \in 1 .. i : queue[j] <= queue[i]
      BY <2>1 DEF PtsInv
    <2>3. /\ Base \in Nat /\ Base # 0 /\ Base <= cam.ts /\ began <= Base
          /\ queue # <<>> => Base = ptsBase
      BY <1>1, <2>2 DEF Base, PtsInv
    <2>4. RunningTime(cam.ts) = cam.ts - Base
      BY <1>1, <2>3 DEF RunningTime
    <2> DEFINE q == Append(queue, cam.ts - Base)
    <2>5. /\ DOMAIN q = 1 .. Len(queue) + 1
          /\ q[Len(queue) + 1] = cam.ts - Base
          /\ \A i \in 1 .. Len(queue) : q[i] = queue[i]
      BY <1>1, <2>3
    <2> HIDE DEF q
    <2>6. \A i \in 1 .. Len(queue) : queue[i] + Base <= cam.ts
      <3>1. CASE queue = <<>>
        BY <1>1, <3>1
      <3>2. CASE queue # <<>>
        BY <1>1, <2>2, <2>3, <3>2
      <3>3. QED BY <3>1, <3>2
    <2>7. ASSUME NEW i \in DOMAIN q PROVE q[i] + Base <= now
      <3>1. CASE i = Len(queue) + 1
        BY <1>1, <2>2, <2>3, <2>5, <3>1
      <3>2. CASE i # Len(queue) + 1
        <4>1. i \in 1 .. Len(queue)
          BY <1>1, <2>5, <3>2
        <4>2. queue[i] \in Nat /\ queue[i] + Base <= cam.ts /\ q[i] = queue[i]
          BY <1>1, <2>5, <2>6, <4>1
        <4>3. QED BY <1>1, <2>2, <2>3, <4>2
      <3>3. QED BY <3>1, <3>2
    <2>8. \A i \in DOMAIN q : \A j \in 1 .. i : q[j] <= q[i]
      <3> SUFFICES ASSUME NEW i \in DOMAIN q, NEW j \in 1 .. i
                   PROVE q[j] <= q[i]
        OBVIOUS
      <3>1. CASE i = Len(queue) + 1 /\ j = i
        BY <1>1, <2>3, <2>5, <3>1
      <3>2. CASE i = Len(queue) + 1 /\ j # i
        <4>1. j \in 1 .. Len(queue)
          BY <1>1, <3>2
        <4>2. queue[j] \in Nat /\ queue[j] + Base <= cam.ts
          BY <1>1, <2>6, <4>1
        <4>3. QED BY <1>1, <2>3, <2>5, <3>2, <4>1, <4>2
      <3>3. CASE i # Len(queue) + 1
        <4>1. i \in DOMAIN queue /\ j \in 1 .. Len(queue)
          BY <1>1, <2>5, <3>3
        <4>2. QED BY <1>1, <2>2, <2>5, <4>1
      <3>4. QED BY <3>1, <3>2, <3>3
    <2>9. \A i \in DOMAIN queue' : queue'[i] + Base <= now
      <3>1. CASE queue' = q
        BY <2>7, <3>1
      <3>2. CASE queue' = queue
        <4> SUFFICES ASSUME NEW i \in DOMAIN queue PROVE queue[i] + Base <= now
          BY <3>2
        <4>1. queue[i] \in Nat /\ queue[i] + Base <= cam.ts
          BY <1>1, <2>6
        <4>2. QED BY <1>1, <2>2, <2>3, <4>1
      <3>3. QED BY <2>1, <2>4, <3>1, <3>2 DEF q
    <2>10. \A i \in DOMAIN queue' : \A j \in 1 .. i : queue'[j] <= queue'[i]
      BY <2>1, <2>2, <2>4, <2>8 DEF q
    <2>11. app \in {"running", "stopped", "ended"}
      BY <2>1 DEF PtsInv
    <2>12. QED BY <1>1, <2>1, <2>2, <2>3, <2>9, <2>10, <2>11 DEF PtsInv
  <1>10. CASE ReadEnc \/ ReadPkt
    <2>1. /\ UNCHANGED <<queue, ptsBase, began, now, app>>
          /\ cam.pc # "off" /\ cam'.pc \in {"readPkt", "test"}
      BY <1>1, <1>10 DEF ReadEnc, ReadPkt, Camera, setup
    <2>2. QED BY <1>2, <2>1
  <1>11. CASE TestOpen \/ GetChannel \/ Emit
    <2>1. /\ UNCHANGED <<queue, ptsBase, began, now, app>>
          /\ cam.pc # "off" /\ cam'.pc \in {"idle", "get", "emit"}
      BY <1>1, <1>11 DEF TestOpen, GetChannel, Emit, Rest, Camera, setup
    <2>2. QED BY <1>2, <2>1
  <1>12. CASE EncodeStart
    <2>1. /\ UNCHANGED <<ptsBase, began, now, cam, app>>
          /\ queue # <<>> /\ queue' = Tail(queue)
      BY <1>12 DEF EncodeStart, setup
    <2>2. /\ DOMAIN queue' = 1 .. Len(queue) - 1
          /\ \A i \in DOMAIN queue' : /\ queue'[i] = queue[i + 1]
                                      /\ i + 1 \in DOMAIN queue
      BY <1>1, <2>1
    <2>3. \A i \in DOMAIN queue : \A j \in 1 .. i : queue[j] <= queue[i]
      BY DEF PtsInv
    <2>4. \A i \in DOMAIN queue' : \A j \in 1 .. i : queue'[j] <= queue'[i]
      <3> SUFFICES ASSUME NEW i \in DOMAIN queue', NEW j \in 1 .. i
                   PROVE queue'[j] <= queue'[i]
        OBVIOUS
      <3>1. i \in Nat /\ j \in DOMAIN queue' /\ j + 1 \in 1 .. i + 1
        BY <1>1, <2>2
      <3>2. queue[j + 1] <= queue[i + 1]
        BY <2>2, <2>3, <3>1
      <3>3. QED BY <2>2, <3>1, <3>2
    <2>5. QED BY <1>1, <2>1, <2>2, <2>4 DEF PtsInv
  <1>13. CASE EncodeComplete \/ Packetized \/ Payed
    <2>1. UNCHANGED <<queue, ptsBase, began, now, cam, app>>
      BY <1>13 DEF EncodeComplete, Packetized, Payed, camera, setup
    <2>2. QED BY <1>2, <2>1
  <1>14. CASE ChannelStep
    <2>1. UNCHANGED <<queue, ptsBase, began, now, cam, app>>
      BY <1>14, ChannelLeaves DEF camera, setup
    <2>2. QED BY <1>2, <2>1
  <1>15. CASE Tick
    <2>1. /\ UNCHANGED <<queue, ptsBase, began, cam, app>> /\ now' = now + 1
      BY <1>15 DEF Tick, camera, setup
    <2>2. QED BY <1>1, <2>1 DEF PtsInv
  <1>16. CASE UNCHANGED vars
    BY <1>2, <1>16 DEF vars, camera, setup
  <1>17. QED
    BY <1>3, <1>4, <1>5, <1>6, <1>7, <1>8, <1>9, <1>10, <1>11, <1>12, <1>13,
       <1>14, <1>15, <1>16
    DEF Next, MainStep, CameraStep, StreamStep, Ended

(* The running times in the queue are in order and not ahead of the clock  *)
(* of the pipeline, whenever images come and however long a step takes.    *)
THEOREM PipelinePtsIsRunningTime == Spec => []PtsIsRunningTime
  <1>1. Init => PtsInv
    BY DEF Init, PtsInv
  <1>2. TypeInv /\ PtsInv => PtsIsRunningTime
    <2> SUFFICES ASSUME TypeInv, PtsInv, NEW i \in DOMAIN queue
                 PROVE queue[i] <= now - began
      BY DEF PtsIsRunningTime, PtsInv
    <2>1. /\ queue \in Seq(0 .. MaxTime) /\ now \in Nat /\ began \in Nat
          /\ ptsBase \in Nat
      BY DEF TypeInv, TypeOK, SetupType, CameraType
    <2>2. queue[i] \in Nat /\ queue # <<>>
      BY <2>1
    <2>3. QED BY <2>1, <2>2 DEF PtsInv
  <1>3. QED BY <1>1, <1>2, TypeInit, TypeNext, PtsNext, PTL DEF Spec

-----------------------------------------------------------------------------
(* Timing messages after the stream is taken from _dc_open.                *)
LateInv ==
  /\ late \in Nat
  /\ dcOpen \/ cam.pc \in {"get", "emit"} => late = 0
  /\ late <= 1

LEMMA LateNext == TypeInv /\ LateInv /\ [Next]_vars => LateInv'
  <1> SUFFICES ASSUME TypeInv, LateInv, [Next]_vars PROVE LateInv'
    OBVIOUS
  <1>1. cam \in Camera
    BY DEF TypeInv, TypeOK, CameraType
  <1>2. ASSUME UNCHANGED late, dcOpen' => dcOpen,
               cam'.pc = cam.pc \/ cam'.pc \notin {"get", "emit"}
        PROVE LateInv'
    BY <1>2 DEF LateInv
  <1>3. CASE MainStep
    <2>1. UNCHANGED late
      BY <1>3, MainLeaves
    <2>2. dcOpen' => dcOpen
      BY <1>3 DEF MainStep, Setup, Connect, StartPipeline, CreateDataChannel,
         StartBridge, ReceiverLeft, Shutdown, ShutdownBridge, channel
    <2>3. cam' = cam \/ cam'.pc = "idle"
      BY <1>1, <1>3 DEF MainStep, Setup, Connect, StartPipeline,
         CreateDataChannel, StartBridge, ReceiverLeft, Shutdown, ShutdownBridge,
         camera, Camera
    <2>4. QED BY <1>2, <2>1, <2>2, <2>3
  <1>4. CASE Capture \/ Push \/ ReadEnc \/ ReadPkt
    <2>1. /\ UNCHANGED <<late, dcOpen>>
          /\ cam' = cam \/ cam'.pc \in {"push", "readEnc", "readPkt", "test"}
      BY <1>1, <1>4 DEF Capture, Push, ReadEnc, ReadPkt, channel, Camera
    <2>2. QED BY <1>2, <2>1
  <1>5. CASE TestOpen
    <2>1. UNCHANGED <<late, dcOpen>>
      BY <1>5 DEF TestOpen, channel
    <2>2. CASE dcOpen
      BY <2>1, <2>2 DEF LateInv
    <2>3. CASE ~dcOpen
      <3>1. cam'.pc = "idle"
        BY <1>1, <1>5, <2>3 DEF TestOpen, SeesOpen, Rest, Camera
      <3>2. QED BY <1>2, <2>1, <3>1
    <2>4. QED BY <2>2, <2>3
  <1>6. CASE GetChannel
    BY <1>6 DEF GetChannel, channel, LateInv
  <1>7. CASE Emit
    <2>1. cam.pc = "emit" /\ cam'.pc = "idle" /\ dcOpen' = dcOpen
      BY <1>1, <1>7 DEF Emit, Rest, Camera
    <2>2. late' = IF dcOpen THEN 0 ELSE late + 1
      BY <1>7 DEF Emit
    <2>3. QED BY <2>1, <2>2 DEF LateInv
  <1>8. CASE StreamStep
    BY <1>2, <1>8, StreamLeaves DEF channel
  <1>9. CASE DcAddsOpen
    BY <1>9 DEF DcAddsOpen, camera, LateInv
  <1>10. CASE DcOpens \/ DcCloses \/ DcDeletes
    BY <1>2, <1>10 DEF DcOpens, DcCloses, DcDeletes, camera
  <1>11. CASE Tick \/ UNCHANGED vars
    BY <1>2, <1>11 DEF Tick, vars, channel, camera
  <1>12. QED
    BY <1>3, <1>4, <1>5, <1>6, <1>7, <1>8, <1>9, <1>10, <1>11
    DEF Next, CameraStep, ChannelStep, Ended

(* A receiver that left, or whose channel closed, is sent at most one more *)
(* timing message, whatever the threads do in between.                     *)
THEOREM PipelineLateAtMostOnce == Spec => []LateAtMostOnce
  <1>1. Init => LateInv
    BY DEF Init, LateInv
  <1>2. LateInv => LateAtMostOnce
    BY DEF LateInv, LateAtMostOnce
  <1>3. QED BY <1>1, <1>2, TypeInit, TypeNext, LateNext, PTL DEF Spec

-----------------------------------------------------------------------------
(* What is pushed is in the format of appsrc.                              *)
LEMMA RGBNext == TypeInv /\ PushedIsRGB /\ [Next]_vars => PushedIsRGB'
  <1> SUFFICES ASSUME TypeInv, PushedIsRGB, [Next]_vars PROVE PushedIsRGB'
    OBVIOUS
  <1>1. cam \in Camera
    BY DEF TypeInv, TypeOK, CameraType
  <1>2. ASSUME cam' = cam \/ cam'.pc # "push" PROVE PushedIsRGB'
    BY <1>2 DEF PushedIsRGB
  <1>3. CASE MainStep
    <2>1. cam' = cam \/ cam'.pc = "idle"
      BY <1>1, <1>3 DEF MainStep, Setup, Connect, StartPipeline,
         CreateDataChannel, StartBridge, ReceiverLeft, Shutdown, ShutdownBridge,
         camera, Camera
    <2>2. QED BY <1>2, <2>1
  <1>4. CASE Capture
    <2>1. PICK e \in DOMAIN Layout :
            cam' = IF Len(Layout[e]) = Depth(e)
                   THEN [cam EXCEPT !.pc = "push", !.ts = now,
                                    !.pix = Converted(e), !.known = e # "uc3"]
                   ELSE cam
      <3>1. "rgb8" \in DOMAIN Layout
        BY DEF Layout
      <3>2. QED BY <1>4, <3>1 DEF Capture
    <2>2. CASE Len(Layout[e]) = Depth(e)
      <3>1. cam'.pix = Converted(e) /\ cam'.known = (e # "uc3")
        BY <1>1, <2>1, <2>2 DEF Camera
      <3>2. QED BY <2>2, <3>1, ConvertedIsRGB DEF PushedIsRGB
    <2>3. CASE Len(Layout[e]) # Depth(e)
      BY <1>2, <2>1, <2>3
    <2>4. QED BY <2>2, <2>3
  <1>5. CASE Push \/ ReadEnc \/ ReadPkt \/ TestOpen \/ GetChannel \/ Emit
    <2>1. cam'.pc # "push"
      BY <1>1, <1>5 DEF Push, ReadEnc, ReadPkt, TestOpen, GetChannel, Emit, Rest,
         Camera
    <2>2. QED BY <1>2, <2>1
  <1>6. CASE StreamStep \/ ChannelStep \/ Tick \/ UNCHANGED vars
    BY <1>2, <1>6, StreamLeaves, ChannelLeaves DEF Tick, vars, camera
  <1>7. QED
    BY <1>3, <1>4, <1>5, <1>6 DEF Next, CameraStep, Ended

(* For every set of encodings of the table, what is pushed has three       *)
(* channels, in the order red, green, blue if the bridge knows them.       *)
THEOREM PipelinePushedIsRGB == Spec => []PushedIsRGB
  <1>1. Init => PushedIsRGB
    BY DEF Init, PushedIsRGB
  <1>2. QED BY <1>1, TypeInit, TypeNext, RGBNext, PTL DEF Spec

-----------------------------------------------------------------------------
(* The average is between times that frames really spent in the encoder.   *)
(* The first sample is taken as it is, so that it is not averaged with the *)
(* initial 0.                                                              *)
MeasuredInv ==
  /\ MeasuredIsReal
  /\ app = "new" => probe.enc = 0 /\ cam.enc = 0
  /\ probe.n > 0 => probe.enc > 0

LEMMA MeasuredNext == TypeInv /\ MeasuredInv /\ [Next]_vars => MeasuredInv'
  <1> SUFFICES ASSUME TypeInv, MeasuredInv, [Next]_vars PROVE MeasuredInv'
    OBVIOUS
  <1>1. /\ cam \in Camera /\ probe \in Probe /\ real \in SUBSET Nat
        /\ delay \in Nat
    BY DEF TypeInv, TypeOK, CameraType, StreamType, SetupType
  <1>2. ASSUME NEW avg \in Nat, WithinReal(avg), real \subseteq real',
               delay' = delay
        PROVE WithinReal(avg)'
    BY <1>2 DEF WithinReal
  <1>3. ASSUME cam'.enc \in {0, cam.enc, probe.enc}, UNCHANGED <<probe, real>>,
               delay' = delay, app' = app \/ app' # "new"
        PROVE MeasuredInv'
    BY <1>3 DEF MeasuredInv, MeasuredIsReal, WithinReal
  <1>4. CASE Setup
    BY <1>4 DEF Setup, camera, stream, MeasuredInv, MeasuredIsReal, WithinReal
  <1>5. CASE MainStep /\ ~Setup
    <2>1. UNCHANGED <<probe, real>> /\ app' # "new"
      BY <1>5, MainLeaves
    <2>2. delay' = delay
      BY <1>5 DEF MainStep, Connect, StartPipeline, CreateDataChannel,
         StartBridge, ReceiverLeft, Shutdown, ShutdownBridge, setup
    <2>3. cam'.enc = cam.enc
      BY <1>1, <1>5 DEF MainStep, Connect, StartPipeline, CreateDataChannel,
         StartBridge, ReceiverLeft, Shutdown, ShutdownBridge, camera, Camera
    <2>4. QED BY <1>3, <2>1, <2>2, <2>3
  <1>6. CASE CameraStep
    <2>1. UNCHANGED <<probe, real, delay, app>>
      BY <1>6, CameraLeaves DEF stream, setup
    <2>2. cam'.enc \in {0, cam.enc, probe.enc}
      BY <1>1, <1>6 DEF CameraStep, Capture, Push, ReadEnc, ReadPkt, TestOpen,
         GetChannel, Emit, Rest, Camera
    <2>3. QED BY <1>3, <2>1, <2>2
  <1>7. CASE EncodeStart \/ Packetized \/ Payed
    <2>1. /\ UNCHANGED <<cam, real, delay, app>>
          /\ probe'.enc = probe.enc /\ probe'.n = probe.n
      BY <1>1, <1>7 DEF EncodeStart, Packetized, Payed, camera, setup, Probe
    <2>2. QED BY <2>1 DEF MeasuredInv, MeasuredIsReal, WithinReal
  <1>8. CASE EncodeComplete
    <2> DEFINE ms == now - probe.sink
               x == Unit * ms
               r == Unit * (now - Head(coder))
    <2>1. UNCHANGED <<cam, delay, app>> /\ real' = real \cup {r}
      BY <1>8 DEF EncodeComplete, camera, setup
    <2>2. /\ coder \in Seq(1 .. MaxTime) /\ now \in Nat /\ Len(coder) > delay
          /\ Len(coder) <= delay + 1 /\ probe.sink = coder[Len(coder)]
          /\ \A i \in DOMAIN coder : coder[i] <= probe.sink
          /\ probe.sink <= now
      BY <1>1, <1>8
      DEF EncodeComplete, TypeInv, TypeOK, SetupType, StreamType, CoderInv
    <2>3. Head(coder) = coder[1] /\ coder[1] \in Nat /\ coder[1] <= probe.sink
      BY <1>1, <2>2
    <2>4. delay = 0 => coder[1] = probe.sink
      BY <2>2
    <2>5. x \in Nat /\ r \in Nat /\ x <= r /\ (delay = 0 => x = r)
      <3>1. probe.sink \in Nat
        BY <1>1 DEF Probe
      <3>2. /\ ms \in Nat /\ now - Head(coder) \in Nat /\ ms <= now - Head(coder)
            /\ delay = 0 => ms = now - Head(coder)
        BY <2>2, <2>3, <2>4, <3>1
      <3> HIDE DEF ms
      <3>3. QED BY <3>2 DEF Unit
    <2>6. \/ probe'.enc = probe.enc /\ probe'.n = probe.n
          \/ /\ probe'.enc = Average(probe.n + 1, x, probe.enc)
             /\ probe'.n = probe.n + 1 /\ ms > 0
      BY <1>1, <1>8 DEF EncodeComplete, Probe
    <2>10. ms > 0 => x > 0
      BY <2>2, <1>1 DEF Unit, Probe
    <2>11. app # "new"
      BY <1>8 DEF EncodeComplete, Playing
    <2> HIDE DEF x, r
    <2>7. WithinReal(cam.enc)'
      BY <1>1, <1>2, <2>1 DEF MeasuredInv, MeasuredIsReal, Camera
    <2>8. WithinReal(probe.enc)' /\ (probe'.n > 0 => probe'.enc > 0)
      <3>1. CASE probe'.enc = probe.enc /\ probe'.n = probe.n
        BY <2>1, <3>1 DEF MeasuredInv, MeasuredIsReal, WithinReal
      <3>2. CASE /\ probe'.enc = Average(probe.n + 1, x, probe.enc)
                 /\ probe'.n = probe.n + 1 /\ ms > 0
        <4> DEFINE e == Average(probe.n + 1, x, probe.enc)
                   avg == probe.enc
        <4>1. avg \in Nat /\ probe.n \in Nat
          BY <1>1 DEF Probe
        <4>2. /\ e \in Nat /\ (e <= x \/ e <= avg) /\ (x <= e \/ avg <= e)
              /\ probe.n + 1 <= RawSamples => e = x
          <5>1. x \in Nat /\ avg \in Nat /\ probe.n + 1 \in Nat
            BY <2>5, <4>1
          <5> HIDE DEF avg
          <5>2. QED BY <5>1, AverageBetween, Zenon DEF avg
        <4>3. WithinReal(avg) /\ (probe.n > 0 => avg > 0)
          BY DEF MeasuredInv, MeasuredIsReal
        <4> HIDE DEF e, avg, ms
        <4>4. x > 0
          BY <2>10, <3>2
        <4>5. \E y \in real' : e <= y
          BY <1>1, <2>1, <2>5, <4>1, <4>2, <4>3 DEF WithinReal
        <4>6. e > 0 /\ (delay = 0 => \E y \in real' : y <= e)
          <5>1. CASE x <= e
            BY <2>1, <2>5, <4>2, <4>4, <5>1
          <5>2. CASE avg <= e /\ ~(x <= e)
            <6>1. avg > 0
              BY <2>5, <4>1, <4>2, <4>3, <5>2
            <6>2. QED
              BY <1>1, <2>1, <4>1, <4>2, <4>3, <5>2, <6>1 DEF WithinReal
          <5>3. QED BY <4>2, <5>1, <5>2
        <4>7. QED BY <2>1, <3>2, <4>5, <4>6 DEF WithinReal, e
      <3>3. QED BY <2>6, <3>1, <3>2
    <2>9. QED
      BY <2>1, <2>7, <2>8, <2>11 DEF MeasuredInv, MeasuredIsReal
  <1>9. CASE ChannelStep \/ Tick \/ UNCHANGED vars
    <2>1. UNCHANGED <<cam, probe, real, delay, app>>
      BY <1>9, ChannelLeaves DEF Tick, vars, camera, stream, setup
    <2>2. QED BY <1>3, <2>1
  <1>10. QED
    BY <1>4, <1>5, <1>6, <1>7, <1>8, <1>9 DEF Next, StreamStep, Ended

(* The encode time that is reported is one that frames really had, and too *)
(* small only where the encoder keeps frames back.                         *)
THEOREM PipelineMeasuresReal == Spec => []MeasuredIsReal
  <1>1. Init => MeasuredInv
    BY DEF Init, MeasuredInv, MeasuredIsReal, WithinReal
  <1>2. MeasuredInv => MeasuredIsReal
    BY DEF MeasuredInv
  <1>3. QED BY <1>1, <1>2, TypeInit, TypeNext, MeasuredNext, PTL DEF Spec

-----------------------------------------------------------------------------
(* After the shutdown the camera may run on, but nothing reaches the       *)
(* pipeline.                                                               *)
THEOREM PipelineStopIsFinal == Spec => StopIsFinal
  <1>1. [Next]_vars =>
          [(app \in {"stopped", "ended"}) => UNCHANGED <<queue, coder, probe>>]_vars
    <2> SUFFICES ASSUME Next, app \in {"stopped", "ended"}
                 PROVE UNCHANGED <<queue, coder, probe>>
      OBVIOUS
    <2>1. ~Playing /\ app # "new"
      BY DEF Playing
    <2>2. CASE MainStep
      BY <2>1, <2>2 DEF MainStep, Setup, Connect, StartPipeline,
         CreateDataChannel, StartBridge, ReceiverLeft, Shutdown, ShutdownBridge,
         camera, stream
    <2>3. CASE CameraStep
      BY <2>1, <2>3 DEF CameraStep, Capture, Push, Accepts, ReadEnc, ReadPkt,
         TestOpen, GetChannel, Emit, stream
    <2>4. CASE StreamStep
      BY <2>1, <2>4 DEF StreamStep, EncodeStart, EncodeComplete, Packetized,
         Payed
    <2>5. CASE ChannelStep \/ Tick \/ Ended
      BY <2>5, ChannelLeaves DEF Tick, Ended, vars, camera, stream
    <2>6. QED BY <2>2, <2>3, <2>4, <2>5 DEF Next
  <1>2. QED BY <1>1, PTL DEF Spec, StopIsFinal
=============================================================================
