-------------------------- MODULE TimestampTracker --------------------------
(***************************************************************************)
(* The per-frame timestamps of sender/timestamp.py.  A frame gets its id   *)
(* when it is captured, and every later stage of the pipeline calls the    *)
(* tracker with that id.  Only the newest MaxTracked frames of a stream    *)
(* are kept, so a stage may come for a frame that is already evicted.      *)
(*                                                                         *)
(* Capturing runs on the thread of the camera and the stages on those of   *)
(* the pipeline, with no lock: a stage is two steps here, the test whether *)
(* the frame is there and the access to it.  Nothing in the program calls  *)
(* the stages yet; how they are used is taken from their documentation.    *)
(***************************************************************************)
EXTENDS Integers, Sequences

CONSTANTS
  Stream,
  MaxTracked, \* MAX_TRACKED_FRAMES (300 in the code)
  MaxFrames,  \* bound: frames captured per stream
  MaxTime     \* bound: ticks of the monotonic clock

ASSUME TrackerAssumption ==
  MaxTracked \in Nat \ {0} /\ MaxFrames \in Nat /\ MaxTime \in Nat \ {0}

VARIABLES
  frames,  \* _frames: per stream, an OrderedDict as a sequence
  counter, \* _frame_counters
  next,    \* the stage each frame comes to next
  busy,    \* frames whose stage has been looked up and not yet stamped
  failed,  \* frames for which a stage raised KeyError
  now      \* monotonic time; 0.0 in a record means that a stage is missing

vars == <<frames, counter, next, busy, failed, now>>

(* The stages in the order of the pipeline, and the one after the last.    *)
Capture == 1
EncodeStart == 2
EncodeComplete == 3
Packetize == 4
Send == 5
Done == 6
Stage == Capture .. Send

FrameId == 1 .. MaxFrames

\* Mutant of NewFrame: the counter is read before it is incremented.
FrameOfOldCount(f, t) ==
  [frame_id |-> f - 1,
   ts |-> [st \in Stage |-> IF st = Capture THEN t ELSE 0]]

NewFrame(f, t) ==
  [frame_id |-> f, ts |-> [st \in Stage |-> IF st = Capture THEN t ELSE 0]]

(* encode_time, packetize_time, sender_pipeline_time: 0 until both ends    *)
(* are there.                                                              *)
Elapsed(fr, from, to) ==
  IF fr.ts[from] # 0 /\ fr.ts[to] # 0 THEN fr.ts[to] - fr.ts[from] ELSE 0
EncodeTime(fr) == Elapsed(fr, EncodeStart, EncodeComplete)
PacketizeTime(fr) == Elapsed(fr, EncodeComplete, Packetize)
PipelineTime(fr) == Elapsed(fr, Capture, Send)

\* Mutant of EvictOld: the newest frame is evicted.
EvictNew(q) == IF Len(q) > MaxTracked THEN [i \in 1 .. MaxTracked |-> q[i]]
                                      ELSE q

\* Mutant of EvictOld: one frame less is kept.
EvictEarly(q) ==
  LET n == Len(q) - MaxTracked + 1
  IN IF n > 0 THEN [i \in 1 .. MaxTracked - 1 |-> q[i + n]] ELSE q

EvictOld(q) ==
  LET n == Len(q) - MaxTracked
  IN IF n > 0 THEN [i \in 1 .. MaxTracked |-> q[i + n]] ELSE q

\* Mutant of Position: where the frame is unless some were evicted.
IdAsPosition(s, f) == {i \in DOMAIN frames[s] : i = f}

Position(s, f) == {i \in DOMAIN frames[s] : frames[s][i].frame_id = f}
Tracked(s, f) == Position(s, f) # {}

(* get_latest *)
Latest(s) == frames[s][Len(frames[s])]

Init ==
  /\ frames = [s \in Stream |-> <<>>]
  /\ counter = [s \in Stream |-> 0]
  /\ next = [s \in Stream |-> [f \in FrameId |-> Capture]]
  /\ busy = {} /\ failed = {}
  /\ now = 1

(* The time the frame was captured at is the caller's. *)
OnCapture(s, t) ==
  LET f == counter[s] + 1 IN
  /\ counter[s] < MaxFrames
  /\ counter' = [counter EXCEPT ![s] = f]
  /\ frames' = [frames EXCEPT ![s] = EvictOld(Append(@, NewFrame(f, t)))]
  /\ next' = [next EXCEPT ![s][f] = EncodeStart]
  /\ UNCHANGED <<busy, failed, now>>

Advance(s, f) == next' = [next EXCEPT ![s][f] = @ + 1]

(* on_encode_start ... on_send: "if frame_id in stream:" ... *)
StageTest(s, f) ==
  /\ next[s][f] \in EncodeStart .. Send
  /\ <<s, f>> \notin busy
  /\ IF Tracked(s, f)
     THEN busy' = busy \cup {<<s, f>>} /\ UNCHANGED next
     ELSE Advance(s, f) /\ UNCHANGED busy
  /\ UNCHANGED <<frames, counter, failed, now>>

(* ... "stream[frame_id].encode_ts = self._now_ms()" *)
StageStamp(s, f) ==
  /\ <<s, f>> \in busy
  /\ busy' = busy \ {<<s, f>>}
  /\ Advance(s, f)
  /\ frames' = [frames EXCEPT ![s] =
       [i \in DOMAIN @ |-> IF i \in Position(s, f)
                           THEN [@[i] EXCEPT !.ts[next[s][f]] = now]
                           ELSE @[i]]]
  /\ failed' = IF Tracked(s, f) THEN failed ELSE failed \cup {<<s, f>>}
  /\ UNCHANGED <<counter, now>>

Tick ==
  /\ now < MaxTime
  /\ now' = now + 1
  /\ UNCHANGED <<frames, counter, next, busy, failed>>

AllDone ==
  /\ now = MaxTime
  /\ \A s \in Stream, f \in FrameId : next[s][f] = Done
  /\ UNCHANGED vars

Next ==
  \/ \E s \in Stream :
       \/ \E t \in 1 .. now : OnCapture(s, t)
       \/ \E f \in FrameId : StageTest(s, f) \/ StageStamp(s, f)
  \/ Tick \/ AllDone

Spec == Init /\ [][Next]_vars

-----------------------------------------------------------------------------
(* Properties.                                                             *)

Frame == [frame_id : FrameId, ts : [Stage -> 0 .. MaxTime]]

(* Every variable has its type. *)
TypeOK ==
  /\ frames \in [Stream -> Seq(Frame)]
  /\ counter \in [Stream -> 0 .. MaxFrames]
  /\ next \in [Stream -> [FrameId -> Capture .. Done]]
  /\ busy \in SUBSET (Stream \X FrameId)
  /\ failed \in SUBSET (Stream \X FrameId)
  /\ now \in 1 .. MaxTime

(* A frame whose stage is under way has come to one.                       *)
BusyInStage ==
  \A s \in Stream, f \in FrameId :
    <<s, f>> \in busy => next[s][f] \in EncodeStart .. Send

(* What is tracked of a stream are exactly its newest frames, at most      *)
(* MaxTracked of them, in the order of capture, however captures and       *)
(* stages interleave; so the latest is the one captured last               *)
(* (timestamp.py:98-101, 111-123, 155-161).                                *)
KeptAreNewest ==
  \A s \in Stream :
    LET n == Len(frames[s]) IN
    /\ n = IF counter[s] < MaxTracked THEN counter[s] ELSE MaxTracked
    /\ \A i \in 1 .. n : frames[s][i].frame_id = counter[s] - n + i

(* A stage raises KeyError, its frame having been evicted by a capture     *)
(* after the test, only for a frame that is MaxTracked or more captures    *)
(* old: the tracker is safe without a lock as long as fewer frames than    *)
(* that are in the pipeline (timestamp.py:100, 128-129).                   *)
OnlyLaggardsFail ==
  \A s \in Stream, f \in FrameId :
    <<s, f>> \in failed => counter[s] - f >= MaxTracked

(* A tracked frame has the stamps of the stages it went through, in the    *)
(* order of time, and no others: no stage ever stamps another frame than   *)
(* its own, also after evictions, so no frame shows an encoding or         *)
(* packetizing time that it did not take (timestamp.py:48-67, 125-148).    *)
StampsAreOwn ==
  \A s \in Stream : \A i \in DOMAIN frames[s] :
    LET fr == frames[s][i]
        reached == next[s][fr.frame_id]
    IN /\ \A st \in Stage : fr.ts[st] > 0 <=> st < reached
       /\ \A st \in Stage \ {Capture} :
            st < reached => fr.ts[st - 1] <= fr.ts[st]

(* The times reported of a frame are never negative, and the parts add up  *)
(* to no more than the whole.                                              *)
PartsWithinWhole ==
  \A s \in Stream : \A i \in DOMAIN frames[s] :
    LET fr == frames[s][i] IN
    /\ EncodeTime(fr) >= 0 /\ PacketizeTime(fr) >= 0
    /\ fr.ts[Send] > 0 =>
         EncodeTime(fr) + PacketizeTime(fr) <= PipelineTime(fr)
=============================================================================
