----------------------- MODULE TimestampTrackerProofs -----------------------
(* Theorems about TimestampTracker, for every set of streams and all       *)
(* bounds.                                                                 *)
EXTENDS TimestampTracker, TLAPS

USE DEF Capture, EncodeStart, EncodeComplete, Packetize, Send, Done, Stage,
        FrameId

-----------------------------------------------------------------------------
(* Lemmas about the operators.                                             *)

(* A new frame is stamped as captured and not otherwise. *)
LEMMA NewFrameType ==
  ASSUME NEW f \in FrameId, NEW t \in 1 .. MaxTime
  PROVE /\ NewFrame(f, t) \in Frame
        /\ NewFrame(f, t).frame_id = f
        /\ \A st \in Stage :
             NewFrame(f, t).ts[st] = IF st = Capture THEN t ELSE 0
  BY TrackerAssumption DEF NewFrame, Frame

(* Evicting keeps the last MaxTracked elements of a sequence. *)
LEMMA EvictKeepsLast ==
  ASSUME NEW S, NEW q \in Seq(S)
  PROVE /\ EvictOld(q) \in Seq(S)
        /\ Len(EvictOld(q)) = IF Len(q) > MaxTracked THEN MaxTracked ELSE Len(q)
        /\ \A i \in 1 .. Len(EvictOld(q)) :
             EvictOld(q)[i] = q[Len(q) - Len(EvictOld(q)) + i]
  <1> DEFINE n == Len(q) - MaxTracked
  <1>1. CASE n > 0
    <2> DEFINE r == [i \in 1 .. MaxTracked |-> q[i + n]]
    <2>1. EvictOld(q) = r
      BY <1>1 DEF EvictOld
    <2>2. \A i \in 1 .. MaxTracked : i + n \in 1 .. Len(q)
      BY <1>1, TrackerAssumption
    <2>3. r \in Seq(S) /\ Len(r) = MaxTracked
      BY <2>2, TrackerAssumption
    <2>4. \A i \in 1 .. MaxTracked : i + n = Len(q) - MaxTracked + i
      BY TrackerAssumption
    <2> HIDE DEF r
    <2>5. \A i \in 1 .. MaxTracked : r[i] = q[Len(q) - MaxTracked + i]
      BY <2>4 DEF r
    <2>6. QED BY <1>1, <2>1, <2>3, <2>5, TrackerAssumption
  <1>2. CASE ~(n > 0)
    BY <1>2, TrackerAssumption DEF EvictOld
  <1>3. QED BY <1>1, <1>2

-----------------------------------------------------------------------------
TypeInv == TypeOK /\ BusyInStage

(* A stage moves the frame's position by one, for the frame alone. *)
LEMMA AdvanceType ==
  ASSUME TypeOK, NEW s \in Stream, NEW f \in FrameId, Advance(s, f),
         next[s][f] \in EncodeStart .. Send
  PROVE /\ next' \in [Stream -> [FrameId -> Capture .. Done]]
        /\ \A u \in Stream, g \in FrameId :
             next'[u][g] = IF u = s /\ g = f THEN next[s][f] + 1 ELSE next[u][g]
  <1>1. next[s] \in [FrameId -> Capture .. Done]
    BY DEF TypeOK
  <1> DEFINE n == next[s][f] + 1
             h == [next[s] EXCEPT ![f] = n]
  <1>2. n \in Capture .. Done
    OBVIOUS
  <1>3. next' = [next EXCEPT ![s] = h]
    BY DEF Advance
  <1> HIDE DEF n
  <1>4. /\ h \in [FrameId -> Capture .. Done]
        /\ \A g \in FrameId : h[g] = IF g = f THEN n ELSE next[s][g]
    BY <1>1, <1>2
  <1> HIDE DEF h
  <1>5. /\ next' \in [Stream -> [FrameId -> Capture .. Done]]
        /\ \A u \in Stream, g \in FrameId :
             next'[u][g] = IF u = s /\ g = f THEN n ELSE next[u][g]
    BY <1>3, <1>4 DEF TypeOK
  <1>6. QED BY <1>5 DEF n

(* Every variable has its type.  The counter is only ever incremented      *)
(* below its bound, and a frame is busy only between two stages.           *)
LEMMA TypeNext == TypeInv /\ [Next]_vars => TypeInv'
  <1> SUFFICES ASSUME TypeOK, BusyInStage, [Next]_vars PROVE TypeInv'
    BY DEF TypeInv
  <1> USE TrackerAssumption
  <1>1. ASSUME NEW s \in Stream, NEW t \in 1 .. now, OnCapture(s, t)
        PROVE TypeInv'
    <2> DEFINE f == counter[s] + 1
    <2>1. f \in FrameId /\ t \in 1 .. MaxTime
      BY <1>1 DEF OnCapture, TypeOK
    <2>2. NewFrame(f, t) \in Frame
      BY <2>1, NewFrameType
    <2>3. Append(frames[s], NewFrame(f, t)) \in Seq(Frame)
      BY <2>2 DEF TypeOK
    <2>4. EvictOld(Append(frames[s], NewFrame(f, t))) \in Seq(Frame)
      BY <2>3, EvictKeepsLast
    <2>5. frames' \in [Stream -> Seq(Frame)]
      BY <1>1, <2>4 DEF OnCapture, TypeOK
    <2>6. counter' \in [Stream -> 0 .. MaxFrames]
      BY <1>1, <2>1 DEF OnCapture, TypeOK
    <2> DEFINE h == [next[s] EXCEPT ![f] = EncodeStart]
    <2>7. /\ h \in [FrameId -> Capture .. Done]
          /\ \A g \in FrameId : h[g] = IF g = f THEN EncodeStart ELSE next[s][g]
      BY <2>1 DEF TypeOK
    <2>8. next' = [next EXCEPT ![s] = h]
      BY <1>1 DEF OnCapture
    <2> HIDE DEF h
    <2>9. next' \in [Stream -> [FrameId -> Capture .. Done]]
      BY <2>7, <2>8 DEF TypeOK
    <2>10. BusyInStage'
      BY <1>1, <2>7, <2>8 DEF OnCapture, TypeOK, BusyInStage
    <2>11. QED
      BY <1>1, <2>5, <2>6, <2>9, <2>10 DEF OnCapture, TypeOK, TypeInv
  <1>2. ASSUME NEW s \in Stream, NEW f \in FrameId, StageTest(s, f)
        PROVE TypeInv'
    <2>1. CASE Tracked(s, f)
      BY <1>2, <2>1 DEF StageTest, TypeOK, BusyInStage, TypeInv
    <2>2. CASE ~Tracked(s, f)
      <3>1. Advance(s, f) /\ next[s][f] \in EncodeStart .. Send
        BY <1>2, <2>2 DEF StageTest
      <3>2. next' \in [Stream -> [FrameId -> Capture .. Done]]
        BY <3>1, AdvanceType
      <3>3. BusyInStage'
        BY <1>2, <2>2, <3>1, AdvanceType DEF StageTest, BusyInStage
      <3>4. QED BY <1>2, <2>2, <3>2, <3>3 DEF StageTest, TypeOK, TypeInv
    <2>3. QED BY <2>1, <2>2
  <1>3. ASSUME NEW s \in Stream, NEW f \in FrameId, StageStamp(s, f)
        PROVE TypeInv'
    <2>1. Advance(s, f) /\ next[s][f] \in EncodeStart .. Send
      BY <1>3 DEF StageStamp, BusyInStage
    <2>2. next' \in [Stream -> [FrameId -> Capture .. Done]]
      BY <2>1, AdvanceType
    <2> DEFINE stamped(i) ==
                 IF i \in Position(s, f)
                 THEN [frames[s][i] EXCEPT !.ts[next[s][f]] = now]
                 ELSE frames[s][i]
               q == [i \in 1 .. Len(frames[s]) |-> stamped(i)]
    <2>3. frames' = [frames EXCEPT ![s] = q]
      <3>1. DOMAIN frames[s] = 1 .. Len(frames[s])
        BY DEF TypeOK
      <3>2. QED BY <1>3, <3>1, Zenon DEF StageStamp
    <2>4. ASSUME NEW i \in 1 .. Len(frames[s]) PROVE stamped(i) \in Frame
      <3>1. frames[s][i] \in Frame
        BY <2>4 DEF TypeOK
      <3> DEFINE st == next[s][f]
                 ts == [frames[s][i].ts EXCEPT ![st] = now]
      <3>2. st \in Stage /\ now \in 0 .. MaxTime
        BY <2>1 DEF TypeOK
      <3> HIDE DEF st
      <3>3. ts \in [Stage -> 0 .. MaxTime]
        BY <3>1, <3>2 DEF Frame
      <3>4. [frames[s][i] EXCEPT !.ts[st] = now]
              = [frames[s][i] EXCEPT !.ts = ts]
        BY <3>1 DEF Frame
      <3> HIDE DEF ts
      <3>5. [frames[s][i] EXCEPT !.ts = ts] \in Frame
        BY <3>1, <3>3 DEF Frame
      <3>6. QED BY <3>1, <3>4, <3>5 DEF st
    <2> HIDE DEF stamped
    <2>5. q \in Seq(Frame)
      BY <2>4 DEF TypeOK
    <2> HIDE DEF q
    <2>6. frames' \in [Stream -> Seq(Frame)]
      BY <2>3, <2>5 DEF TypeOK
    <2>7. BusyInStage'
      BY <1>3, <2>1, AdvanceType DEF StageStamp, BusyInStage
    <2>8. QED BY <1>3, <2>2, <2>6, <2>7 DEF StageStamp, TypeOK, TypeInv
  <1>4. CASE Tick
    BY <1>4 DEF Tick, TypeOK, BusyInStage, TypeInv
  <1>5. CASE UNCHANGED vars
    BY <1>5 DEF vars, TypeOK, BusyInStage, TypeInv
  <1>6. QED BY <1>1, <1>2, <1>3, <1>4, <1>5 DEF Next, AllDone

(* For any streams and bounds, every variable always has its type. *)
THEOREM TrackerTypeCorrect == Spec => []TypeOK
  <1>1. Init => TypeInv
    BY TrackerAssumption DEF Init, TypeOK, BusyInStage, TypeInv
  <1>2. TypeInv => TypeOK
    BY DEF TypeInv
  <1>3. QED BY <1>1, <1>2, TypeNext, PTL DEF Spec

-----------------------------------------------------------------------------
(* What the steps do to the frames of a stream.                            *)

(* A capture keeps the last frames and adds the new one.                   *)
LEMMA CaptureFrames ==
  ASSUME TypeInv, KeptAreNewest, NEW s \in Stream, NEW t \in 1 .. now,
         OnCapture(s, t)
  PROVE LET old == frames[s]
            new == frames'[s]
            n == Len(new)
            c == counter[s]
        IN /\ c + 1 \in FrameId /\ counter'[s] = c + 1
           /\ n = IF c + 1 < MaxTracked THEN c + 1 ELSE MaxTracked
           /\ new[n] = NewFrame(c + 1, t)
           /\ \A i \in 1 .. n - 1 : /\ Len(old) + 1 - n + i \in 1 .. Len(old)
                                    /\ new[i] = old[Len(old) + 1 - n + i]
           /\ \A u \in Stream \ {s} : /\ frames'[u] = frames[u]
                                      /\ counter'[u] = counter[u]
  <1> USE TrackerAssumption
  <1> DEFINE c == counter[s]
             fr == NewFrame(c + 1, t)
             q == Append(frames[s], fr)
  <1>1. c + 1 \in FrameId /\ t \in 1 .. MaxTime /\ c \in Nat
    BY DEF OnCapture, TypeInv, TypeOK
  <1>2. frames[s] \in Seq(Frame) /\ fr \in Frame
    BY <1>1, NewFrameType DEF TypeInv, TypeOK
  <1> HIDE DEF fr
  <1>3. /\ q \in Seq(Frame) /\ Len(q) = Len(frames[s]) + 1
        /\ q[Len(q)] = fr
        /\ \A i \in 1 .. Len(frames[s]) : q[i] = frames[s][i]
    BY <1>2
  <1>4. frames'[s] = EvictOld(q)
    BY DEF OnCapture, TypeInv, TypeOK, fr
  <1> HIDE DEF q
  <1>5. /\ Len(EvictOld(q)) = IF Len(q) > MaxTracked THEN MaxTracked ELSE Len(q)
        /\ \A i \in 1 .. Len(EvictOld(q)) :
             EvictOld(q)[i] = q[Len(q) - Len(EvictOld(q)) + i]
    BY <1>3, EvictKeepsLast
  <1>6. Len(frames[s]) = IF c < MaxTracked THEN c ELSE MaxTracked
    BY DEF KeptAreNewest
  <1>7. /\ counter'[s] = c + 1
        /\ \A u \in Stream \ {s} : /\ frames'[u] = frames[u]
                                   /\ counter'[u] = counter[u]
    BY DEF OnCapture, TypeInv, TypeOK
  <1> DEFINE n == Len(frames'[s])
  <1>8. n = IF c + 1 < MaxTracked THEN c + 1 ELSE MaxTracked
    BY <1>1, <1>3, <1>4, <1>5, <1>6
  <1> DEFINE m == Len(frames[s])
  <1>9. n \in Nat /\ n >= 1 /\ n <= m + 1 /\ m \in Nat
    BY <1>1, <1>2, <1>6, <1>8
  <1> HIDE DEF n
  <1>10. ASSUME NEW i \in 1 .. n PROVE frames'[s][i] = q[m + 1 - n + i]
    <2> DEFINE e == EvictOld(q)
    <2> HIDE DEF e
    <2>1. frames'[s] = e /\ n = Len(e) /\ \A j \in 1 .. Len(e) : e[j] = q[Len(q) - Len(e) + j]
      BY <1>4, <1>5 DEF n, e
    <2>2. frames'[s][i] = q[Len(q) - n + i]
      BY <2>1
    <2>3. Len(q) - n + i = m + 1 - n + i
      BY <1>3, <1>9
    <2>4. QED BY <2>2, <2>3
  <1>11. frames'[s][n] = fr
    <2>1. n \in 1 .. n /\ m + 1 - n + n = Len(q)
      BY <1>3, <1>9
    <2>2. QED BY <1>3, <1>10, <2>1
  <1>12. ASSUME NEW i \in 1 .. n - 1
         PROVE /\ m + 1 - n + i \in 1 .. m
               /\ frames'[s][i] = frames[s][m + 1 - n + i]
    <2>1. i \in 1 .. n /\ m + 1 - n + i \in 1 .. m
      BY <1>9
    <2>2. QED BY <1>3, <1>10, <2>1
  <1>13. QED BY <1>1, <1>7, <1>8, <1>11, <1>12 DEF fr, n

(* A stamp changes one time of one frame, and its place in no stream.      *)
LEMMA StampFrames ==
  ASSUME TypeInv, NEW s \in Stream, NEW f \in FrameId, StageStamp(s, f)
  PROVE /\ \A u \in Stream :
             /\ Len(frames'[u]) = Len(frames[u])
             /\ DOMAIN frames'[u] = DOMAIN frames[u]
             /\ \A i \in DOMAIN frames[u] :
                  /\ frames'[u][i].frame_id = frames[u][i].frame_id
                  /\ \A st \in Stage :
                       frames'[u][i].ts[st] =
                         IF u = s /\ frames[u][i].frame_id = f /\ st = next[s][f]
                         THEN now ELSE frames[u][i].ts[st]
        /\ next[s][f] \in EncodeStart .. Send /\ Advance(s, f)
        /\ counter' = counter /\ now' = now
  <1>1. frames \in [Stream -> Seq(Frame)] /\ next[s][f] \in EncodeStart .. Send
    BY DEF StageStamp, TypeInv, TypeOK, BusyInStage
  <1> DEFINE st0 == next[s][f]
             new(i) == IF i \in Position(s, f)
                       THEN [frames[s][i] EXCEPT !.ts[st0] = now]
                       ELSE frames[s][i]
             q == [i \in 1 .. Len(frames[s]) |-> new(i)]
  <1>2. DOMAIN frames[s] = 1 .. Len(frames[s])
    BY <1>1
  <1>3. frames' = [frames EXCEPT ![s] = q]
    BY <1>2, Zenon DEF StageStamp
  <1>4. \A i \in 1 .. Len(frames[s]) : frames[s][i] \in Frame
    BY <1>1
  <1>5. \A i \in 1 .. Len(frames[s]) :
          /\ new(i).frame_id = frames[s][i].frame_id
          /\ \A st \in Stage :
               new(i).ts[st] = IF frames[s][i].frame_id = f /\ st = st0
                               THEN now ELSE frames[s][i].ts[st]
    BY <1>1, <1>2, <1>4 DEF Frame, Position
  <1> HIDE DEF new, st0
  <1>6. Len(q) = Len(frames[s]) /\ DOMAIN q = DOMAIN frames[s]
    BY <1>1, <1>2
  <1>7. \A u \in Stream : frames'[u] = IF u = s THEN q ELSE frames[u]
    BY <1>1, <1>3
  <1>8. \A i \in DOMAIN frames[s] : q[i] = new(i)
    BY <1>2
  <1> HIDE DEF q
  <1>9. ASSUME NEW u \in Stream, u # s
        PROVE frames'[u] = frames[u]
    BY <1>7, <1>9
  <1>10. ASSUME NEW i \in DOMAIN frames[s]
         PROVE /\ frames'[s][i].frame_id = frames[s][i].frame_id
               /\ \A st \in Stage :
                    frames'[s][i].ts[st] =
                      IF frames[s][i].frame_id = f /\ st = st0
                      THEN now ELSE frames[s][i].ts[st]
    <2>1. frames'[s] = q
      BY <1>7
    <2>2. frames'[s][i] = new(i)
      BY <1>8, <2>1
    <2>3. i \in 1 .. Len(frames[s])
      BY <1>2
    <2>4. QED BY <1>5, <2>2, <2>3
  <1>11. QED BY <1>1, <1>6, <1>7, <1>9, <1>10 DEF StageStamp, st0

-----------------------------------------------------------------------------
(* The newest frames are kept: the invariant is inductive with the types.  *)
LEMMA KeptNext ==
  TypeInv /\ KeptAreNewest /\ [Next]_vars => KeptAreNewest'
  <1> SUFFICES ASSUME TypeInv, KeptAreNewest, [Next]_vars PROVE KeptAreNewest'
    OBVIOUS
  <1> USE TrackerAssumption
  <1>1. ASSUME NEW s \in Stream, NEW t \in 1 .. now, OnCapture(s, t)
        PROVE KeptAreNewest'
    <2> SUFFICES ASSUME NEW u \in Stream
                 PROVE LET n == Len(frames'[u]) IN
                       /\ n = IF counter'[u] < MaxTracked THEN counter'[u]
                                                          ELSE MaxTracked
                       /\ \A i \in 1 .. n :
                            frames'[u][i].frame_id = counter'[u] - n + i
      BY DEF KeptAreNewest
    <2>1. CASE u # s
      <3>1. frames'[u] = frames[u] /\ counter'[u] = counter[u]
        BY <1>1, <2>1, CaptureFrames
      <3>2. QED BY <3>1 DEF KeptAreNewest
    <2>2. CASE u = s
      <3> DEFINE n == Len(frames'[s])
                 m == Len(frames[s])
                 c == counter[s]
      <3>1. /\ c + 1 \in FrameId /\ counter'[s] = c + 1
            /\ n = IF c + 1 < MaxTracked THEN c + 1 ELSE MaxTracked
            /\ frames'[s][n] = NewFrame(c + 1, t)
            /\ \A i \in 1 .. n - 1 : /\ m + 1 - n + i \in 1 .. m
                                     /\ frames'[s][i] = frames[s][m + 1 - n + i]
        BY <1>1, CaptureFrames
      <3>2. /\ m = IF c < MaxTracked THEN c ELSE MaxTracked
            /\ \A i \in 1 .. m : frames[s][i].frame_id = c - m + i
        BY DEF KeptAreNewest
      <3>3. c \in Nat /\ NewFrame(c + 1, t).frame_id = c + 1
        BY DEF TypeInv, TypeOK, NewFrame
      <3> HIDE DEF n, m, c
      <3>4. n \in Nat /\ m \in Nat
        BY <3>1, <3>2, <3>3
      <3>5. \A i \in 1 .. n - 1 : frames'[s][i].frame_id = c + 1 - n + i
        <4> TAKE i \in 1 .. n - 1
        <4>1. frames'[s][i].frame_id = c - m + (m + 1 - n + i)
          BY <3>1, <3>2
        <4>2. QED BY <3>3, <3>4, <4>1
      <3>6. \A i \in 1 .. n : frames'[s][i].frame_id = c + 1 - n + i
        BY <3>1, <3>3, <3>4, <3>5
      <3>7. /\ counter'[s] = c + 1
            /\ n = IF c + 1 < MaxTracked THEN c + 1 ELSE MaxTracked
        BY <3>1
      <3>8. \A i \in 1 .. n : frames'[s][i].frame_id = counter'[s] - n + i
        BY <3>3, <3>4, <3>6, <3>7
      <3>9. n = Len(frames'[s])
        BY DEF n
      <3>10. QED BY <2>2, <3>7, <3>8, <3>9
    <2>3. QED BY <2>1, <2>2
  <1>2. ASSUME NEW s \in Stream, NEW f \in FrameId, StageStamp(s, f)
        PROVE KeptAreNewest'
    <2>1. \A u \in Stream : DOMAIN frames[u] = 1 .. Len(frames[u])
      BY DEF TypeInv, TypeOK
    <2>2. QED BY <1>2, <2>1, StampFrames DEF KeptAreNewest
  <1>3. ASSUME UNCHANGED <<frames, counter>> PROVE KeptAreNewest'
    BY <1>3 DEF KeptAreNewest
  <1>4. QED
    BY <1>1, <1>2, <1>3 DEF Next, StageTest, Tick, AllDone, vars

(* For any number of streams and frames, what is tracked are the newest.   *)
THEOREM TrackerKeepsNewest == Spec => []KeptAreNewest
  <1>1. Init => TypeInv /\ KeptAreNewest
    BY TrackerAssumption
    DEF Init, TypeOK, BusyInStage, TypeInv, KeptAreNewest
  <1>2. QED BY <1>1, TypeNext, KeptNext, PTL DEF Spec

-----------------------------------------------------------------------------
(* Only captured frames come to a stage.                                   *)
Captured ==
  \A s \in Stream, f \in FrameId : next[s][f] > Capture => f <= counter[s]

(* A capture makes its own frame ready for the encoder, and no other.      *)
LEMMA CaptureNext ==
  ASSUME TypeInv, NEW s \in Stream, NEW t \in 1 .. now, OnCapture(s, t)
  PROVE \A u \in Stream, g \in FrameId :
          next'[u][g] = IF u = s /\ g = counter[s] + 1 THEN EncodeStart
                                                       ELSE next[u][g]
  <1> DEFINE f == counter[s] + 1
             h == [next[s] EXCEPT ![f] = EncodeStart]
  <1>1. \A g \in FrameId : h[g] = IF g = f THEN EncodeStart ELSE next[s][g]
    BY DEF TypeInv, TypeOK
  <1>2. next' = [next EXCEPT ![s] = h]
    BY DEF OnCapture
  <1> HIDE DEF h
  <1>3. QED BY <1>1, <1>2 DEF TypeInv, TypeOK

LEMMA CapturedNext ==
  TypeInv /\ Captured /\ [Next]_vars => Captured'
  <1> SUFFICES ASSUME TypeInv, Captured, [Next]_vars PROVE Captured'
    OBVIOUS
  <1> USE TrackerAssumption
  <1>1. ASSUME NEW s \in Stream, NEW t \in 1 .. now, OnCapture(s, t)
        PROVE Captured'
    <2>1. \A u \in Stream : counter'[u] = IF u = s THEN counter[s] + 1
                                                   ELSE counter[u]
      BY <1>1 DEF OnCapture, TypeInv, TypeOK
    <2>2. \A u \in Stream : counter[u] \in Nat
      BY DEF TypeInv, TypeOK
    <2>3. QED BY <1>1, <2>1, <2>2, CaptureNext DEF Captured
  <1>2. ASSUME NEW s \in Stream, NEW f \in FrameId, Advance(s, f),
               next[s][f] \in EncodeStart .. Send, UNCHANGED counter
        PROVE Captured'
    BY <1>2, AdvanceType DEF Captured, TypeInv
  <1>3. ASSUME UNCHANGED <<next, counter>> PROVE Captured'
    BY <1>3 DEF Captured
  <1>4. ASSUME NEW s \in Stream, NEW f \in FrameId,
               StageTest(s, f) \/ StageStamp(s, f)
        PROVE Captured'
    BY <1>2, <1>3, <1>4 DEF StageTest, StageStamp, TypeInv, BusyInStage
  <1>5. QED BY <1>1, <1>3, <1>4 DEF Next, Tick, AllDone, vars

-----------------------------------------------------------------------------
(* A stage fails only for a frame MaxTracked captures old.                 *)

(* A captured frame that is not tracked is that old.                       *)
LEMMA UntrackedIsOld ==
  ASSUME TypeInv, KeptAreNewest, Captured,
         NEW s \in Stream, NEW f \in FrameId, next[s][f] > Capture,
         ~Tracked(s, f)
  PROVE counter[s] - f >= MaxTracked
  <1> USE TrackerAssumption
  <1> DEFINE n == Len(frames[s])
             c == counter[s]
  <1>1. /\ n = IF c < MaxTracked THEN c ELSE MaxTracked
        /\ \A i \in 1 .. n : frames[s][i].frame_id = c - n + i
    BY DEF KeptAreNewest
  <1>2. c \in Nat /\ f <= c /\ f \in Nat /\ f >= 1
    BY DEF Captured, TypeInv, TypeOK
  <1>3. DOMAIN frames[s] = 1 .. n /\ n \in Nat
    BY DEF TypeInv, TypeOK
  <1> HIDE DEF n, c
  <1>4. ~(n - (c - f) \in 1 .. n)
    <2> SUFFICES ASSUME n - (c - f) \in 1 .. n PROVE FALSE
      OBVIOUS
    <2> DEFINE j == n - (c - f)
    <2>1. frames[s][j].frame_id = f
      <3>1. c - n + j = f
        BY <1>2, <1>3
      <3>2. j \in 1 .. n
        OBVIOUS
      <3> HIDE DEF j
      <3>3. frames[s][j].frame_id = c - n + j
        BY <1>1, <3>2
      <3>4. QED BY <3>1, <3>3
    <2>2. j \in DOMAIN frames[s]
      BY <1>3
    <2>3. Position(s, f) # {}
      BY <2>1, <2>2 DEF Position
    <2>4. QED BY <2>3 DEF Tracked
  <1>5. c - f >= n
    BY <1>2, <1>3, <1>4
  <1>6. QED BY <1>1, <1>2, <1>5 DEF c

LEMMA LaggardsNext ==
  TypeInv /\ KeptAreNewest /\ Captured /\ OnlyLaggardsFail /\ [Next]_vars
    => OnlyLaggardsFail'
  <1> SUFFICES ASSUME TypeInv, KeptAreNewest, Captured, OnlyLaggardsFail,
                      [Next]_vars
               PROVE OnlyLaggardsFail'
    OBVIOUS
  <1> USE TrackerAssumption
  <1>1. ASSUME NEW s \in Stream, NEW t \in 1 .. now, OnCapture(s, t)
        PROVE OnlyLaggardsFail'
    <2>1. \A u \in Stream : /\ counter[u] \in Nat
                            /\ counter'[u] = IF u = s THEN counter[s] + 1
                                                      ELSE counter[u]
      BY <1>1 DEF OnCapture, TypeInv, TypeOK
    <2>2. failed' = failed
      BY <1>1 DEF OnCapture
    <2>3. QED BY <2>1, <2>2 DEF OnlyLaggardsFail
  <1>2. ASSUME NEW s \in Stream, NEW f \in FrameId, StageStamp(s, f)
        PROVE OnlyLaggardsFail'
    <2>1. next[s][f] > Capture
      BY <1>2 DEF StageStamp, TypeInv, BusyInStage
    <2>2. ~Tracked(s, f) => counter[s] - f >= MaxTracked
      BY <2>1, UntrackedIsOld
    <2>3. QED BY <1>2, <2>2 DEF StageStamp, OnlyLaggardsFail
  <1>3. ASSUME UNCHANGED <<failed, counter>> PROVE OnlyLaggardsFail'
    BY <1>3 DEF OnlyLaggardsFail
  <1>4. QED
    BY <1>1, <1>2, <1>3 DEF Next, StageTest, Tick, AllDone, vars

(* For any number of streams and frames, however the threads interleave,   *)
(* only a frame that MaxTracked later captures pushed out makes a stage    *)
(* fail.                                                                   *)
THEOREM TrackerFailsLaggardsOnly == Spec => []OnlyLaggardsFail
  <1>1. Init => TypeInv /\ KeptAreNewest /\ Captured /\ OnlyLaggardsFail
    BY TrackerAssumption
    DEF Init, TypeOK, BusyInStage, TypeInv, KeptAreNewest, Captured,
        OnlyLaggardsFail
  <1>2. QED
    BY <1>1, TypeNext, KeptNext, CapturedNext, LaggardsNext, PTL DEF Spec

-----------------------------------------------------------------------------
(* The stamps of a frame are those of its own stages.                      *)

(* Nothing is stamped later than now.                                      *)
NotLater ==
  \A s \in Stream : \A i \in DOMAIN frames[s] : \A st \in Stage :
    frames[s][i].ts[st] <= now

Stamps == StampsAreOwn /\ NotLater

(* The same for one frame, given the stage it comes to.                    *)
FrameStamps(fr, reached) ==
  /\ \A st \in Stage : fr.ts[st] > 0 <=> st < reached
  /\ \A st \in Stage \ {Capture} : st < reached => fr.ts[st - 1] <= fr.ts[st]
  /\ \A st \in Stage : fr.ts[st] <= now

LEMMA StampsPerFrame ==
  ASSUME TypeInv
  PROVE Stamps <=> \A s \in Stream : \A i \in DOMAIN frames[s] :
                     FrameStamps(frames[s][i], next[s][frames[s][i].frame_id])
  BY DEF Stamps, StampsAreOwn, NotLater, FrameStamps

LEMMA StampsNext ==
  TypeInv /\ KeptAreNewest /\ Captured /\ Stamps /\ [Next]_vars => Stamps'
  <1> SUFFICES ASSUME TypeInv, KeptAreNewest, Captured, Stamps, [Next]_vars
               PROVE \A s \in Stream : \A i \in DOMAIN frames'[s] :
                       FrameStamps(frames[s][i],
                                   next[s][frames[s][i].frame_id])'
    BY TypeNext, StampsPerFrame, Zenon DEF Stamps, StampsAreOwn, NotLater, FrameStamps
  <1> USE TrackerAssumption
  <1>1. ASSUME NEW s \in Stream
        PROVE /\ frames[s] \in Seq(Frame)
              /\ DOMAIN frames[s] = 1 .. Len(frames[s])
              /\ counter[s] \in Nat
              /\ \A i \in DOMAIN frames[s] :
                   /\ frames[s][i].frame_id \in FrameId
                   /\ frames[s][i].frame_id <= counter[s]
                   /\ frames[s][i].ts \in [Stage -> 0 .. MaxTime]
                   /\ FrameStamps(frames[s][i], next[s][frames[s][i].frame_id])
    <2>1. frames[s] \in Seq(Frame) /\ counter[s] \in Nat
      BY DEF TypeInv, TypeOK
    <2>2. DOMAIN frames[s] = 1 .. Len(frames[s])
      BY <2>1
    <2>3. ASSUME NEW i \in DOMAIN frames[s]
          PROVE /\ frames[s][i].frame_id \in FrameId
                /\ frames[s][i].frame_id <= counter[s]
                /\ frames[s][i].ts \in [Stage -> 0 .. MaxTime]
      <3>1. frames[s][i] \in Frame
        BY <2>1, <2>2
      <3>2. frames[s][i].frame_id = counter[s] - Len(frames[s]) + i
        BY <2>2 DEF KeptAreNewest
      <3>3. i \in Nat /\ Len(frames[s]) \in Nat /\ i <= Len(frames[s])
        BY <2>1, <2>2
      <3>4. frames[s][i].frame_id <= counter[s]
        BY <2>1, <3>2, <3>3
      <3>5. QED BY <3>1, <3>4 DEF Frame
    <2>4. QED BY <2>1, <2>2, <2>3, StampsPerFrame
  <1>2. now \in Nat /\ now \in 1 .. MaxTime
    BY DEF TypeInv, TypeOK
  <1>3. ASSUME NEW s \in Stream, NEW t \in 1 .. now, OnCapture(s, t),
               NEW u \in Stream, NEW i \in DOMAIN frames'[u]
        PROVE FrameStamps(frames[u][i], next[u][frames[u][i].frame_id])'
    <2> DEFINE c == counter[s]
    <2>1. now' = now
      BY <1>3 DEF OnCapture
    <2>2. \A v \in Stream, g \in FrameId :
            next'[v][g] = IF v = s /\ g = c + 1 THEN EncodeStart ELSE next[v][g]
      BY <1>3, CaptureNext
    <2>3. CASE u # s
      <3>1. frames'[u] = frames[u]
        BY <1>3, <2>3, CaptureFrames
      <3> DEFINE fr == frames[u][i]
      <3>2. fr.frame_id \in FrameId /\ FrameStamps(fr, next[u][fr.frame_id])
        BY <1>1, <1>3, <3>1
      <3>3. next'[u][fr.frame_id] = next[u][fr.frame_id]
        BY <2>2, <2>3, <3>2
      <3>4. QED BY <2>1, <3>1, <3>2, <3>3 DEF FrameStamps
    <2>4. CASE u = s
      <3> DEFINE n == Len(frames'[s])
                 j == Len(frames[s]) + 1 - n + i
      <3>1. /\ frames'[s][n] = NewFrame(c + 1, t) /\ c + 1 \in FrameId
            /\ i \in 1 .. n - 1 => /\ j \in 1 .. Len(frames[s])
                                   /\ frames'[s][i] = frames[s][j]
        BY <1>3, CaptureFrames
      <3>2. frames'[s] \in Seq(Frame)
        BY TypeNext DEF TypeInv, TypeOK
      <3>3. i \in 1 .. n /\ n \in Nat
        BY <1>3, <2>4, <3>2
      <3>4. CASE i = n
        <4> DEFINE fr == NewFrame(c + 1, t)
        <4>1. /\ fr.frame_id = c + 1
              /\ \A st \in Stage : fr.ts[st] = IF st = Capture THEN t ELSE 0
          BY <1>2, <3>1, NewFrameType
        <4>2. next'[s][c + 1] = EncodeStart
          BY <2>2, <3>1
        <4> HIDE DEF fr
        <4>3. FrameStamps(fr, EncodeStart)
          BY <1>2, <1>3, <4>1 DEF FrameStamps
        <4>4. frames'[u][i] = fr
          BY <2>4, <3>1, <3>4 DEF fr
        <4>5. QED BY <2>1, <2>4, <4>1, <4>2, <4>3, <4>4 DEF FrameStamps
      <3>5. CASE i # n
        <4>1. j \in DOMAIN frames[s] /\ frames'[u][i] = frames[s][j]
          <5>1. i \in 1 .. n - 1
            BY <3>3, <3>5
          <5>2. DOMAIN frames[s] = 1 .. Len(frames[s])
            BY <1>1
          <5>3. QED BY <2>4, <3>1, <5>1, <5>2
        <4> HIDE DEF j
        <4>2. next'[s][frames[s][j].frame_id] = next[s][frames[s][j].frame_id]
          BY <1>1, <2>2, <4>1
        <4>3. FrameStamps(frames[s][j], next[s][frames[s][j].frame_id])
          BY <1>1, <4>1
        <4>4. QED BY <2>1, <2>4, <4>1, <4>2, <4>3 DEF FrameStamps
      <3>6. QED BY <3>4, <3>5
    <2>5. QED BY <2>3, <2>4
  <1>4. ASSUME NEW s \in Stream, NEW f \in FrameId, StageTest(s, f),
               NEW u \in Stream, NEW i \in DOMAIN frames'[u]
        PROVE FrameStamps(frames[u][i], next[u][frames[u][i].frame_id])'
    <2>1. frames' = frames /\ now' = now
      BY <1>4 DEF StageTest
    <2>2. next'[u][frames[u][i].frame_id] = next[u][frames[u][i].frame_id]
      <3>1. CASE Tracked(s, f)
        BY <1>4, <3>1 DEF StageTest
      <3>2. CASE ~Tracked(s, f)
        <4>1. Advance(s, f) /\ next[s][f] \in EncodeStart .. Send
          BY <1>4, <3>2 DEF StageTest
        <4>2. ~(u = s /\ frames[u][i].frame_id = f)
          BY <1>4, <2>1, <3>2 DEF Tracked, Position
        <4>3. QED BY <1>1, <1>4, <2>1, <4>1, <4>2, AdvanceType DEF TypeInv
      <3>3. QED BY <3>1, <3>2
    <2>3. FrameStamps(frames[u][i], next[u][frames[u][i].frame_id])
      BY <1>1, <1>4, <2>1
    <2>4. QED BY <2>1, <2>2, <2>3 DEF FrameStamps
  <1>5. ASSUME NEW s \in Stream, NEW f \in FrameId, StageStamp(s, f),
               NEW u \in Stream, NEW i \in DOMAIN frames'[u]
        PROVE FrameStamps(frames[u][i], next[u][frames[u][i].frame_id])'
    <2> DEFINE old == frames[u][i]
               new == frames'[u][i]
               r == next[s][f]
    <2>1. i \in DOMAIN frames[u]
      BY <1>5, StampFrames
    <2>2. /\ new.frame_id = old.frame_id
          /\ \A st \in Stage :
               new.ts[st] = IF u = s /\ old.frame_id = f /\ st = r
                            THEN now ELSE old.ts[st]
          /\ r \in EncodeStart .. Send /\ Advance(s, f) /\ now' = now
      BY <1>5, <2>1, StampFrames
    <2>3. /\ old.frame_id \in FrameId /\ old.ts \in [Stage -> 0 .. MaxTime]
          /\ FrameStamps(old, next[u][old.frame_id])
      BY <1>1, <2>1
    <2>4. next'[u][old.frame_id] = IF u = s /\ old.frame_id = f THEN r + 1
                                   ELSE next[u][old.frame_id]
      BY <2>2, <2>3, AdvanceType DEF TypeInv
    <2> HIDE DEF old, new
    <2>5. CASE u = s /\ old.frame_id = f
      <3>1. FrameStamps(old, r) /\ next'[u][new.frame_id] = r + 1
        BY <2>2, <2>3, <2>4, <2>5
      <3> HIDE DEF r
      <3>2. \A st \in Stage : new.ts[st] = IF st = r THEN now ELSE old.ts[st]
        BY <2>2, <2>5
      <3>3. \A st \in Stage : old.ts[st] \in Nat
        BY <2>3
      <3>4. FrameStamps(new, r + 1)
        BY <1>2, <2>2, <3>1, <3>2, <3>3 DEF FrameStamps
      <3>5. QED BY <2>2, <3>1, <3>4 DEF FrameStamps, new
    <2>6. CASE ~(u = s /\ old.frame_id = f)
      <3>1. /\ \A st \in Stage : new.ts[st] = old.ts[st]
            /\ next'[u][new.frame_id] = next[u][old.frame_id]
        BY <2>2, <2>4, <2>6
      <3>2. FrameStamps(new, next[u][old.frame_id])
        BY <2>3, <3>1 DEF FrameStamps
      <3>3. QED BY <2>2, <3>1, <3>2 DEF FrameStamps, new
    <2>7. QED BY <2>5, <2>6
  <1>6. ASSUME UNCHANGED <<frames, next>>, now' >= now,
               NEW u \in Stream, NEW i \in DOMAIN frames'[u]
        PROVE FrameStamps(frames[u][i], next[u][frames[u][i].frame_id])'
    <2>1. /\ FrameStamps(frames[u][i], next[u][frames[u][i].frame_id])
          /\ frames[u][i].ts \in [Stage -> 0 .. MaxTime]
      BY <1>1, <1>6
    <2>2. \A st \in Stage : frames[u][i].ts[st] \in Nat
      BY <2>1
    <2>3. now' \in Nat
      BY TypeNext DEF TypeInv, TypeOK
    <2>4. QED BY <1>2, <1>6, <2>1, <2>2, <2>3 DEF FrameStamps
  <1>7. now \in Nat /\ (now' = now \/ now' = now + 1 => now' >= now)
    BY <1>2
  <1>8. QED
    BY <1>3, <1>4, <1>5, <1>6, <1>7 DEF Next, Tick, AllDone, vars

(* For any number of streams and frames, a tracked frame has the stamps of *)
(* the stages it went through, in order, and of no other frame's.          *)
THEOREM TrackerStampsOwn == Spec => []StampsAreOwn
  <1>1. Init => TypeInv /\ KeptAreNewest /\ Captured /\ Stamps
    BY TrackerAssumption
    DEF Init, TypeOK, BusyInStage, TypeInv, KeptAreNewest, Captured, Stamps,
        StampsAreOwn, NotLater
  <1>2. QED
    BY <1>1, TypeNext, KeptNext, CapturedNext, StampsNext, PTL
    DEF Spec, Stamps

(* So the parts of the pipeline's time that are reported of a frame are    *)
(* not negative and add up to no more than the whole.                      *)
THEOREM TrackerPartsWithinWhole == Spec => []PartsWithinWhole
  <1>1. TypeInv /\ StampsAreOwn => PartsWithinWhole
    <2> SUFFICES ASSUME TypeInv, StampsAreOwn,
                        NEW s \in Stream, NEW i \in DOMAIN frames[s]
                 PROVE LET fr == frames[s][i] IN
                       /\ EncodeTime(fr) >= 0 /\ PacketizeTime(fr) >= 0
                       /\ fr.ts[Send] > 0 =>
                            EncodeTime(fr) + PacketizeTime(fr)
                              <= PipelineTime(fr)
      BY DEF PartsWithinWhole
    <2> DEFINE ts == frames[s][i].ts
               reached == next[s][frames[s][i].frame_id]
    <2>1. frames[s][i] \in Frame
      BY DEF TypeInv, TypeOK
    <2>2. reached \in Capture .. Done /\ \A st \in Stage : ts[st] \in Nat
      <3>1. /\ frames[s][i].frame_id \in FrameId
            /\ ts \in [Stage -> 0 .. MaxTime]
        BY <2>1 DEF Frame
      <3>2. next[s] \in [FrameId -> Capture .. Done] /\ MaxTime \in Nat
        BY TrackerAssumption DEF TypeInv, TypeOK
      <3>3. reached \in Capture .. Done
        BY <3>1, <3>2
      <3> HIDE DEF ts, reached
      <3>4. \A st \in Stage : ts[st] \in 0 .. MaxTime
        BY <3>1
      <3>5. QED BY <3>2, <3>3, <3>4
    <2>3. \A st \in Stage : /\ ts[st] > 0 <=> st < reached
                            /\ st # Capture /\ st < reached => ts[st - 1] <= ts[st]
      BY DEF StampsAreOwn
    <2> HIDE DEF ts, reached
    <2>4. /\ ts[1] \in Nat /\ ts[2] \in Nat /\ ts[3] \in Nat /\ ts[4] \in Nat
          /\ ts[5] \in Nat
          /\ ts[3] > 0 => ts[2] > 0 /\ ts[2] <= ts[3]
          /\ ts[4] > 0 => ts[3] > 0 /\ ts[3] <= ts[4]
          /\ ts[5] > 0 => ts[4] > 0 /\ ts[4] <= ts[5]
          /\ ts[2] > 0 => ts[1] > 0 /\ ts[1] <= ts[2]
      BY <2>2, <2>3
    <2>5. QED
      BY <2>4 DEF EncodeTime, PacketizeTime, PipelineTime, Elapsed, ts
  <1>2. Init => TypeInv
    BY TrackerAssumption DEF Init, TypeOK, BusyInStage, TypeInv
  <1>3. QED BY <1>1, <1>2, TypeNext, TrackerStampsOwn, PTL DEF Spec
=============================================================================
