------------------------------ MODULE ClockSync ------------------------------
(***************************************************************************)
(* The browser's estimate of the server clock: browser/clock_sync.js, with *)
(* the timer of app.js that sends its pings and the server's answer        *)
(* (hub.go).                                                               *)
(*                                                                         *)
(* Every Period the page sends a ping with its time t1, the server answers *)
(* with its own time t2 (= t3), and the pong arrives at t4.  Pings and     *)
(* pongs stay in order on the WebSocket, may take longer than a Period and *)
(* are lost when a connection breaks.  The route may change and the server *)
(* clock may be stepped.  What the page computes from the four times and   *)
(* keeps is exactly the code's; numbers are whole: delays and round trips  *)
(* in ms, offsets in half ms, each moving average rounded down.  Times are *)
(* relative to the newest ping, so the number of pings has no bound.       *)
(***************************************************************************)
EXTENDS Integers, Sequences, FiniteSetsExt

CONSTANTS
  Near, Far,      \* one-way delays, in ms, before and after the route changes
  Skews,          \* ms by which the server clock may be ahead
  MaxSteps,       \* bound: times the server clock is stepped
  MayLose,        \* whether pings or pongs may be lost
  MinHistory,     \* samples before a drift is estimated (10 in the code)
  Window,         \* samples the estimate uses (20)
  MaxHistory,     \* samples kept (60)
  Horizon,        \* bound: ms into the past that sample times are told apart
  MaxPings,       \* bound: pings counted
  Endless,        \* whether the page goes on then, or is reloaded
  MaxSkewSamples  \* MAX_SKEW_SAMPLES (10)

ASSUME ClockAssumption ==
  /\ Near \subseteq Nat /\ Far \subseteq Nat /\ Skews \subseteq Int
  /\ MaxSteps \in Nat /\ MayLose \in BOOLEAN
  /\ MinHistory \in Nat \ {0} /\ Window \in Nat \ {0}
  /\ MaxHistory \in Nat \ {0} /\ Horizon \in Nat
  /\ MaxSkewSamples \in Nat \ {0}
  /\ MaxPings \in Nat /\ MaxPings > 5  \* syncCount is compared with 3 and 5
  /\ Endless \in BOOLEAN

Period == 2000         \* CLOCK_SYNC_INTERVAL
SkewThreshold == 2000  \* LARGE_SKEW_THRESHOLD

VARIABLES
  offset, rtt, drift, \* the estimates
  history,            \* {time, offset} of the samples used
  pending,            \* pendingPing: its t1, or NoPing
  count,              \* syncCount, up to MaxPings
  quality,
  calibrated,         \* largeSkewCalibrated
  samples,            \* largeSkewSamples
  route, skew, steps, \* the network and the server clock
  flight,             \* pings under way: their t1, t2 and t4
  worst,              \* the longest round trip among the samples used
  start,              \* how the first estimate was made, if there is one
  outcome             \* what became of the last pong

estimate == <<offset, rtt, drift, history, quality>>
skewed == <<calibrated, samples>>
world == <<route, skew, steps>>
vars == <<estimate, pending, count, skewed, world, flight, worst, start,
          outcome>>

NoPing == 1  \* no t1: those are at most 0

Bigger(a, b) == IF a > b THEN a ELSE b
Abs(n) == IF n < 0 THEN -n ELSE n

-----------------------------------------------------------------------------
(* Drift: linear regression over the last samples of the history, with n   *)
(* the length of the whole history.  As num / den, in half ms per ms.      *)

NoDrift == [num |-> 0, den |-> 1]

Recent(h) == SubSeq(h, Bigger(1, Len(h) - Window + 1), Len(h))

\* Mutant of Regression: sumXY is not centred.
NotCentred(n, h) ==
  LET x == [i \in DOMAIN h |-> h[i].time - h[1].time]
      xy == [i \in DOMAIN h |-> x[i] * h[i].offset]
      xx == [i \in DOMAIN h |-> x[i] * x[i]]
  IN [num |-> n * SumFunction(xy),
      den |-> n * SumFunction(xx) - SumFunction(x) * SumFunction(x)]

Regression(n, h) ==
  LET x == [i \in DOMAIN h |-> h[i].time - h[1].time]
      y == [i \in DOMAIN h |-> h[i].offset]
      xy == [i \in DOMAIN h |-> x[i] * y[i]]
      xx == [i \in DOMAIN h |-> x[i] * x[i]]
  IN [num |-> n * SumFunction(xy) - SumFunction(x) * SumFunction(y),
      den |-> n * SumFunction(xx) - SumFunction(x) * SumFunction(x)]

EstimateDrift(h) ==
  IF Len(h) < MinHistory THEN NoDrift
  ELSE LET r == Regression(Len(h), Recent(h))
       IN IF r.den = 0 THEN drift ELSE r

(* |drift| < 0.5 ms/s, and < 1 ms/s. *)
DriftBelowHalf(d) == Abs(d.num) <= (Abs(d.den) - 1) \div 1000
DriftBelowOne(d) == Abs(d.num) <= (Abs(d.den) - 1) \div 500

Quality(cal, r, d) ==
  IF count < 5 /\ ~cal THEN "unknown"
  ELSE IF r < 10 /\ DriftBelowHalf(d) THEN "excellent"
  ELSE IF r < 30 /\ DriftBelowOne(d) THEN "good"
  ELSE IF r < 100 THEN "fair" ELSE "poor"

-----------------------------------------------------------------------------
(* Large skews: the median offset of the half with the shortest round      *)
(* trips.  Ties keep their order, as in a stable sort.                     *)

RankBy(key, i) ==
  Cardinality({j \in DOMAIN key :
                 key[j] < key[i] \/ (key[j] = key[i] /\ j < i)})

FirstHalf(s, key) ==
  {i \in DOMAIN s : RankBy(key, i) < (Len(s) + 1) \div 2}

\* Mutant of BestHalf: sorted the other way round.
WorstHalf(s) == FirstHalf(s, [i \in DOMAIN s |-> -s[i].rtt])

BestHalf(s) == FirstHalf(s, [i \in DOMAIN s |-> s[i].rtt])

MedianOffset(s) ==
  LET best == [i \in BestHalf(s) |-> s[i].offset]
      m == CHOOSE i \in DOMAIN best :
             RankBy(best, i) = Cardinality(DOMAIN best) \div 2
  IN best[m]

MeanRtt(s) ==
  LET rtts == [i \in BestHalf(s) |-> s[i].rtt]
  IN SumFunction(rtts) \div Cardinality(BestHalf(s))

\* Mutant of Keep: nothing is shifted out.
KeepAll(s, e, max) == Append(s, e)

(* push, then shift when there are too many *)
Keep(s, e, max) ==
  IF Len(s) < max THEN Append(s, e) ELSE Tail(Append(s, e))

-----------------------------------------------------------------------------
Init ==
  /\ offset = 0 /\ rtt = 0 /\ drift = NoDrift /\ history = <<>>
  /\ pending = NoPing
  /\ count = 0
  /\ quality = "unknown"
  /\ calibrated = FALSE /\ samples = <<>>
  /\ flight = <<>>
  /\ worst = 0 /\ start = "none"
  /\ outcome = "none"
  /\ route = "near" /\ skew \in Skews /\ steps = 0

-----------------------------------------------------------------------------
(* Pings.                                                                  *)

Older(r) == [t1 |-> r.t1 - Period, t2 |-> r.t2 - Period, t4 |-> r.t4 - Period]

Delay == IF route = "near" THEN Near ELSE Far

(* createPingMessage, once per Period: what arrives before has arrived. *)
SendPing ==
  /\ count < MaxPings \/ Endless
  /\ \A i \in DOMAIN flight : flight[i].t4 >= Period
  /\ pending' = 0
  /\ count' = IF count < MaxPings THEN count + 1 ELSE count
  /\ history' = [i \in DOMAIN history |->
                   [history[i] EXCEPT !.time = Bigger(@ - Period, -Horizon)]]
  /\ UNCHANGED <<offset, rtt, drift, quality, skewed, world, worst, start,
                 outcome>>

InFlight == [i \in DOMAIN flight |-> Older(flight[i])]

Ping ==
  /\ SendPing
  /\ \E up, down \in Delay :
       /\ \A i \in DOMAIN flight : InFlight[i].t4 <= up + down
       /\ flight' = Append(InFlight, [t1 |-> 0, t2 |-> up + skew,
                                      t4 |-> up + down])

(* The ping, or the pong, is lost. *)
PingLost ==
  /\ MayLose
  /\ SendPing
  /\ flight' = InFlight

-----------------------------------------------------------------------------
(* Pongs (handlePongMessage).                                              *)

\* Mutant of SentAt: the time of the newest ping, whatever the pong is for.
SentLast(p) == pending

SentAt(p) == p.t1

RoundTrip(p) == p.t4 - SentAt(p)
RawOffset(p) == (p.t2 - SentAt(p)) + (p.t2 - p.t4)   \* in half ms

Large(p) == Abs(RawOffset(p)) > 2 * SkewThreshold

(* A pong that comes later than a Period finds the next ping sent. *)
Pong(p) ==
  /\ flight # <<>>
  /\ p = Head(flight)
  /\ p.t4 < Period
  /\ flight' = Tail(flight)
  /\ pending' = NoPing
  /\ UNCHANGED <<count, world>>

(* A pong that finds no pending ping is dropped. *)
IgnorePong ==
  /\ pending = NoPing
  /\ \E p \in {flight[i] : i \in DOMAIN flight} : Pong(p)
  /\ outcome' = "ignored"
  /\ UNCHANGED <<estimate, skewed, worst, start>>

Usable(p) == RoundTrip(p) \in 0 .. 5000

SkewSamples(p) ==
  Keep(samples, [offset |-> RawOffset(p), rtt |-> RoundTrip(p)],
       MaxSkewSamples)

Enough(s) == Len(s) >= 3

(* _handleLargeSkewSample *)
LargeSample(p) ==
  /\ pending # NoPing
  /\ Pong(p)
  /\ Large(p)
  /\ Usable(p)
  /\ LET s == SkewSamples(p) IN
     /\ samples' = s
     /\ worst' = Bigger(worst, RoundTrip(p))
     /\ IF Enough(s)
        THEN /\ calibrated' = TRUE
             /\ offset' = MedianOffset(s)
             /\ rtt' = MeanRtt(s)
             /\ quality' = Quality(TRUE, MeanRtt(s), drift)
             /\ start' = "raw"
             /\ outcome' = "calibrated"
        ELSE /\ outcome' = "collected"
             /\ UNCHANGED <<offset, rtt, quality, calibrated, start>>
  /\ UNCHANGED <<drift, history>>

(* _handleLargeSkewSample returns at once. *)
DropSample(p) ==
  /\ pending # NoPing
  /\ Pong(p)
  /\ Large(p)
  /\ ~Usable(p)
  /\ outcome' = "dropped"
  /\ UNCHANGED <<estimate, skewed, worst, start>>

(* A sample within half the threshold ends a calibration. *)
Resolves(p) == calibrated /\ Abs(RawOffset(p)) < SkewThreshold

Calibrated(p) == calibrated /\ ~Resolves(p)

ResetCalibration(p) ==
  /\ calibrated' = Calibrated(p)
  /\ samples' = IF Resolves(p) THEN <<>> ELSE samples

\* Mutant of Outlier: no round trip is short enough to be let through.
NoFloor(p) == rtt > 0 /\ RoundTrip(p) > 3 * rtt /\ count > 5

Outlier(p) == rtt > 0 /\ RoundTrip(p) > Bigger(3 * rtt, 50) /\ count > 5

SmallSample(p) ==
  /\ pending # NoPing
  /\ Pong(p)
  /\ ~Large(p)
  /\ ResetCalibration(p)

RejectSample(p) ==
  /\ SmallSample(p)
  /\ Outlier(p)
  /\ outcome' = "rejected"
  /\ UNCHANGED <<estimate, worst, start>>

(* The first estimates are raw, the next ones moving averages. *)
AcceptSample(p) ==
  /\ SmallSample(p)
  /\ ~Outlier(p)
  /\ LET o == IF count <= 3 THEN RawOffset(p)
              ELSE (2 * RawOffset(p) + 8 * offset) \div 10
         r == IF count <= 3 THEN RoundTrip(p)
              ELSE (3 * RoundTrip(p) + 7 * rtt) \div 10
         h == Keep(history, [time |-> p.t4, offset |-> o], MaxHistory)
         d == EstimateDrift(h) IN
     /\ offset' = o
     /\ rtt' = r
     /\ history' = h
     /\ drift' = d
     /\ quality' = Quality(Calibrated(p), r, d)
  /\ worst' = Bigger(worst, RoundTrip(p))
  /\ start' = IF start # "none" THEN start
              ELSE IF count <= 3 THEN "raw" ELSE "averaged"
  /\ outcome' = IF Resolves(p) THEN "resolved" ELSE "accepted"

PongStep ==
  \/ IgnorePong
  \/ \E p \in {flight[i] : i \in DOMAIN flight} :
       LargeSample(p) \/ DropSample(p) \/ RejectSample(p) \/ AcceptSample(p)

-----------------------------------------------------------------------------
(* Outside: the route changes, the server clock is stepped, the page is    *)
(* reloaded.                                                               *)

RouteChange ==
  /\ route = "near" /\ Far # Near
  /\ route' = "far"
  /\ UNCHANGED <<estimate, pending, count, skewed, skew, steps, flight, worst,
                 start, outcome>>

StepClock ==
  /\ steps < MaxSteps
  /\ steps' = steps + 1
  /\ \E k \in Skews \ {skew} : skew' = k
  /\ UNCHANGED <<estimate, pending, count, skewed, route, flight, worst, start,
                 outcome>>

Reload ==
  /\ ~Endless /\ count = MaxPings
  /\ offset' = 0 /\ rtt' = 0 /\ drift' = NoDrift /\ history' = <<>>
  /\ pending' = NoPing
  /\ count' = 0
  /\ quality' = "unknown"
  /\ calibrated' = FALSE /\ samples' = <<>>
  /\ flight' = <<>>
  /\ worst' = 0 /\ start' = "none"
  /\ outcome' = "none"
  /\ UNCHANGED world

Next == Ping \/ PingLost \/ PongStep \/ RouteChange \/ StepClock \/ Reload

Spec == Init /\ [][Next]_vars

(* The interval timer keeps pinging, a connection that is up does not lose *)
(* every ping, and a pong that is not lost arrives.                        *)
FairSpec == Spec /\ WF_vars(Ping) /\ WF_vars(PongStep)

-----------------------------------------------------------------------------
(* Properties.                                                             *)

(* Every variable has its type. *)
TypeOK ==
  /\ offset \in Int /\ rtt \in Int
  /\ drift \in [num : Int, den : Int]
  /\ history \in Seq([time : Int, offset : Int]) /\ Len(history) <= MaxHistory
  /\ pending \in {0, NoPing}
  /\ count \in 0 .. MaxPings
  /\ quality \in {"unknown", "excellent", "good", "fair", "poor"}
  /\ calibrated \in BOOLEAN
  /\ samples \in Seq([offset : Int, rtt : 0 .. 5000])
  /\ Len(samples) <= MaxSkewSamples
  /\ route \in {"near", "far"} /\ skew \in Skews /\ steps \in 0 .. MaxSteps
  /\ flight \in Seq([t1 : Int, t2 : Int, t4 : Int])
  /\ worst \in Int /\ start \in {"none", "raw", "averaged"}
  /\ outcome \in {"none", "ignored", "collected", "calibrated", "dropped",
                  "rejected", "accepted", "resolved"}

(* While the server clock is not stepped, an estimate that started from a  *)
(* raw sample or a calibration is never off by more than half the longest  *)
(* round trip it was made from: however late pongs are, whichever ping is  *)
(* pending when they arrive, and on whichever side of the large-skew       *)
(* threshold their noise puts them (clock_sync.js:77-152, 159-194).        *)
OffsetIsBounded ==
  start = "raw" /\ steps = 0 => Abs(offset - 2 * skew) <= worst

(* A calibration is right although a few exchanges are slow: most of the   *)
(* samples it has kept took at least as long as the estimate is off        *)
(* (clock_sync.js:169-178).                                                *)
FewCannotMislead ==
  outcome = "calibrated" /\ steps = 0 =>
    2 * Cardinality({i \in DOMAIN samples :
                       samples[i].rtt >= Abs(offset - 2 * skew)})
      > Len(samples)

(* Samples keep being used: a lost or late pong never stops the            *)
(* synchronization (clock_sync.js:51-63, 77-152).                          *)
SamplesKeepComing ==
  []<><<pending # NoPing /\ pending' = NoPing
          /\ outcome' \in {"accepted", "resolved", "calibrated"}>>_vars

(* "Uses linear regression over recent samples." (clock_sync.js:245): as   *)
(* long as the history is no longer than the regression's window, offsets  *)
(* that stay the same have no drift, however irregular the sample times.   *)
SteadyHasNoDrift ==
  Len(history) <= Window /\ (\A i \in DOMAIN history :
                              history[i].offset = history[1].offset)
    => drift.num = 0
=============================================================================
