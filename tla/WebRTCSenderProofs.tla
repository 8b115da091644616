------------------------- MODULE WebRTCSenderProofs -------------------------
(* Theorems about WebRTCSender, for any finite set of streams, any browsers *)
(* and all bounds.                                                         *)
EXTENDS WebRTCSender, FiniteSetTheorems, TLAPS

USE SenderAssumption

-----------------------------------------------------------------------------
(* Where a thread can be.                                                  *)

Ids == Receiver \cup Stream \cup IceState \cup {None}

LEMMA PlaceTyped ==
  ASSUME NEW step \in Steps, NEW id \in Ids
  PROVE  At(step) \in Place /\ AtId(step, id) \in Place /\ Iterate(id) \in Place
  <1>1. Cardinality(Stream) \in Nat /\ 0 \in 0 .. Cardinality(Stream)
    BY FS_CardinalityType
  <1>2. /\ Tracked \in SUBSET Stream
        /\ Cardinality(Tracked) \in 0 .. Cardinality(Stream)
    BY <1>1, FS_Subset, FS_CardinalityType DEF Tracked
  <1>3. At(step) \in Place
    BY <1>1 DEF At, Place, Ids
  <1>4. AtId(step, id) = [at |-> step, id |-> id, left |-> {}, size |-> 0]
    BY DEF AtId, At
  <1>5. AtId(step, id) \in Place
    BY <1>1, <1>4 DEF Place, Ids
  <1>6. Iterate(id) \in Place
    BY <1>2 DEF Iterate, Place, Ids, Steps
  <1>7. QED BY <1>3, <1>5, <1>6

LEMMA AdvanceTyped ==
  ASSUME NEW it \in Place, NEW k
  PROVE  /\ Advance(it, k) \in Place
         /\ Advance(it, k).at = it.at /\ Advance(it, k).id = it.id
         /\ Advance(it, k).size = it.size
  BY DEF Advance, Place

LEMMA MoveTyped ==
  ASSUME NEW it \in Place, NEW step \in Steps, NEW id \in Ids
  PROVE  [it EXCEPT !.at = step, !.id = id] \in Place
  <1>1. PICK moved : moved = [it EXCEPT !.at = step]
    OBVIOUS
  <1>2. moved \in Place
    BY <1>1 DEF Place
  <1>3. [moved EXCEPT !.id = id] \in Place
    BY <1>2 DEF Place, Ids
  <1>4. [it EXCEPT !.at = step, !.id = id] = [moved EXCEPT !.id = id]
    BY <1>1
  <1>5. QED BY <1>3, <1>4

-----------------------------------------------------------------------------
(* What each thread leaves alone.                                          *)

LEMMA RecvLeaves ==
  RecvStep => UNCHANGED <<keep, cb, channels, sock, conns, joins, answers,
                          iceProp, iceMoves, dc, offers>>
  BY Zenon DEF RecvStep, TakeJoined, ScanJoined, CheckActive, Accept, Activate,
     CreateOffers, TakeLeft, ResetReceiver, UnsetActive, ForgetIce, ForgetOpen,
     TakeAnswer, ReceiveClosed, fields, flags, dcs, server, media, ghosts,
     threads

LEMMA KeepLeaves ==
  KeepStep => UNCHANGED <<fields, recv, cb, evq, server, media, ghosts>>
  BY Zenon DEF KeepStep, WakeUp, CheckOpen, SendClockInfo

LEMMA CallbackLeaves ==
  ASSUME NEW s \in Stream
  PROVE  CallbackStep(s) =>
           UNCHANGED <<connected, recv, keep, sock, inbox, conns, joins, media,
                       told, accepted>>
  BY Zenon DEF CallbackStep, StartCallback, NegotiationNeeded, DeferOffer,
     OfferCreated, ReadIceState, TrackIceState, StartScan, ScanDead,
     ReleaseReceiver, DropActive, AddChannel, MarkOpen, UnmarkOpen,
     DeleteChannel, fields, flags, dcs, server, media, ghosts

LEMMA EnvironmentLeaves ==
  Environment => UNCHANGED <<fields, recv, keep, cb, remote, ghosts>>
  BY Zenon DEF Environment, Join, Leave, Answer, CloseSignaling, IceChange,
     ChannelOpens, ChannelCloses, threads, media

-----------------------------------------------------------------------------
(* Types.  A step that is about a receiver has its id, a callback that      *)
(* tracks a state has one, and messages are about what they are about.     *)

MainType ==
  /\ hasReceiver \in BOOLEAN
  /\ active \in Receiver \cup {None}
  /\ offersPending \in SUBSET Stream
  /\ ice \in [Stream -> IceState \cup {None}]
  /\ channels \in SUBSET Stream
  /\ dcOpen \in SUBSET Stream
  /\ connected \in BOOLEAN

JoinSteps == {"scan", "accept", "who", "compare", "activate"}

ThreadType ==
  /\ recv \in Place /\ keep \in Place /\ cb \in [Stream -> Place]
  /\ recv.at \in JoinSteps => recv.id \in Receiver
  /\ \A s \in Stream : cb[s].at = "track" => cb[s].id \in IceState

Event == {"negotiate", "offer", "ice", "open", "close"}
EventType == evq \in [Stream -> Seq(Event)]

Announced == [type : {"receiver_joined", "receiver_left"}, id : Receiver]
               \cup [type : {"answer"}, id : Stream]

ServerType ==
  /\ sock \in BOOLEAN
  /\ inbox \in Seq(Announced)
  /\ conns \in [Receiver -> 0 .. 2]
  /\ joins \in 0 .. MaxJoins
  /\ answers \in [Stream -> Nat]

Reachable == {"new", "checking", "connected", "disconnected", "failed"}

MediaType ==
  /\ remote \in SUBSET Stream
  /\ iceProp \in [Stream -> Reachable]
  /\ iceMoves \in [Stream -> 0 .. MaxIce]
  /\ dc \in [Stream -> {"none", "created", "open", "closed"}]

GhostType ==
  /\ told \in SUBSET Receiver
  /\ fresh \in BOOLEAN
  /\ accepted \in Nat
  /\ made \in [Stream -> Nat]
  /\ offers \in [Stream -> Nat]

TypeInv ==
  /\ MainType /\ ThreadType /\ EventType /\ ServerType /\ MediaType
  /\ GhostType

LEMMA SeqGrows ==
  ASSUME NEW S, NEW T, S \subseteq T, NEW q \in Seq(S)
  PROVE  q \in Seq(T)
  <1>1. Len(q) \in Nat /\ q \in [1 .. Len(q) -> S]
    OBVIOUS
  <1>2. q \in [1 .. Len(q) -> T]
    BY <1>1
  <1>3. QED BY <1>1, <1>2

LEMMA TypesHold == TypeInv => TypeOK
  <1> SUFFICES ASSUME TypeInv PROVE TypeOK
    OBVIOUS
  <1>1. inbox \in Seq([type : {"receiver_joined", "receiver_left", "answer"},
                       id : Receiver \cup Stream])
    <2>1. Announced \subseteq
            [type : {"receiver_joined", "receiver_left", "answer"},
             id : Receiver \cup Stream]
      BY DEF Announced
    <2>2. inbox \in Seq(Announced)
      BY DEF TypeInv, ServerType
    <2>3. QED BY <2>1, <2>2, SeqGrows
  <1>2. iceProp \in [Stream -> IceState]
    BY DEF TypeInv, MediaType, Reachable, IceState
  <1>3. evq \in [Stream -> Seq({"negotiate", "offer", "ice", "open", "close"})]
    BY DEF TypeInv, EventType, Event
  <1>4. QED
    BY <1>1, <1>2, <1>3
    DEF TypeOK, TypeInv, MainType, ThreadType, ServerType, MediaType, GhostType

LEMMA MainTypeNext == TypeInv /\ [Next]_vars => MainType'
  <1> SUFFICES ASSUME MainType, ThreadType, [Next]_vars PROVE MainType'
    BY DEF TypeInv
  <1>1. CASE UNCHANGED fields
    BY <1>1 DEF MainType, fields, flags, dcs
  <1>2. CASE Accept \/ ResetReceiver
    BY <1>2 DEF Accept, ResetReceiver, MainType, dcs
  <1>3. CASE Activate \/ UnsetActive
    BY <1>3 DEF Activate, UnsetActive, Receiving, MainType, ThreadType,
       JoinSteps, dcs
  <1>4. CASE CreateOffers
    BY <1>4 DEF CreateOffers, MainType, flags, dcs
  <1>5. CASE ForgetIce \/ ForgetOpen
    BY <1>5 DEF ForgetIce, ForgetOpen, MainType, flags, dcs
  <1>6. CASE ReceiveClosed
    BY <1>6 DEF ReceiveClosed, MainType, flags, dcs
  <1>7. CASE TakeJoined \/ ScanJoined \/ CheckActive \/ TakeLeft \/ TakeAnswer
    BY <1>1, <1>7 DEF TakeJoined, ScanJoined, CheckActive, TakeLeft, TakeAnswer
  <1>8. ASSUME NEW s \in Stream, CallbackStep(s) PROVE MainType'
    <2>1. CASE DeferOffer(s)
      BY <2>1 DEF DeferOffer, MainType, flags, dcs
    <2>2. CASE TrackIceState(s)
      BY <2>2 DEF TrackIceState, TrackedState, Calling, ThreadType, MainType,
         flags, dcs
    <2>3. CASE ReleaseReceiver(s) \/ DropActive(s)
      BY <2>3 DEF ReleaseReceiver, DropActive, MainType, dcs
    <2>4. CASE AddChannel(s) \/ MarkOpen(s) \/ UnmarkOpen(s) \/ DeleteChannel(s)
      BY <2>4 DEF AddChannel, MarkOpen, UnmarkOpen, DeleteChannel, MainType,
         flags
    <2>5. CASE \/ StartCallback(s) \/ NegotiationNeeded(s) \/ OfferCreated(s)
               \/ ReadIceState(s) \/ StartScan(s) \/ ScanDead(s)
      BY <1>1, <2>5 DEF StartCallback, NegotiationNeeded, OfferCreated,
         ReadIceState, StartScan, ScanDead
    <2>6. QED BY <1>8, <2>1, <2>2, <2>3, <2>4, <2>5 DEF CallbackStep
  <1>9. QED
    BY <1>1, <1>2, <1>3, <1>4, <1>5, <1>6, <1>7, <1>8, KeepLeaves,
       EnvironmentLeaves DEF Next, RecvStep, Exited, vars

LEMMA ThreadTypeNext == TypeInv /\ [Next]_vars => ThreadType'
  <1> SUFFICES ASSUME TypeInv, [Next]_vars PROVE ThreadType'
    OBVIOUS
  <1>1. /\ recv \in Place /\ keep \in Place /\ cb \in [Stream -> Place]
        /\ recv.at \in JoinSteps => recv.id \in Receiver
        /\ \A s \in Stream : cb[s].at = "track" => cb[s].id \in IceState
        /\ recv.id \in Ids /\ None \in Ids
    BY DEF TypeInv, ThreadType, Place, Ids
  <1>2. CASE UNCHANGED <<recv, keep, cb>>
    BY <1>2 DEF TypeInv, ThreadType
  <1>3. ASSUME UNCHANGED <<keep, cb>>, recv' \in Place,
               recv'.at \in JoinSteps => recv'.id \in Receiver
        PROVE ThreadType'
    BY <1>1, <1>3 DEF ThreadType
  <1>4. CASE RecvStep
    <2> UNCHANGED <<keep, cb>>
      BY <1>4, RecvLeaves
    <2>1. CASE TakeJoined
      <3>1. inbox \in Seq(Announced) /\ inbox # <<>>
        BY <2>1 DEF TakeJoined, TypeInv, ServerType
      <3>2. Head(inbox) \in Announced
        BY <3>1
      <3>3. Head(inbox).id \in Receiver
        BY <2>1, <3>2 DEF TakeJoined, Announced
      <3>4. Head(inbox).id \in Ids /\ "wait" \in Steps
        BY <3>3 DEF Ids, Steps
      <3>5. recv' \in Place /\ recv'.id = Head(inbox).id
        BY <2>1, <3>4, PlaceTyped DEF TakeJoined, Iterate
      <3>6. QED BY <1>3, <3>3, <3>5
    <2>2. CASE ScanJoined
      <3>1. CASE recv' = At("dead")
        BY <1>1, <1>3, <3>1, PlaceTyped DEF Steps, At, JoinSteps
      <3>2. CASE recv' = AtId("accept", recv.id) \/ recv' = AtId("who", recv.id)
        <4>1. recv' \in Place
          BY <1>1, <3>2, PlaceTyped DEF Steps
        <4>2. recv'.id = recv.id
          BY <3>2 DEF AtId, At
        <4>3. recv.id \in Receiver
          BY <1>1, <2>2 DEF ScanJoined, Receiving, JoinSteps
        <4>4. QED BY <1>3, <4>1, <4>2, <4>3
      <3>3. CASE \E k : recv' = Advance(recv, k)
        <4>1. recv' \in Place /\ recv'.id = recv.id /\ recv'.at = recv.at
          BY <1>1, <3>3, AdvanceTyped
        <4>2. QED BY <1>1, <1>3, <4>1
      <3>4. QED BY <2>2, <3>1, <3>2, <3>3 DEF ScanJoined
    <2>3. CASE CheckActive \/ Accept
      <3>1. recv.id \in Receiver
        BY <1>1, <2>3 DEF CheckActive, Accept, Receiving, JoinSteps
      <3>2. \/ \E step \in Steps : recv' = AtId(step, recv.id)
            \/ recv' = At("wait")
        BY <2>3 DEF CheckActive, Accept, Steps
      <3>3. "wait" \in Steps
        BY DEF Steps
      <3>4. recv' \in Place
        BY <1>1, <3>2, <3>3, PlaceTyped
      <3>5. recv'.id = recv.id \/ recv'.at = "wait"
        <4>1. CASE recv' = At("wait")
          BY <4>1 DEF At
        <4>2. ASSUME NEW step \in Steps, recv' = AtId(step, recv.id)
              PROVE  recv'.id = recv.id
          BY <4>2 DEF AtId, At
        <4>3. QED BY <3>2, <4>1, <4>2
      <3>6. QED BY <1>3, <3>1, <3>4, <3>5 DEF JoinSteps
    <2>4. CASE \/ Activate \/ CreateOffers \/ TakeLeft \/ ResetReceiver
               \/ UnsetActive \/ ForgetIce \/ ForgetOpen \/ ReceiveClosed
      <3>1. \E step \in Steps \ JoinSteps : recv' = At(step)
        BY <2>4 DEF Activate, CreateOffers, TakeLeft, ResetReceiver,
           UnsetActive, ForgetIce, ForgetOpen, ReceiveClosed, Steps, JoinSteps
      <3>2. PICK step \in Steps \ JoinSteps : recv' = At(step)
        BY <3>1
      <3>3. recv' \in Place /\ recv'.at = step
        BY <1>1, <3>2, PlaceTyped DEF At
      <3>4. QED BY <1>3, <3>2, <3>3
    <2>5. CASE TakeAnswer
      BY <1>2, <2>5 DEF TakeAnswer, threads
    <2>6. QED BY <1>4, <2>1, <2>2, <2>3, <2>4, <2>5 DEF RecvStep
  <1>5. CASE KeepStep
    <2>1. UNCHANGED <<recv, cb>>
      BY <1>5, KeepLeaves
    <2>2. keep' \in Place
      <3>1. CASE WakeUp
        <4>1. At("each") \in Place
          BY <1>1, PlaceTyped DEF Steps
        <4>2. channels \in SUBSET Stream
          BY DEF TypeInv, MainType
        <4>3. QED BY <3>1, <4>1, <4>2 DEF WakeUp, Place
      <3>2. CASE CheckOpen
        <4>1. keep.left \in SUBSET Stream
          BY <1>1 DEF Place
        <4>2. CASE keep' \in {At("sleep"), At("ended")}
          BY <1>1, <4>2, PlaceTyped DEF Steps
        <4>3. CASE \E s \in keep.left :
                     keep' = [keep EXCEPT !.at = "lookup", !.id = s]
          <5>1. PICK s \in keep.left :
                  keep' = [keep EXCEPT !.at = "lookup", !.id = s]
            BY <4>3
          <5>2. s \in Ids /\ "lookup" \in Steps
            BY <4>1 DEF Ids, Steps
          <5>3. QED BY <1>1, <5>1, <5>2, MoveTyped
        <4>4. CASE \E s \in keep.left : keep' = Advance(keep, s)
          BY <1>1, <4>4, AdvanceTyped
        <4>5. QED BY <3>2, <4>2, <4>3, <4>4 DEF CheckOpen
      <3>3. CASE SendClockInfo
        <4>1. Advance(keep, keep.id) \in Place /\ At("crashed") \in Place
          BY <1>1, AdvanceTyped, PlaceTyped DEF Steps
        <4>2. "each" \in Steps
          BY DEF Steps
        <4>3. QED BY <1>1, <3>3, <4>1, <4>2, MoveTyped DEF SendClockInfo
      <3>4. QED BY <1>5, <3>1, <3>2, <3>3 DEF KeepStep
    <2>3. QED BY <1>1, <2>1, <2>2 DEF ThreadType
  <1>6. ASSUME NEW s \in Stream, CallbackStep(s) PROVE ThreadType'
    <2>1. UNCHANGED <<recv, keep>>
      BY <1>6, CallbackLeaves
    <2>2. ASSUME NEW it \in Place, Goto(s, it),
                 it.at = "track" => it.id \in IceState
          PROVE ThreadType'
      BY <1>1, <2>1, <2>2 DEF Goto, ThreadType
    <2>3. CASE \E step \in Steps \ {"track"} : Goto(s, At(step))
      <3>1. PICK step \in Steps \ {"track"} : Goto(s, At(step))
        BY <2>3
      <3>2. At(step) \in Place /\ At(step).at = step
        BY <1>1, PlaceTyped DEF At
      <3>3. QED BY <2>2, <3>1, <3>2
    <2>4. CASE StartCallback(s)
      <3>1. evq[s] \in Seq(Event) /\ evq[s] # <<>>
        BY <2>4 DEF StartCallback, TypeInv, EventType
      <3>2. Head(evq[s]) \in Event
        BY <3>1
      <3>3. QED BY <2>3, <2>4, <3>2 DEF StartCallback, Event, Steps
    <2>5. CASE \/ NegotiationNeeded(s) \/ DeferOffer(s) \/ OfferCreated(s)
               \/ TrackIceState(s) \/ ReleaseReceiver(s) \/ DropActive(s)
               \/ AddChannel(s) \/ MarkOpen(s) \/ UnmarkOpen(s)
               \/ DeleteChannel(s)
      BY <2>3, <2>5 DEF NegotiationNeeded, DeferOffer, OfferCreated,
         TrackIceState, ReleaseReceiver, DropActive, AddChannel, MarkOpen,
         UnmarkOpen, DeleteChannel, Steps
    <2>6. CASE ReadIceState(s)
      <3>1. iceProp[s] \in IceState /\ iceProp[s] \in Ids /\ "track" \in Steps
        BY DEF TypeInv, MediaType, Reachable, IceState, Ids, Steps
      <3>2. /\ AtId("track", iceProp[s]) \in Place
            /\ AtId("track", iceProp[s]).id = iceProp[s]
        BY <3>1, PlaceTyped DEF AtId, At
      <3>3. QED BY <2>2, <2>6, <3>1, <3>2 DEF ReadIceState
    <2>7. CASE StartScan(s)
      <3>1. Iterate(None) \in Place /\ Iterate(None).at = "scan"
        BY <1>1, PlaceTyped DEF Iterate, Steps
      <3>2. QED BY <2>2, <2>7, <3>1 DEF StartScan
    <2>8. CASE ScanDead(s)
      <3>1. CASE \E k : Goto(s, Advance(cb[s], k))
        <4>1. cb[s] \in Place /\ cb[s].at = "scan"
          BY <1>1, <2>8 DEF ScanDead, Calling
        <4>2. PICK k : Goto(s, Advance(cb[s], k))
          BY <3>1
        <4>3. Advance(cb[s], k) \in Place /\ Advance(cb[s], k).at = "scan"
          BY <4>1, AdvanceTyped
        <4>4. QED BY <2>2, <4>2, <4>3
      <3>2. CASE Goto(s, At("idle")) \/ Goto(s, At("release"))
        BY <2>3, <3>2 DEF Steps
      <3>3. QED BY <2>8, <3>1, <3>2 DEF ScanDead
    <2>9. QED
      BY <1>6, <2>4, <2>5, <2>6, <2>7, <2>8 DEF CallbackStep
  <1>7. QED
    BY <1>2, <1>4, <1>5, <1>6, EnvironmentLeaves DEF Next, Exited, vars, threads

LEMMA EventTypeNext == TypeInv /\ [Next]_vars => EventType'
  <1> SUFFICES ASSUME EventType, [Next]_vars PROVE EventType'
    BY DEF TypeInv
  <1>1. CASE UNCHANGED evq
    BY <1>1 DEF EventType
  <1>2. CASE CreateOffers
    <2>1. \A s \in Stream : /\ evq[s] \in Seq(Event)
                            /\ Append(evq[s], "offer") \in Seq(Event)
      BY DEF EventType, Event
    <2>2. QED BY <1>2, <2>1 DEF CreateOffers, EventType
  <1>3. ASSUME NEW s \in Stream, NEW e \in Event,
               evq' = [evq EXCEPT ![s] = Append(@, e)]
        PROVE  EventType'
    <2>1. Append(evq[s], e) \in Seq(Event)
      BY DEF EventType
    <2>2. QED BY <1>3, <2>1 DEF EventType
  <1>4. ASSUME NEW s \in Stream, StartCallback(s) PROVE EventType'
    <2>1. evq[s] \in Seq(Event) /\ evq[s] # <<>>
      BY <1>4 DEF StartCallback, EventType
    <2>2. Tail(evq[s]) \in Seq(Event)
      BY <2>1
    <2>3. QED BY <1>4, <2>2 DEF StartCallback, EventType
  <1>5. ASSUME NEW s \in Stream, NegotiationNeeded(s) PROVE EventType'
    BY <1>1, <1>3, <1>5 DEF NegotiationNeeded, Event
  <1>6. CASE Environment
    BY <1>1, <1>3, <1>6 DEF Environment, Join, Leave, Answer, CloseSignaling,
       IceChange, ChannelOpens, ChannelCloses, threads, Event
  <1>7. CASE RecvStep \/ KeepStep
    BY <1>1, <1>2, <1>7, KeepLeaves DEF RecvStep, TakeJoined, ScanJoined,
       CheckActive, Accept, Activate, TakeLeft, ResetReceiver, UnsetActive,
       ForgetIce, ForgetOpen, TakeAnswer, ReceiveClosed, threads
  <1>8. ASSUME NEW s \in Stream, CallbackStep(s) PROVE EventType'
    BY <1>1, <1>4, <1>5, <1>8 DEF CallbackStep, DeferOffer, OfferCreated,
       ReadIceState, TrackIceState, StartScan, ScanDead, ReleaseReceiver,
       DropActive, AddChannel, MarkOpen, UnmarkOpen, DeleteChannel
  <1>9. QED
    BY <1>1, <1>6, <1>7, <1>8 DEF Next, Exited, vars, threads

LEMMA ServerTypeNext == TypeInv /\ [Next]_vars => ServerType'
  <1> SUFFICES ASSUME ServerType, [Next]_vars PROVE ServerType'
    BY DEF TypeInv
  <1>1. CASE UNCHANGED server
    BY <1>1 DEF ServerType, server
  <1>2. ASSUME inbox # <<>>, inbox' = Tail(inbox),
               UNCHANGED <<sock, conns, joins, answers>>
        PROVE  ServerType'
    <2>1. Tail(inbox) \in Seq(Announced)
      BY <1>2 DEF ServerType
    <2>2. QED BY <1>2, <2>1 DEF ServerType
  <1>3. ASSUME NEW m \in Announced PROVE Append(inbox, m) \in Seq(Announced)
    BY DEF ServerType
  <1>4. ASSUME NEW r \in Receiver, Join(r) PROVE ServerType'
    <2>1. Append(inbox, Msg("receiver_joined", r)) \in Seq(Announced)
      BY <1>3 DEF Msg, Announced
    <2>2. conns[r] + 1 \in 0 .. 2 /\ joins + 1 \in 0 .. MaxJoins
      BY <1>4 DEF Join, ServerType
    <2>3. QED BY <1>4, <2>1, <2>2 DEF Join, ServerType
  <1>5. ASSUME NEW r \in Receiver, Leave(r) PROVE ServerType'
    <2>1. Append(inbox, Msg("receiver_left", r)) \in Seq(Announced)
      BY <1>3 DEF Msg, Announced
    <2>2. conns[r] - 1 \in 0 .. 2
      BY <1>5 DEF Leave, ServerType
    <2>3. QED BY <1>5, <2>1, <2>2 DEF Leave, ServerType
  <1>6. ASSUME NEW s \in Stream, Answer(s) PROVE ServerType'
    <2>1. Append(inbox, Msg("answer", s)) \in Seq(Announced)
      BY <1>3 DEF Msg, Announced
    <2>2. answers[s] - 1 \in Nat
      BY <1>6 DEF Answer, ServerType
    <2>3. QED BY <1>6, <2>1, <2>2 DEF Answer, ServerType
  <1>7. CASE CloseSignaling
    BY <1>7 DEF CloseSignaling, ServerType
  <1>8. ASSUME NEW s \in Stream,
               IceChange(s) \/ ChannelOpens(s) \/ ChannelCloses(s)
        PROVE  ServerType'
    BY <1>1, <1>8 DEF IceChange, ChannelOpens, ChannelCloses
  <1>9. CASE RecvStep
    BY <1>1, <1>2, <1>9 DEF RecvStep, TakeJoined, ScanJoined, CheckActive,
       Accept, Activate, CreateOffers, TakeLeft, ResetReceiver, UnsetActive,
       ForgetIce, ForgetOpen, TakeAnswer, ReceiveClosed
  <1>10. ASSUME NEW s \in Stream, CallbackStep(s) PROVE ServerType'
    <2>1. CASE OfferCreated(s)
      <3>1. CASE UNCHANGED answers
        BY <2>1, <3>1 DEF OfferCreated, ServerType
      <3>2. CASE answers' = [answers EXCEPT ![s] = @ + 1]
        BY <2>1, <3>2 DEF OfferCreated, ServerType
      <3>3. QED BY <2>1, <3>1, <3>2 DEF OfferCreated
    <2>2. QED
      BY <1>1, <1>10, <2>1 DEF CallbackStep, StartCallback, NegotiationNeeded,
         DeferOffer, ReadIceState, TrackIceState, StartScan, ScanDead,
         ReleaseReceiver, DropActive, AddChannel, MarkOpen, UnmarkOpen,
         DeleteChannel
  <1>11. CASE Environment
    BY <1>4, <1>5, <1>6, <1>7, <1>8, <1>11 DEF Environment
  <1>12. QED
    BY <1>1, <1>9, <1>10, <1>11, KeepLeaves DEF Next, Exited, vars

LEMMA MediaTypeNext == TypeInv /\ [Next]_vars => MediaType'
  <1> SUFFICES ASSUME TypeInv, [Next]_vars PROVE MediaType'
    OBVIOUS
  <1>1. CASE UNCHANGED media
    BY <1>1 DEF TypeInv, MediaType, media
  <1>2. CASE TakeAnswer
    <2>1. inbox \in Seq(Announced) /\ inbox # <<>>
      BY <1>2 DEF TakeAnswer, TypeInv, ServerType
    <2>2. Head(inbox) \in Announced
      BY <2>1
    <2>3. Head(inbox).id \in Stream
      BY <1>2, <2>2 DEF TakeAnswer, Announced
    <2>4. QED BY <1>2, <2>3 DEF TakeAnswer, TypeInv, MediaType
  <1>3. ASSUME NEW s \in Stream, IceChange(s) PROVE MediaType'
    <2>1. iceMoves[s] + 1 \in 0 .. MaxIce
      BY <1>3 DEF IceChange, TypeInv, MediaType
    <2>2. \A now \in Reachable : IceNext(now) \subseteq Reachable
      BY DEF IceNext, Reachable
    <2>3. iceProp[s] \in Reachable
      BY DEF TypeInv, MediaType
    <2>4. PICK state \in IceNext(iceProp[s]) :
            iceProp' = [iceProp EXCEPT ![s] = state]
      BY <1>3 DEF IceChange
    <2>5. state \in Reachable
      BY <2>2, <2>3, <2>4
    <2>6. iceProp' \in [Stream -> Reachable]
      BY <2>4, <2>5 DEF TypeInv, MediaType
    <2>7. QED BY <1>3, <2>1, <2>6 DEF IceChange, TypeInv, MediaType
  <1>4. ASSUME NEW s \in Stream, ChannelOpens(s) \/ ChannelCloses(s)
        PROVE  MediaType'
    BY <1>4 DEF ChannelOpens, ChannelCloses, TypeInv, MediaType
  <1>5. CASE Environment
    BY <1>1, <1>3, <1>4, <1>5 DEF Environment, Join, Leave, Answer,
       CloseSignaling
  <1>6. CASE RecvStep
    BY <1>1, <1>2, <1>6 DEF RecvStep, TakeJoined, ScanJoined, CheckActive,
       Accept, Activate, CreateOffers, TakeLeft, ResetReceiver, UnsetActive,
       ForgetIce, ForgetOpen, ReceiveClosed
  <1>7. QED
    BY <1>1, <1>5, <1>6, KeepLeaves, CallbackLeaves DEF Next, Exited, vars

LEMMA GhostTypeNext == TypeInv /\ [Next]_vars => GhostType'
  <1> SUFFICES ASSUME TypeInv, [Next]_vars PROVE GhostType'
    OBVIOUS
  <1>1. CASE UNCHANGED ghosts
    BY <1>1 DEF TypeInv, GhostType, ghosts
  <1>2. CASE TakeJoined \/ TakeLeft
    <2>1. inbox \in Seq(Announced) /\ inbox # <<>>
      BY <1>2 DEF TakeJoined, TakeLeft, TypeInv, ServerType
    <2>2. Head(inbox) \in Announced
      BY <2>1
    <2>3. Head(inbox).id \in Receiver
      BY <1>2, <2>2 DEF TakeJoined, TakeLeft, Announced
    <2>4. QED BY <1>2, <2>3 DEF TakeJoined, TakeLeft, TypeInv, GhostType
  <1>3. CASE Accept \/ Activate
    <2>1. accepted' \in Nat
      BY <1>3 DEF Accept, Activate, TypeInv, GhostType
    <2>2. fresh' \in BOOLEAN /\ UNCHANGED <<told, made, offers>>
      BY <1>3 DEF Accept, Activate
    <2>3. QED BY <2>1, <2>2 DEF TypeInv, GhostType
  <1>4. CASE CreateOffers
    <2>1. made' \in [Stream -> Nat]
      BY <1>4 DEF CreateOffers, TypeInv, GhostType
    <2>2. QED BY <1>4, <2>1 DEF CreateOffers, TypeInv, GhostType
  <1>5. CASE RecvStep
    BY <1>1, <1>2, <1>3, <1>4, <1>5 DEF RecvStep, ScanJoined, CheckActive,
       ResetReceiver, UnsetActive, ForgetIce, ForgetOpen, TakeAnswer,
       ReceiveClosed
  <1>6. ASSUME NEW s \in Stream, CallbackStep(s) PROVE GhostType'
    <2>1. CASE NegotiationNeeded(s)
      <3>1. UNCHANGED made \/ made' = [made EXCEPT ![s] = @ + 1]
        BY <2>1 DEF NegotiationNeeded
      <3>2. made' \in [Stream -> Nat]
        BY <3>1 DEF TypeInv, GhostType
      <3>3. QED BY <2>1, <3>2 DEF NegotiationNeeded, TypeInv, GhostType
    <2>2. CASE OfferCreated(s)
      <3>1. UNCHANGED offers \/ offers' = [offers EXCEPT ![s] = @ + 1]
        BY <2>2 DEF OfferCreated
      <3>2. offers' \in [Stream -> Nat]
        BY <3>1 DEF TypeInv, GhostType
      <3>3. QED BY <2>2, <3>2 DEF OfferCreated, TypeInv, GhostType
    <2>3. CASE TrackIceState(s)
      BY <2>3 DEF TrackIceState, TypeInv, GhostType
    <2>4. QED
      BY <1>1, <1>6, <2>1, <2>2, <2>3 DEF CallbackStep, StartCallback,
         DeferOffer, ReadIceState, StartScan, ScanDead, ReleaseReceiver,
         DropActive, AddChannel, MarkOpen, UnmarkOpen, DeleteChannel
  <1>7. QED
    BY <1>1, <1>5, <1>6, KeepLeaves, EnvironmentLeaves DEF Next, Exited, vars

LEMMA TypeInit == Init => TypeInv
  <1> SUFFICES ASSUME Init PROVE TypeInv
    OBVIOUS
  <1>1. MainType
    BY DEF Init, MainType
  <1>2. ThreadType
    <2>1. \A step \in {"wait", "sleep", "idle"} :
            At(step) \in Place /\ At(step).at = step
      BY PlaceTyped DEF Ids, Steps, At
    <2>2. QED BY <2>1 DEF Init, ThreadType, JoinSteps
  <1>3. EventType
    <2>1. <<"negotiate">> \in Seq(Event)
      BY DEF Event
    <2>2. QED BY <2>1 DEF Init, EventType
  <1>4. ServerType
    <2>1. <<>> \in Seq(Announced)
      OBVIOUS
    <2>2. QED BY <2>1 DEF Init, ServerType
  <1>5. MediaType
    BY DEF Init, MediaType, Reachable
  <1>6. GhostType
    BY DEF Init, GhostType
  <1>7. QED BY <1>1, <1>2, <1>3, <1>4, <1>5, <1>6 DEF TypeInv

LEMMA TypeHolds == Spec => []TypeInv
  <1>1. TypeInv /\ [Next]_vars => TypeInv'
    BY MainTypeNext, ThreadTypeNext, EventTypeNext, ServerTypeNext,
       MediaTypeNext, GhostTypeNext DEF TypeInv
  <1>2. QED BY <1>1, TypeInit, PTL DEF Spec

(* TypeOK: every field, queue and thread of the sender has its type        *)
(* (webrtc_sender.py).                                                     *)
THEOREM SenderTypeCorrect == Spec => []TypeOK
  BY TypeHolds, TypesHold, PTL

-----------------------------------------------------------------------------
(* What a callback of stream s does, seen from the others.                 *)

LEMMA StepFields ==
  ASSUME NEW step, NEW id
  PROVE  /\ At(step).at = step
         /\ AtId(step, id).at = step /\ AtId(step, id).id = id
         /\ Iterate(id).at = "scan" /\ Iterate(id).id = id
         /\ Iterate(id).size = Cardinality(Tracked)
  BY DEF At, AtId, Iterate

LEMMA CallbackOthers ==
  ASSUME TypeInv, NEW s \in Stream, CallbackStep(s), NEW t \in Stream, t # s
  PROVE  cb'[t] = cb[t] /\ evq'[t] = evq[t] /\ ice'[t] = ice[t]
  <1>1. \E it : cb' = [cb EXCEPT ![s] = it]
    BY DEF CallbackStep, StartCallback, NegotiationNeeded, DeferOffer,
     OfferCreated, ReadIceState, TrackIceState, StartScan, ScanDead,
     ReleaseReceiver, DropActive, AddChannel, MarkOpen, UnmarkOpen,
     DeleteChannel, Goto
  <1>2. evq' = evq \/ \E q : evq' = [evq EXCEPT ![s] = q]
    BY DEF CallbackStep, StartCallback, NegotiationNeeded, DeferOffer,
     OfferCreated, ReadIceState, TrackIceState, StartScan, ScanDead,
     ReleaseReceiver, DropActive, AddChannel, MarkOpen, UnmarkOpen,
     DeleteChannel
  <1>3. ice' = ice \/ \E i : ice' = [ice EXCEPT ![s] = i]
    BY DEF CallbackStep, StartCallback, NegotiationNeeded, DeferOffer,
     OfferCreated, ReadIceState, TrackIceState, StartScan, ScanDead,
     ReleaseReceiver, DropActive, AddChannel, MarkOpen, UnmarkOpen,
     DeleteChannel, fields
  <1>4. QED
    BY <1>1, <1>2, <1>3 DEF TypeInv, MainType, ThreadType, EventType

LEMMA GotoAt ==
  ASSUME TypeInv, NEW s \in Stream, NEW it, Goto(s, it)
  PROVE  cb'[s] = it
  BY DEF Goto, TypeInv, ThreadType

LEMMA StartsEvent ==
  ASSUME TypeInv, NEW s \in Stream, StartCallback(s)
  PROVE  /\ evq[s] \in Seq(Event) /\ evq[s] # <<>>
         /\ cb'[s].at = Head(evq[s]) /\ cb'[s].at \in Event
  <1>1. evq[s] \in Seq(Event) /\ evq[s] # <<>>
    BY DEF StartCallback, TypeInv, EventType
  <1>2. cb'[s] = At(Head(evq[s]))
    BY GotoAt DEF StartCallback
  <1>3. QED BY <1>1, <1>2, StepFields

LEMMA ScanDeadTo ==
  ASSUME TypeInv, NEW s \in Stream, ScanDead(s)
  PROVE  cb'[s].at \in {"idle", "release", "scan"}
  <1>1. cb[s] \in Place /\ cb[s].at = "scan"
    BY DEF ScanDead, Calling, TypeInv, ThreadType
  <1>2. \/ cb'[s] = At("idle") \/ cb'[s] = At("release")
        \/ \E k : cb'[s] = Advance(cb[s], k)
    BY GotoAt DEF ScanDead
  <1>3. QED BY <1>1, <1>2, StepFields, AdvanceTyped

-----------------------------------------------------------------------------
(* Data channels: the entry is made before the mark and deleted after it.  *)

ChannelInv ==
  /\ OpenHasChannel
  /\ \A s \in Stream : /\ cb[s].at = "mark" => s \in channels
                       /\ cb[s].at = "delete" => s \notin dcOpen

LEMMA ChannelNext == TypeInv /\ ChannelInv /\ [Next]_vars => ChannelInv'
  <1> SUFFICES ASSUME TypeInv, ChannelInv, [Next]_vars PROVE ChannelInv'
    OBVIOUS
  <1>1. CASE UNCHANGED <<channels, cb>> /\ dcOpen' \subseteq dcOpen
    BY <1>1 DEF ChannelInv, OpenHasChannel
  <1>2. CASE RecvStep
    <2>1. dcOpen' = dcOpen \/ dcOpen' = {}
      BY <1>2 DEF RecvStep, TakeJoined, ScanJoined, CheckActive, Accept,
         Activate, CreateOffers, TakeLeft, ResetReceiver, UnsetActive,
         ForgetIce, ForgetOpen, TakeAnswer, ReceiveClosed, fields, dcs
    <2>2. QED BY <1>1, <1>2, <2>1, RecvLeaves
  <1>3. ASSUME NEW s \in Stream, CallbackStep(s) PROVE ChannelInv'
    <2> \A t \in Stream : t # s => cb'[t] = cb[t]
      BY <1>3, CallbackOthers
    <2>1. CASE AddChannel(s)
      <3>1. cb'[s].at = "mark" /\ channels' = channels \cup {s}
        BY <2>1, GotoAt, StepFields DEF AddChannel
      <3>2. QED BY <2>1, <3>1 DEF AddChannel, ChannelInv, OpenHasChannel
    <2>2. CASE MarkOpen(s)
      <3>1. cb'[s].at = "idle" /\ dcOpen' = dcOpen \cup {s}
        BY <2>2, GotoAt, StepFields DEF MarkOpen
      <3>2. QED
        BY <2>2, <3>1 DEF MarkOpen, Calling, ChannelInv, OpenHasChannel
    <2>3. CASE UnmarkOpen(s)
      <3>1. cb'[s].at = "delete" /\ dcOpen' = dcOpen \ {s}
        BY <2>3, GotoAt, StepFields DEF UnmarkOpen
      <3>2. QED BY <2>3, <3>1 DEF UnmarkOpen, ChannelInv, OpenHasChannel
    <2>4. CASE DeleteChannel(s)
      <3>1. cb'[s].at = "idle" /\ channels' = channels \ {s}
        BY <2>4, GotoAt, StepFields DEF DeleteChannel
      <3>2. QED
        BY <2>4, <3>1 DEF DeleteChannel, Calling, ChannelInv, OpenHasChannel
    <2>5. ASSUME UNCHANGED dcs, cb'[s].at \notin {"mark", "delete"}
          PROVE  ChannelInv'
      BY <2>5 DEF ChannelInv, OpenHasChannel, dcs
    <2>6. CASE StartCallback(s)
      BY <2>5, <2>6, StartsEvent DEF StartCallback, Event, fields
    <2>7. CASE \/ NegotiationNeeded(s) \/ DeferOffer(s) \/ OfferCreated(s)
               \/ ReadIceState(s) \/ TrackIceState(s) \/ StartScan(s)
               \/ ReleaseReceiver(s) \/ DropActive(s)
      <3>1. UNCHANGED dcs
        BY <2>7 DEF NegotiationNeeded, DeferOffer, OfferCreated, ReadIceState,
           TrackIceState, StartScan, ReleaseReceiver, DropActive, fields
      <3>2. \/ cb'[s] = Iterate(None) \/ \E i : cb'[s] = AtId("track", i)
            \/ \E step \in {"idle", "defer", "dead", "drop"} : cb'[s] = At(step)
        BY <2>7, GotoAt DEF NegotiationNeeded, DeferOffer, OfferCreated,
           ReadIceState, TrackIceState, StartScan, ReleaseReceiver, DropActive
      <3>3. cb'[s].at \in {"scan", "track", "idle", "defer", "dead", "drop"}
        BY <3>2, StepFields
      <3>4. QED BY <2>5, <3>1, <3>3
    <2>8. CASE ScanDead(s)
      BY <2>5, <2>8, ScanDeadTo DEF ScanDead, fields
    <2>9. QED
      BY <1>3, <2>1, <2>2, <2>3, <2>4, <2>6, <2>7, <2>8 DEF CallbackStep
  <1>4. CASE KeepStep \/ Environment \/ UNCHANGED vars
    BY <1>1, <1>4, KeepLeaves, EnvironmentLeaves DEF fields, dcs, vars, threads
  <1>5. QED BY <1>2, <1>3, <1>4 DEF Next, Exited

(* OpenHasChannel: whoever finds a stream in _dc_open finds its channel in *)
(* data_channels at that moment (webrtc_sender.py:388-412).                *)
THEOREM OpenChannelsExist == Spec => []OpenHasChannel
  <1>1. Init => ChannelInv
    <2> SUFFICES ASSUME Init PROVE ChannelInv
      OBVIOUS
    <2>1. dcOpen = {} /\ \A s \in Stream : cb[s].at = "idle"
      BY StepFields DEF Init
    <2>2. QED BY <2>1 DEF ChannelInv, OpenHasChannel
  <1>2. ChannelInv => OpenHasChannel
    BY DEF ChannelInv
  <1>3. QED BY <1>1, <1>2, ChannelNext, TypeHolds, PTL DEF Spec

-----------------------------------------------------------------------------
(* The active receiver.  Between taking receiver_joined and activating the *)
(* receiver the loop takes no other message, so it is still there.         *)

PresentInv ==
  /\ ActiveIsPresent
  /\ recv.at \in JoinSteps => recv.id \in told

LEMMA PresentNext == TypeInv /\ PresentInv /\ [Next]_vars => PresentInv'
  <1> SUFFICES ASSUME TypeInv, PresentInv, [Next]_vars PROVE PresentInv'
    OBVIOUS
  <1>1. CASE UNCHANGED <<recv, told>> /\ active' \in {active, None}
    BY <1>1 DEF PresentInv, ActiveIsPresent
  <1>2. CASE TakeJoined
    <2>1. recv.at = "wait" /\ recv'.at = "scan" /\ recv'.id = Head(inbox).id
      BY <1>2, StepFields DEF TakeJoined, Receiving
    <2>2. QED
      BY <1>2, <2>1 DEF TakeJoined, PresentInv, ActiveIsPresent, fields, flags
  <1>3. CASE ScanJoined \/ CheckActive \/ Accept
    <2>1. recv.at \in JoinSteps
      BY <1>3 DEF ScanJoined, CheckActive, Accept, Receiving, JoinSteps
    <2>2. recv \in Place
      BY DEF TypeInv, ThreadType
    <2>3. \/ \E k : recv' = Advance(recv, k)
          \/ recv' \in {At("dead"), At("wait")}
          \/ \E step \in {"accept", "who", "compare", "activate"} :
               recv' = AtId(step, recv.id)
      BY <1>3 DEF ScanJoined, CheckActive, Accept
    <2>4. \/ recv'.at \in {"dead", "wait"}
          \/ recv'.at \in JoinSteps /\ recv'.id = recv.id
      <3>1. ASSUME NEW k, recv' = Advance(recv, k)
            PROVE  recv'.at \in JoinSteps /\ recv'.id = recv.id
        BY <2>1, <2>2, <3>1, AdvanceTyped
      <3>2. ASSUME NEW step \in {"accept", "who", "compare", "activate"},
                   recv' = AtId(step, recv.id)
            PROVE  recv'.at \in JoinSteps /\ recv'.id = recv.id
        BY <3>2, StepFields DEF JoinSteps
      <3>3. CASE recv' \in {At("dead"), At("wait")}
        BY <3>3, StepFields
      <3>4. QED BY <2>3, <3>1, <3>2, <3>3
    <2>5. UNCHANGED <<active, told>>
      BY <1>3 DEF ScanJoined, CheckActive, Accept, fields, flags, ghosts
    <2>6. QED
      BY <2>1, <2>4, <2>5 DEF PresentInv, ActiveIsPresent, JoinSteps
  <1>4. CASE Activate
    <2>1. recv'.at = "offer" /\ recv.at \in JoinSteps
      BY <1>4, StepFields DEF Activate, Receiving, JoinSteps
    <2>2. QED
      BY <1>4, <2>1 DEF Activate, PresentInv, ActiveIsPresent, JoinSteps
  <1>5. CASE TakeLeft
    <2>1. recv.at = "wait"
      BY <1>5 DEF TakeLeft, Receiving
    <2>2. UNCHANGED active /\ told' = told \ {Head(inbox).id}
      BY <1>5 DEF TakeLeft, fields, flags
    <2>3. CASE Head(inbox).id = active
      <3>1. recv'.at = "reset"
        BY <1>5, <2>3, StepFields DEF TakeLeft
      <3>2. QED BY <3>1 DEF PresentInv, ActiveIsPresent, JoinSteps
    <2>4. CASE Head(inbox).id # active
      <3>1. recv'.at = "wait"
        BY <1>5, <2>4, StepFields DEF TakeLeft
      <3>2. QED
        BY <2>1, <2>2, <2>4, <3>1 DEF PresentInv, ActiveIsPresent, JoinSteps
    <2>5. QED BY <2>3, <2>4
  <1>6. CASE ResetReceiver
    <2>1. recv'.at = "unset"
      BY <1>6, StepFields DEF ResetReceiver
    <2>2. QED BY <2>1 DEF PresentInv, ActiveIsPresent, JoinSteps
  <1>7. CASE UnsetActive
    <2>1. recv'.at = "forget" /\ active' = None
      BY <1>7, StepFields DEF UnsetActive
    <2>2. QED BY <2>1 DEF PresentInv, ActiveIsPresent, JoinSteps
  <1>8. CASE CreateOffers \/ ForgetIce \/ ForgetOpen \/ ReceiveClosed
    <2>1. recv.at \in {"offer", "forget", "forgetdc", "wait"}
      BY <1>8 DEF CreateOffers, ForgetIce, ForgetOpen, ReceiveClosed, Receiving
    <2>2. \E step \in {"wait", "forgetdc", "closed", "ended"} : recv' = At(step)
      BY <1>8 DEF CreateOffers, ForgetIce, ForgetOpen, ReceiveClosed
    <2>3. recv'.at \in {"wait", "forgetdc", "closed", "ended"}
      BY <2>2, StepFields
    <2>4. UNCHANGED <<active, told>>
      BY <1>8 DEF CreateOffers, ForgetIce, ForgetOpen, ReceiveClosed, flags,
         ghosts
    <2>5. QED BY <2>1, <2>3, <2>4 DEF PresentInv, ActiveIsPresent, JoinSteps
  <1>9. CASE TakeAnswer
    BY <1>1, <1>9 DEF TakeAnswer, fields, flags, threads, ghosts
  <1>10. ASSUME NEW s \in Stream, CallbackStep(s) PROVE PresentInv'
    <2>1. active' \in {active, None}
      BY <1>10 DEF CallbackStep, StartCallback, NegotiationNeeded, DeferOffer,
         OfferCreated, ReadIceState, TrackIceState, StartScan, ScanDead,
         ReleaseReceiver, DropActive, AddChannel, MarkOpen, UnmarkOpen,
         DeleteChannel, fields, flags
    <2>2. QED BY <1>1, <1>10, <2>1, CallbackLeaves
  <1>11. CASE KeepStep \/ Environment \/ UNCHANGED vars
    BY <1>1, <1>11, KeepLeaves, EnvironmentLeaves DEF fields, flags, vars,
       threads, ghosts
  <1>12. QED
    BY <1>2, <1>3, <1>4, <1>5, <1>6, <1>7, <1>8, <1>9, <1>10, <1>11
    DEF Next, Exited, RecvStep

(* ActiveIsPresent: a receiver that left is never kept as the active one   *)
(* (webrtc_sender.py:145-172).                                             *)
THEOREM ActiveReceiverPresent == Spec => []ActiveIsPresent
  <1>1. Init => PresentInv
    BY StepFields DEF Init, PresentInv, ActiveIsPresent, JoinSteps
  <1>2. PresentInv => ActiveIsPresent
    BY DEF PresentInv
  <1>3. QED BY <1>1, <1>2, PresentNext, TypeHolds, PTL DEF Spec

-----------------------------------------------------------------------------
(* Offers wait for the first receiver.                                     *)

OfferInv ==
  /\ NoOfferBeforeReceiver
  /\ hasReceiver => accepted > 0
  /\ recv.at \in {"activate", "offer"} => accepted > 0

LEMMA OfferNext == TypeInv /\ OfferInv /\ [Next]_vars => OfferInv'
  <1> SUFFICES ASSUME TypeInv, OfferInv, [Next]_vars PROVE OfferInv'
    OBVIOUS
  <1>1. accepted \in Nat /\ made \in [Stream -> Nat]
    BY DEF TypeInv, GhostType
  <1>2. ASSUME UNCHANGED <<made, accepted>>, hasReceiver' => hasReceiver,
               recv' = recv \/ recv'.at \notin {"activate", "offer"}
        PROVE  OfferInv'
    BY <1>2 DEF OfferInv, NoOfferBeforeReceiver
  <1>3. CASE Accept
    <2>1. accepted' = accepted + 1 /\ accepted' > 0
      BY <1>1, <1>3 DEF Accept
    <2>2. QED BY <2>1 DEF OfferInv, NoOfferBeforeReceiver
  <1>4. CASE Activate \/ CreateOffers
    <2>1. accepted > 0 /\ accepted' = accepted
      BY <1>4 DEF Activate, CreateOffers, Receiving, OfferInv
    <2>2. QED BY <2>1 DEF OfferInv, NoOfferBeforeReceiver
  <1>5. CASE ScanJoined \/ CheckActive
    <2>1. recv \in Place /\ recv.at \notin {"activate", "offer"}
      BY <1>5 DEF ScanJoined, CheckActive, Receiving, TypeInv, ThreadType
    <2>2. \/ \E k : recv' = Advance(recv, k)
          \/ recv' \in {At("dead"), At("wait")}
          \/ \E step \in {"accept", "who", "compare"} :
               recv' = AtId(step, recv.id)
      BY <1>5 DEF ScanJoined, CheckActive
    <2>3. recv'.at \notin {"activate", "offer"}
      <3>1. ASSUME NEW k, recv' = Advance(recv, k)
            PROVE  recv'.at \notin {"activate", "offer"}
        BY <2>1, <3>1, AdvanceTyped
      <3>2. ASSUME NEW step \in {"accept", "who", "compare"},
                   recv' = AtId(step, recv.id)
            PROVE  recv'.at \notin {"activate", "offer"}
        BY <3>2, StepFields
      <3>3. CASE recv' \in {At("dead"), At("wait")}
        BY <3>3, StepFields
      <3>4. QED BY <2>2, <3>1, <3>2, <3>3
    <2>4. QED
      BY <1>2, <1>5, <2>3 DEF ScanJoined, CheckActive, fields, flags, ghosts
  <1>6. CASE \/ TakeLeft \/ ResetReceiver \/ UnsetActive \/ ForgetIce
             \/ ForgetOpen \/ ReceiveClosed
    <2>1. \E step \in {"reset", "wait", "unset", "forget", "forgetdc",
                       "closed", "ended"} : recv' = At(step)
      BY <1>6 DEF TakeLeft, ResetReceiver, UnsetActive, ForgetIce, ForgetOpen,
         ReceiveClosed
    <2>2. recv'.at \notin {"activate", "offer"}
      BY <2>1, StepFields
    <2>3. UNCHANGED <<made, accepted>> /\ (hasReceiver' => hasReceiver)
      BY <1>6 DEF TakeLeft, ResetReceiver, UnsetActive, ForgetIce, ForgetOpen,
         ReceiveClosed, fields, flags, ghosts
    <2>4. QED BY <1>2, <2>2, <2>3
  <1>7. CASE TakeJoined
    <2>1. recv'.at \notin {"activate", "offer"}
      BY <1>7, StepFields DEF TakeJoined
    <2>2. QED BY <1>2, <1>7, <2>1 DEF TakeJoined, fields, flags
  <1>8. CASE TakeAnswer
    BY <1>2, <1>8 DEF TakeAnswer, fields, flags, threads, ghosts
  <1>9. ASSUME NEW s \in Stream, CallbackStep(s) PROVE OfferInv'
    <2> UNCHANGED <<recv, accepted>>
      BY <1>9, CallbackLeaves
    <2>1. CASE NegotiationNeeded(s)
      <3>1. CASE hasReceiver
        BY <2>1, <3>1 DEF NegotiationNeeded, OfferInv, NoOfferBeforeReceiver,
           fields, flags
      <3>2. CASE ~hasReceiver
        BY <1>2, <2>1, <3>2 DEF NegotiationNeeded, fields, flags
      <3>3. QED BY <3>1, <3>2
    <2>2. CASE ~NegotiationNeeded(s)
      <3>1. UNCHANGED made /\ (hasReceiver' => hasReceiver)
        BY <1>9, <2>2 DEF CallbackStep, StartCallback, DeferOffer,
           OfferCreated, ReadIceState, TrackIceState, StartScan, ScanDead,
           ReleaseReceiver, DropActive, AddChannel, MarkOpen, UnmarkOpen,
           DeleteChannel, fields, flags, ghosts
      <3>2. QED BY <1>2, <3>1
    <2>3. QED BY <2>1, <2>2
  <1>10. CASE KeepStep \/ Environment \/ UNCHANGED vars
    BY <1>2, <1>10, KeepLeaves, EnvironmentLeaves DEF fields, flags, vars,
       threads, ghosts
  <1>11. QED
    BY <1>3, <1>4, <1>5, <1>6, <1>7, <1>8, <1>9, <1>10
    DEF Next, Exited, RecvStep

(* NoOfferBeforeReceiver: no webrtcbin is asked for an offer before a      *)
(* receiver was accepted (webrtc_sender.py:50-53, 289-295).                *)
THEOREM OffersWaitForReceiver == Spec => []NoOfferBeforeReceiver
  <1>1. Init => OfferInv
    <2> SUFFICES ASSUME Init PROVE OfferInv
      OBVIOUS
    <2>1. recv.at = "wait"
      BY StepFields DEF Init
    <2>2. QED BY <2>1 DEF Init, OfferInv, NoOfferBeforeReceiver
  <1>2. OfferInv => NoOfferBeforeReceiver
    BY DEF OfferInv
  <1>3. QED BY <1>1, <1>2, OfferNext, TypeHolds, PTL DEF Spec

-----------------------------------------------------------------------------
(* The tracked ICE state.  Where it differs from the real one, a callback  *)
(* that will set it right is waiting, about to read it, or has read it.    *)

HasIce(s) == \E k \in DOMAIN evq[s] : evq[s][k] = "ice"

Following(s) ==
  /\ \/ ice[s] \in {None, iceProp[s]}
     \/ HasIce(s)
     \/ cb[s].at \in {"ice", "track"}
  /\ cb[s].at = "track" => cb[s].id = iceProp[s] \/ HasIce(s)

TrackInv == \A s \in Stream : Following(s)

LEMMA AppendKeepsIce ==
  ASSUME NEW s \in Stream, evq[s] \in Seq(Event), NEW e \in Event,
         evq'[s] = Append(evq[s], e)
  PROVE  (HasIce(s) => HasIce(s)') /\ (e = "ice" => HasIce(s)')
  <1>1. /\ Len(evq[s]) \in Nat /\ DOMAIN evq[s] = 1 .. Len(evq[s])
        /\ DOMAIN evq'[s] = 1 .. Len(evq[s]) + 1
        /\ \A k \in 1 .. Len(evq[s]) : evq'[s][k] = evq[s][k]
        /\ evq'[s][Len(evq[s]) + 1] = e
    OBVIOUS
  <1>2. HasIce(s) => HasIce(s)'
    BY <1>1 DEF HasIce
  <1>3. e = "ice" => HasIce(s)'
    BY <1>1 DEF HasIce
  <1>4. QED BY <1>2, <1>3

LEMMA TailKeepsIce ==
  ASSUME NEW s \in Stream, evq[s] \in Seq(Event), evq[s] # <<>>, HasIce(s),
         evq'[s] = Tail(evq[s]), Head(evq[s]) # "ice"
  PROVE  HasIce(s)'
  <1>1. /\ Len(evq[s]) \in Nat /\ DOMAIN evq[s] = 1 .. Len(evq[s])
        /\ Head(evq[s]) = evq[s][1]
        /\ DOMAIN evq'[s] = 1 .. Len(evq[s]) - 1
        /\ \A k \in 1 .. Len(evq[s]) - 1 : evq'[s][k] = evq[s][k + 1]
    OBVIOUS
  <1>2. PICK k \in 1 .. Len(evq[s]) : evq[s][k] = "ice"
    BY <1>1 DEF HasIce
  <1>3. k - 1 \in 1 .. Len(evq[s]) - 1
    BY <1>1, <1>2
  <1>4. evq'[s][k - 1] = "ice"
    BY <1>1, <1>2, <1>3
  <1>5. QED BY <1>1, <1>3, <1>4 DEF HasIce

LEMMA TrackNext == TypeInv /\ TrackInv /\ [Next]_vars => TrackInv'
  <1> SUFFICES ASSUME TypeInv, TrackInv, [Next]_vars, NEW t \in Stream
               PROVE  Following(t)'
    BY DEF TrackInv
  <1>1. /\ Following(t) /\ evq[t] \in Seq(Event)
        /\ ice \in [Stream -> IceState \cup {None}]
        /\ evq \in [Stream -> Seq(Event)] /\ cb \in [Stream -> Place]
        /\ iceProp \in [Stream -> Reachable]
    BY DEF TrackInv, TypeInv, EventType, MainType, ThreadType, MediaType
  <1>2. ASSUME ice'[t] \in {None, ice[t]}, iceProp'[t] = iceProp[t],
               HasIce(t) => HasIce(t)',
               \/ cb'[t] = cb[t]
               \/ cb[t].at \notin {"ice", "track"} /\ cb'[t].at # "track"
        PROVE  Following(t)'
    BY <1>1, <1>2 DEF Following
  <1>3. (evq'[t] = evq[t] \/ \E e \in Event : evq'[t] = Append(evq[t], e))
          => (HasIce(t) => HasIce(t)')
    BY <1>1, AppendKeepsIce DEF HasIce
  <1>4. CASE RecvStep
    <2>1. UNCHANGED <<cb, iceProp>>
      BY <1>4, RecvLeaves
    <2>2. ice'[t] \in {None, ice[t]}
      BY <1>4 DEF RecvStep, TakeJoined, ScanJoined, CheckActive, Accept,
         Activate, CreateOffers, TakeLeft, ResetReceiver, UnsetActive,
         ForgetIce, ForgetOpen, TakeAnswer, ReceiveClosed, fields
    <2>3. evq'[t] = evq[t] \/ evq'[t] = Append(evq[t], "offer")
      BY <1>4 DEF RecvStep, TakeJoined, ScanJoined, CheckActive, Accept,
         Activate, CreateOffers, TakeLeft, ResetReceiver, UnsetActive,
         ForgetIce, ForgetOpen, TakeAnswer, ReceiveClosed, threads
    <2>4. QED BY <1>2, <1>3, <2>1, <2>2, <2>3 DEF Event
  <1>5. CASE KeepStep \/ UNCHANGED vars
    <2>1. UNCHANGED <<ice, iceProp, cb, evq>>
      BY <1>5, KeepLeaves DEF fields, media, vars, threads
    <2>2. QED BY <1>2, <1>3, <2>1
  <1>6. ASSUME NEW s \in Stream, CallbackStep(s), s # t PROVE Following(t)'
    <2>1. cb'[t] = cb[t] /\ evq'[t] = evq[t] /\ ice'[t] = ice[t]
      BY <1>6, CallbackOthers
    <2>2. UNCHANGED iceProp
      BY <1>6, CallbackLeaves DEF media
    <2>3. QED BY <1>2, <1>3, <2>1, <2>2
  <1>7. CASE CallbackStep(t)
    <2> UNCHANGED iceProp
      BY <1>7, CallbackLeaves DEF media
    <2>1. CASE StartCallback(t)
      <3>1. /\ evq[t] # <<>> /\ evq'[t] = Tail(evq[t]) /\ UNCHANGED ice
            /\ cb[t].at = "idle" /\ cb'[t].at = Head(evq[t])
            /\ cb'[t].at # "track"
        BY <1>1, <2>1, StartsEvent DEF StartCallback, Calling, fields, Event
      <3>2. CASE Head(evq[t]) = "ice"
        BY <3>1, <3>2 DEF Following
      <3>3. CASE Head(evq[t]) # "ice"
        BY <1>1, <1>2, <3>1, <3>3, TailKeepsIce
      <3>4. QED BY <3>2, <3>3
    <2>2. CASE ReadIceState(t)
      <3>1. cb'[t].at = "track" /\ cb'[t].id = iceProp[t]
        BY <2>2, GotoAt, StepFields DEF ReadIceState
      <3>2. QED BY <3>1 DEF Following
    <2>3. CASE TrackIceState(t)
      <3>1. cb[t].at = "track" /\ ice'[t] = cb[t].id /\ UNCHANGED evq
        BY <1>1, <2>3 DEF TrackIceState, TrackedState, Calling
      <3>2. cb'[t].at \in {"dead", "idle"}
        BY <2>3, GotoAt, StepFields DEF TrackIceState
      <3>3. cb[t].id = iceProp[t] \/ HasIce(t)
        BY <1>1, <3>1 DEF Following
      <3>4. CASE cb[t].id = iceProp[t]
        BY <3>1, <3>2, <3>4 DEF Following
      <3>5. CASE HasIce(t)
        BY <3>1, <3>2, <3>5 DEF Following, HasIce
      <3>6. QED BY <3>3, <3>4, <3>5
    <2>4. CASE \/ NegotiationNeeded(t) \/ DeferOffer(t) \/ OfferCreated(t)
               \/ StartScan(t) \/ ScanDead(t) \/ ReleaseReceiver(t)
               \/ DropActive(t) \/ AddChannel(t) \/ MarkOpen(t)
               \/ UnmarkOpen(t) \/ DeleteChannel(t)
      <3>1. cb[t].at \notin {"ice", "track"} /\ UNCHANGED ice
        BY <2>4 DEF NegotiationNeeded, DeferOffer, OfferCreated, StartScan,
           ScanDead, ReleaseReceiver, DropActive, AddChannel, MarkOpen,
           UnmarkOpen, DeleteChannel, Calling, fields
      <3>2. UNCHANGED evq \/ evq' = [evq EXCEPT ![t] = Append(@, "offer")]
        BY <2>4 DEF NegotiationNeeded, DeferOffer, OfferCreated, StartScan,
           ScanDead, ReleaseReceiver, DropActive, AddChannel, MarkOpen,
           UnmarkOpen, DeleteChannel
      <3>3. evq'[t] = evq[t] \/ evq'[t] = Append(evq[t], "offer")
        BY <1>1, <3>2
      <3>4. cb'[t].at # "track"
        <4>1. CASE ScanDead(t)
          BY <4>1, ScanDeadTo
        <4>2. CASE ~ScanDead(t)
          <5>1. \/ cb'[t] = Iterate(None)
                \/ \E step \in {"idle", "defer", "drop", "mark", "delete"} :
                     cb'[t] = At(step)
            BY <2>4, <4>2, GotoAt DEF NegotiationNeeded, DeferOffer,
               OfferCreated, StartScan, ReleaseReceiver, DropActive,
               AddChannel, MarkOpen, UnmarkOpen, DeleteChannel
          <5>2. QED BY <5>1, StepFields
        <4>3. QED BY <4>1, <4>2
      <3>5. QED BY <1>2, <1>3, <3>1, <3>3, <3>4 DEF Event
    <2>5. QED BY <1>7, <2>1, <2>2, <2>3, <2>4 DEF CallbackStep
  <1>8. CASE Environment
    <2>1. UNCHANGED <<ice, cb>>
      BY <1>8, EnvironmentLeaves DEF fields
    <2>2. CASE IceChange(t)
      <3>1. evq'[t] = Append(evq[t], "ice")
        BY <1>1, <2>2 DEF IceChange
      <3>2. HasIce(t)'
        BY <1>1, <3>1, AppendKeepsIce DEF Event
      <3>3. QED BY <3>2 DEF Following
    <2>3. CASE ~IceChange(t)
      <3>1. iceProp'[t] = iceProp[t]
        BY <1>1, <1>8, <2>3 DEF Environment, Join, Leave, Answer,
           CloseSignaling, IceChange, ChannelOpens, ChannelCloses, media
      <3>2. evq'[t] = evq[t] \/ \E e \in Event : evq'[t] = Append(evq[t], e)
        BY <1>1, <1>8 DEF Environment, Join, Leave, Answer, CloseSignaling,
           IceChange, ChannelOpens, ChannelCloses, threads, Event
      <3>3. QED BY <1>2, <1>3, <2>1, <3>1, <3>2
    <2>4. QED BY <2>2, <2>3
  <1>9. QED
    BY <1>4, <1>5, <1>6, <1>7, <1>8 DEF Next, Exited

(* IceTracked: once no callback is pending, the state tracked for a stream *)
(* is the real one, however many changes each callback stood for           *)
(* (webrtc_sender.py:251-286).                                             *)
THEOREM IceStateFollows == Spec => []IceTracked
  <1>1. Init => TrackInv
    <2> SUFFICES ASSUME Init PROVE TrackInv
      OBVIOUS
    <2>1. \A s \in Stream : cb[s].at = "idle" /\ ice[s] = None
      BY StepFields DEF Init
    <2>2. QED BY <2>1 DEF TrackInv, Following
  <1>2. TrackInv => IceTracked
    BY DEF TrackInv, Following, IceTracked, IceSettled, HasIce
  <1>3. QED BY <1>1, <1>2, TrackNext, TypeHolds, PTL DEF Spec

-----------------------------------------------------------------------------
(* Release.  While every tracked connection is dead and nobody was         *)
(* accepted since, the sender is free, or some callback is on its way to   *)
(* free it and can no longer be made to stop.                              *)

AllDead == Tracked # {} /\ \A s \in Tracked : ice[s] \in Dying

Released == ~hasReceiver /\ active = None

Releasing(s) ==
  \/ cb[s].at \in {"dead", "release"}
  \/ cb[s].at = "scan" /\ cb[s].size = Cardinality(Tracked)
  \/ cb[s].at = "drop" /\ ~hasReceiver

ReleaseInv ==
  AllDead /\ ~fresh => Released \/ \E s \in Stream : Releasing(s)

LEMMA ReleaseNext == TypeInv /\ ReleaseInv /\ [Next]_vars => ReleaseInv'
  <1> SUFFICES ASSUME TypeInv, ReleaseInv, [Next]_vars, AllDead', ~fresh'
               PROVE  Released' \/ \E s \in Stream : Releasing(s)'
    BY DEF ReleaseInv
  <1>1. ASSUME UNCHANGED <<ice, fresh>>
        PROVE  /\ AllDead /\ ~fresh /\ Tracked' = Tracked
               /\ Released \/ \E s \in Stream : Releasing(s)
    BY <1>1 DEF AllDead, Tracked, ReleaseInv
  <1>2. ASSUME UNCHANGED <<ice, fresh, cb>>, hasReceiver' => hasReceiver,
               active' \in {active, None}
        PROVE  Released' \/ \E s \in Stream : Releasing(s)'
    <2>1. Tracked' = Tracked /\ (Released \/ \E s \in Stream : Releasing(s))
      BY <1>1, <1>2
    <2>2. QED BY <1>2, <2>1 DEF Released, Releasing
  <1>3. CASE RecvStep
    <2> UNCHANGED cb
      BY <1>3, RecvLeaves
    <2>1. CASE Accept \/ Activate
      BY <2>1 DEF Accept, Activate
    <2>2. CASE ForgetIce
      BY <2>2 DEF ForgetIce, AllDead, Tracked
    <2>3. CASE \/ TakeJoined \/ ScanJoined \/ CheckActive \/ CreateOffers
               \/ TakeLeft \/ ResetReceiver \/ UnsetActive \/ ForgetOpen
               \/ TakeAnswer \/ ReceiveClosed
      <3>1. /\ UNCHANGED <<ice, fresh>> /\ (hasReceiver' => hasReceiver)
            /\ active' \in {active, None}
        BY <2>3 DEF TakeJoined, ScanJoined, CheckActive, CreateOffers,
           TakeLeft, ResetReceiver, UnsetActive, ForgetOpen, TakeAnswer,
           ReceiveClosed, fields, flags, ghosts
      <3>2. QED BY <1>2, <3>1
    <2>4. QED BY <1>3, <2>1, <2>2, <2>3 DEF RecvStep
  <1>4. CASE KeepStep \/ Environment \/ UNCHANGED vars
    BY <1>2, <1>4, KeepLeaves, EnvironmentLeaves
    DEF fields, flags, ghosts, vars, threads
  <1>5. ASSUME NEW s \in Stream, CallbackStep(s)
        PROVE  Released' \/ \E t \in Stream : Releasing(t)'
    <2>1. \A t \in Stream \ {s} : cb'[t] = cb[t]
      BY <1>5, CallbackOthers
    <2>2. CASE TrackIceState(s)
      <3>1. ice'[s] = cb[s].id /\ cb[s].id \in IceState
        BY <2>2 DEF TrackIceState, TrackedState, Calling, TypeInv, MainType,
           ThreadType
      <3>2. s \in Tracked'
        BY <3>1 DEF Tracked
      <3>3. MayBeLast(s)
        BY <3>1, <3>2 DEF AllDead, MayBeLast
      <3>4. cb'[s].at = "dead"
        BY <2>2, <3>3, GotoAt, StepFields DEF TrackIceState
      <3>5. QED BY <3>4 DEF Releasing
    <2>3. ASSUME UNCHANGED <<ice, fresh>>, hasReceiver' => hasReceiver,
                 active' \in {active, None}, Releasing(s) => Releasing(s)'
          PROVE  Released' \/ \E t \in Stream : Releasing(t)'
      <3>1. /\ Tracked' = Tracked
            /\ Released \/ \E t \in Stream : Releasing(t)
        BY <1>1, <2>3
      <3>2. CASE Released
        BY <2>3, <3>2 DEF Released
      <3>3. ASSUME NEW t \in Stream, Releasing(t)
            PROVE  \E u \in Stream : Releasing(u)'
        BY <2>1, <2>3, <3>1, <3>3 DEF Releasing
      <3>4. QED BY <3>1, <3>2, <3>3
    <2>4. CASE StartScan(s)
      <3>1. UNCHANGED <<ice, fresh, hasReceiver, active>>
        BY <2>4 DEF StartScan, fields, flags, ghosts
      <3>2. cb'[s].at = "scan" /\ cb'[s].size = Cardinality(Tracked)
        BY <2>4, GotoAt, StepFields DEF StartScan
      <3>3. Releasing(s)'
        BY <1>1, <3>1, <3>2 DEF Releasing
      <3>4. QED BY <3>3
    <2>5. CASE ScanDead(s)
      <3>1. UNCHANGED <<ice, fresh, hasReceiver, active>>
        BY <2>5 DEF ScanDead, fields, flags, ghosts
      <3>2. cb[s].at = "scan" /\ cb[s] \in Place
        BY <2>5 DEF ScanDead, Calling, TypeInv, ThreadType
      <3>3. AllDead /\ Tracked' = Tracked
        BY <1>1, <3>1
      <3>4. ASSUME Releasing(s) PROVE Releasing(s)'
        <4>1. cb[s].size = Cardinality(Tracked) /\ ~SizeChanged(cb[s])
          BY <3>2, <3>4 DEF Releasing, SizeChanged
        <4>2. CASE Rest(cb[s]) = {}
          <5>1. cb'[s] = At("release")
            BY <2>5, <4>1, <4>2, GotoAt DEF ScanDead
          <5>2. QED BY <5>1, StepFields DEF Releasing
        <4>3. CASE Rest(cb[s]) # {}
          <5>1. PICK k \in Rest(cb[s]) :
                  Goto(s, IF ice[k] \in Dying \cup {"new"}
                          THEN Advance(cb[s], k) ELSE At("idle"))
            BY <2>5, <4>1, <4>3 DEF ScanDead
          <5>2. ice[k] \in Dying
            BY <3>3, <5>1 DEF AllDead, Rest
          <5>3. cb'[s] = Advance(cb[s], k)
            BY <5>1, <5>2, GotoAt
          <5>4. cb'[s].at = "scan" /\ cb'[s].size = Cardinality(Tracked)
            BY <3>2, <4>1, <5>3, AdvanceTyped
          <5>5. QED BY <3>3, <5>4 DEF Releasing
        <4>4. QED BY <4>2, <4>3
      <3>5. QED BY <2>3, <3>1, <3>4
    <2>6. CASE ReleaseReceiver(s)
      <3>1. cb'[s].at = "drop" /\ ~hasReceiver'
        BY <2>6, GotoAt, StepFields DEF ReleaseReceiver
      <3>2. QED BY <3>1 DEF Releasing
    <2>7. CASE DropActive(s)
      <3>1. UNCHANGED <<ice, fresh, hasReceiver>> /\ active' = None
        BY <2>7 DEF DropActive, ghosts
      <3>2. CASE ~hasReceiver
        BY <3>1, <3>2 DEF Released
      <3>3. CASE hasReceiver
        <4>1. ~Releasing(s)
          BY <2>7, <3>3 DEF DropActive, Calling, Releasing
        <4>2. QED BY <2>3, <3>1, <4>1
      <3>4. QED BY <3>2, <3>3
    <2>8. CASE \/ StartCallback(s) \/ NegotiationNeeded(s) \/ DeferOffer(s)
               \/ OfferCreated(s) \/ ReadIceState(s) \/ AddChannel(s)
               \/ MarkOpen(s) \/ UnmarkOpen(s) \/ DeleteChannel(s)
      <3>1. UNCHANGED <<ice, fresh, hasReceiver, active>>
        BY <2>8 DEF StartCallback, NegotiationNeeded, DeferOffer, OfferCreated,
           ReadIceState, AddChannel, MarkOpen, UnmarkOpen, DeleteChannel,
           fields, flags, ghosts
      <3>2. ~Releasing(s)
        BY <2>8 DEF StartCallback, NegotiationNeeded, DeferOffer, OfferCreated,
           ReadIceState, AddChannel, MarkOpen, UnmarkOpen, DeleteChannel,
           Calling, Releasing
      <3>3. QED BY <2>3, <3>1, <3>2
    <2>9. QED
      BY <1>5, <2>2, <2>4, <2>5, <2>6, <2>7, <2>8 DEF CallbackStep
  <1>6. QED BY <1>3, <1>4, <1>5 DEF Next, Exited

(* DeadIsReleased: once all connections are dead the sender is free for    *)
(* the next receiver, even if the streams died at the same time on their   *)
(* own threads (webrtc_sender.py:271-280).                                 *)
THEOREM DeadReleasesReceiver == Spec => []DeadIsReleased
  <1>1. Init => ReleaseInv
    BY DEF Init, ReleaseInv, AllDead, Tracked
  <1>2. ReleaseInv => DeadIsReleased
    BY DEF ReleaseInv, DeadIsReleased, AllDead, Released, Releasing, Settled,
       IceSettled
  <1>3. QED BY <1>1, <1>2, ReleaseNext, TypeHolds, PTL DEF Spec

-----------------------------------------------------------------------------
(* The books of the offers.  Every acceptance is followed by a request for *)
(* an offer of every stream, and as long as offers can be created and sent *)
(* no request gets lost: what was not handed to the WebSocket waits on the *)
(* stream's thread.                                                        *)

OfferEvents(q) == {k \in DOMAIN q : q[k] = "offer"}

Pending(s) ==
  Cardinality(OfferEvents(evq[s])) + (IF cb[s].at = "offer" THEN 1 ELSE 0)

Accepting == IF recv.at \in {"activate", "offer"} THEN 1 ELSE 0

LEMMA OfferEventsFinite ==
  ASSUME NEW q \in Seq(Event)
  PROVE  IsFiniteSet(OfferEvents(q)) /\ Cardinality(OfferEvents(q)) \in Nat
  <1>1. OfferEvents(q) \subseteq 1 .. Len(q) /\ Len(q) \in Nat
    BY DEF OfferEvents
  <1>2. IsFiniteSet(1 .. Len(q))
    BY <1>1, FS_Interval
  <1>3. IsFiniteSet(OfferEvents(q))
    BY <1>1, <1>2, FS_Subset
  <1>4. QED BY <1>3, FS_CardinalityType

LEMMA AppendCounts ==
  ASSUME NEW q \in Seq(Event), NEW e \in Event
  PROVE  Cardinality(OfferEvents(Append(q, e)))
           = Cardinality(OfferEvents(q)) + (IF e = "offer" THEN 1 ELSE 0)
  <1>1. /\ Len(q) \in Nat /\ DOMAIN q = 1 .. Len(q)
        /\ DOMAIN Append(q, e) = 1 .. Len(q) + 1
        /\ \A k \in 1 .. Len(q) : Append(q, e)[k] = q[k]
        /\ Append(q, e)[Len(q) + 1] = e
    OBVIOUS
  <1>2. Len(q) + 1 \notin OfferEvents(q)
    BY <1>1 DEF OfferEvents
  <1>3. CASE e = "offer"
    <2>1. OfferEvents(Append(q, e)) = OfferEvents(q) \cup {Len(q) + 1}
      BY <1>1, <1>3 DEF OfferEvents
    <2>2. QED BY <1>2, <1>3, <2>1, OfferEventsFinite, FS_AddElement
  <1>4. CASE e # "offer"
    <2>1. OfferEvents(Append(q, e)) = OfferEvents(q)
      BY <1>1, <1>4 DEF OfferEvents
    <2>2. QED BY <1>4, <2>1, OfferEventsFinite
  <1>5. QED BY <1>3, <1>4

LEMMA TailCounts ==
  ASSUME NEW q \in Seq(Event), q # <<>>
  PROVE  Cardinality(OfferEvents(q))
           = Cardinality(OfferEvents(Tail(q)))
               + (IF Head(q) = "offer" THEN 1 ELSE 0)
  <1> DEFINE S == OfferEvents(Tail(q))
             T == OfferEvents(q) \ {1}
             Next1 == [k \in S |-> k + 1]
  <1>1. /\ Len(q) \in Nat \ {0} /\ DOMAIN q = 1 .. Len(q)
        /\ Head(q) = q[1] /\ Tail(q) \in Seq(Event)
        /\ DOMAIN Tail(q) = 1 .. Len(q) - 1
        /\ \A k \in 1 .. Len(q) - 1 : Tail(q)[k] = q[k + 1]
    OBVIOUS
  <1>2. /\ S \subseteq Nat
        /\ \A k \in S : k + 1 \in T
        /\ \A n \in T : n \in Nat /\ n - 1 \in S
    BY <1>1 DEF OfferEvents
  <1> HIDE DEF S, T
  <1>3. Next1 \in [S -> T] /\ \A k, l \in S : Next1[k] = Next1[l] => k = l
    BY <1>2
  <1>4. \A n \in T : \E k \in S : Next1[k] = n
    <2> SUFFICES ASSUME NEW n \in T PROVE \E k \in S : Next1[k] = n
      OBVIOUS
    <2>1. n - 1 \in S /\ n \in Nat /\ Next1[n - 1] = (n - 1) + 1
      BY <1>2
    <2>2. QED BY <2>1
  <1> HIDE DEF Next1
  <1>5. Next1 \in Bijection(S, T)
    BY <1>3, <1>4 DEF Bijection, Injection, Surjection, IsInjective
  <1>6. Cardinality(T) = Cardinality(S)
    <2>1. IsFiniteSet(S)
      BY <1>1, OfferEventsFinite DEF S
    <2>2. ExistsBijection(S, T)
      BY <1>5 DEF ExistsBijection
    <2>3. QED BY <2>1, <2>2, FS_Bijection
  <1>7. Cardinality(S) \in Nat
    BY <1>1, OfferEventsFinite DEF S
  <1>8. Cardinality(OfferEvents(q)) \in Nat /\ IsFiniteSet(OfferEvents(q))
    BY OfferEventsFinite
  <1>9. Cardinality(T) = IF 1 \in OfferEvents(q)
                         THEN Cardinality(OfferEvents(q)) - 1
                         ELSE Cardinality(OfferEvents(q))
    BY <1>8, FS_RemoveElement DEF T
  <1>10. 1 \in OfferEvents(q) <=> Head(q) = "offer"
    BY <1>1 DEF OfferEvents
  <1>11. QED BY <1>6, <1>7, <1>8, <1>9, <1>10 DEF S

AskInv == \A s \in Stream : accepted <= made[s] + Accepting

LEMMA AskNext == TypeInv /\ AskInv /\ [Next]_vars => AskInv'
  <1> SUFFICES ASSUME TypeInv, AskInv, [Next]_vars, NEW t \in Stream
               PROVE  (accepted <= made[t] + Accepting)'
    BY DEF AskInv
  <1>1. /\ accepted \in Nat /\ made \in [Stream -> Nat] /\ made[t] \in Nat
        /\ accepted <= made[t] + Accepting
    BY DEF AskInv, TypeInv, GhostType
  <1>2. ASSUME UNCHANGED accepted, made'[t] \in {made[t], made[t] + 1},
               \/ recv'.at \in {"activate", "offer"}
               \/ recv.at \notin {"activate", "offer"}
        PROVE  (accepted <= made[t] + Accepting)'
    BY <1>1, <1>2 DEF Accepting
  <1>3. CASE RecvStep
    <2>1. CASE Accept
      <3>1. /\ recv.at = "accept" /\ recv'.at = "activate"
            /\ accepted' = accepted + 1 /\ made' = made
        BY <2>1, StepFields DEF Accept, Receiving
      <3>2. QED BY <1>1, <3>1 DEF Accepting
    <2>2. CASE Activate
      <3>1. recv'.at = "offer" /\ UNCHANGED <<accepted, made>>
        BY <2>2, StepFields DEF Activate
      <3>2. QED BY <1>2, <3>1
    <2>3. CASE CreateOffers
      <3>1. /\ recv.at = "offer" /\ recv'.at = "wait"
            /\ accepted' = accepted /\ made'[t] = made[t] + 1
        BY <1>1, <2>3, StepFields
        DEF CreateOffers, Receiving, OfferedStreams
      <3>2. QED BY <1>1, <3>1 DEF Accepting
    <2>4. CASE \/ TakeJoined \/ ScanJoined \/ CheckActive \/ TakeLeft
               \/ ResetReceiver \/ UnsetActive \/ ForgetIce \/ ForgetOpen
               \/ TakeAnswer \/ ReceiveClosed
      <3>1. UNCHANGED <<accepted, made>>
        BY <2>4 DEF TakeJoined, ScanJoined, CheckActive, TakeLeft,
           ResetReceiver, UnsetActive, ForgetIce, ForgetOpen, TakeAnswer,
           ReceiveClosed, ghosts
      <3>2. recv.at \notin {"activate", "offer"}
        BY <2>4 DEF TakeJoined, ScanJoined, CheckActive, TakeLeft,
           ResetReceiver, UnsetActive, ForgetIce, ForgetOpen, TakeAnswer,
           ReceiveClosed, Receiving
      <3>3. QED BY <1>2, <3>1, <3>2
    <2>5. QED BY <1>3, <2>1, <2>2, <2>3, <2>4 DEF RecvStep
  <1>4. ASSUME NEW s \in Stream, CallbackStep(s)
        PROVE  (accepted <= made[t] + Accepting)'
    <2>1. UNCHANGED <<recv, accepted>>
      BY <1>4, CallbackLeaves
    <2>2. \/ UNCHANGED made
          \/ made' = [made EXCEPT ![s] = @ + 1]
      BY <1>4 DEF CallbackStep, StartCallback, NegotiationNeeded, DeferOffer,
         OfferCreated, ReadIceState, TrackIceState, StartScan, ScanDead,
         ReleaseReceiver, DropActive, AddChannel, MarkOpen, UnmarkOpen,
         DeleteChannel, ghosts
    <2>3. QED BY <1>1, <1>2, <2>1, <2>2
  <1>5. CASE KeepStep \/ Environment \/ UNCHANGED vars
    <2>1. UNCHANGED <<recv, accepted, made>>
      BY <1>5, KeepLeaves, EnvironmentLeaves DEF ghosts, vars, threads
    <2>2. QED BY <1>1, <1>2, <2>1
  <1>6. QED BY <1>3, <1>4, <1>5 DEF Next, Exited

CountInv ==
  connected /\ ~OfferMayFail
    => \A s \in Stream : made[s] = offers[s] + Pending(s)

LEMMA CountNext == TypeInv /\ CountInv /\ [Next]_vars => CountInv'
  <1> SUFFICES ASSUME TypeInv, CountInv, [Next]_vars, connected',
                      ~OfferMayFail, NEW t \in Stream
               PROVE  (made[t] = offers[t] + Pending(t))'
    BY DEF CountInv
  <1>1. /\ evq \in [Stream -> Seq(Event)] /\ cb \in [Stream -> Place]
        /\ evq[t] \in Seq(Event)
        /\ made \in [Stream -> Nat] /\ offers \in [Stream -> Nat]
    BY DEF TypeInv, EventType, ThreadType, GhostType
  <1>2. made[t] \in Nat /\ offers[t] \in Nat
        /\ Cardinality(OfferEvents(evq[t])) \in Nat
    BY <1>1, OfferEventsFinite
  <1>3. connected => made[t] = offers[t] + Pending(t)
    BY DEF CountInv
  <1>4. ASSUME \/ evq'[t] = evq[t]
               \/ \E e \in Event \ {"offer"} : evq'[t] = Append(evq[t], e)
        PROVE  Cardinality(OfferEvents(evq'[t]))
                 = Cardinality(OfferEvents(evq[t]))
    <2>1. CASE evq'[t] = evq[t]
      BY <2>1
    <2>2. ASSUME NEW e \in Event \ {"offer"}, evq'[t] = Append(evq[t], e)
          PROVE  Cardinality(OfferEvents(evq'[t]))
                   = Cardinality(OfferEvents(evq[t]))
      <3>1. Cardinality(OfferEvents(Append(evq[t], e)))
              = Cardinality(OfferEvents(evq[t])) + 0
        BY <1>1, <2>2, AppendCounts
      <3>2. QED BY <1>2, <2>2, <3>1
    <2>3. QED BY <1>4, <2>1, <2>2
  \* No request is made, moved or served.
  <1>5. ASSUME connected, made'[t] = made[t], offers'[t] = offers[t],
               cb[t].at # "offer", cb'[t].at # "offer" \/ cb'[t] = cb[t],
               \/ evq'[t] = evq[t]
               \/ \E e \in Event \ {"offer"} : evq'[t] = Append(evq[t], e)
        PROVE  (made[t] = offers[t] + Pending(t))'
    BY <1>2, <1>3, <1>5, <1>4 DEF Pending
  <1>6. ASSUME connected, made'[t] = made[t], offers'[t] = offers[t],
               cb'[t] = cb[t],
               \/ evq'[t] = evq[t]
               \/ \E e \in Event \ {"offer"} : evq'[t] = Append(evq[t], e)
        PROVE  (made[t] = offers[t] + Pending(t))'
    BY <1>2, <1>3, <1>6, <1>4 DEF Pending
  <1>7. ASSUME connected, made'[t] = made[t] + 1, offers'[t] = offers[t],
               evq'[t] = Append(evq[t], "offer"),
               (cb'[t].at = "offer") <=> (cb[t].at = "offer")
        PROVE  (made[t] = offers[t] + Pending(t))'
    <2>1. Cardinality(OfferEvents(evq'[t]))
            = Cardinality(OfferEvents(evq[t])) + 1
      BY <1>1, <1>7, AppendCounts DEF Event
    <2>2. QED BY <1>2, <1>3, <1>7, <2>1 DEF Pending
  <1>8. CASE RecvStep
    <2>1. UNCHANGED <<cb, offers>>
      BY <1>8, RecvLeaves
    <2>2. connected
      BY <1>8 DEF RecvStep, TakeJoined, ScanJoined, CheckActive, Accept,
         Activate, CreateOffers, TakeLeft, ResetReceiver, UnsetActive,
         ForgetIce, ForgetOpen, TakeAnswer, ReceiveClosed, fields
    <2>3. CASE CreateOffers
      <3>1. /\ evq'[t] = Append(evq[t], "offer")
            /\ made'[t] = made[t] + 1
        BY <1>1, <2>3 DEF CreateOffers, OfferedStreams
      <3>2. QED BY <1>7, <2>1, <2>2, <3>1
    <2>4. CASE ~CreateOffers
      <3>1. UNCHANGED <<evq, made>>
        BY <1>8, <2>4 DEF RecvStep, TakeJoined, ScanJoined, CheckActive,
           Accept, Activate, TakeLeft, ResetReceiver, UnsetActive, ForgetIce,
           ForgetOpen, TakeAnswer, ReceiveClosed, threads, ghosts
      <3>2. QED BY <1>6, <2>1, <2>2, <3>1
    <2>5. QED BY <2>3, <2>4
  <1>9. CASE KeepStep \/ UNCHANGED vars
    <2>1. UNCHANGED <<connected, made, offers, cb, evq>>
      BY <1>9, KeepLeaves DEF fields, ghosts, vars, threads
    <2>2. QED BY <1>6, <2>1
  <1>10. CASE Environment
    <2>1. UNCHANGED <<connected, made, offers, cb>>
      BY <1>10, EnvironmentLeaves DEF fields, ghosts
    <2>2. \/ evq'[t] = evq[t]
          \/ \E e \in Event \ {"offer"} : evq'[t] = Append(evq[t], e)
      BY <1>1, <1>10 DEF Environment, Join, Leave, Answer, CloseSignaling,
         IceChange, ChannelOpens, ChannelCloses, threads, Event
    <2>3. QED BY <1>6, <2>1, <2>2
  <1>11. ASSUME NEW s \in Stream, CallbackStep(s)
         PROVE  (made[t] = offers[t] + Pending(t))'
    <2> UNCHANGED connected
      BY <1>11 DEF CallbackStep, StartCallback, NegotiationNeeded, DeferOffer,
         OfferCreated, ReadIceState, TrackIceState, StartScan, ScanDead,
         ReleaseReceiver, DropActive, AddChannel, MarkOpen, UnmarkOpen,
         DeleteChannel, fields
    <2>1. CASE s # t
      <3>1. cb'[t] = cb[t] /\ evq'[t] = evq[t]
        BY <1>11, <2>1, CallbackOthers
      <3>2. \/ UNCHANGED made
            \/ made' = [made EXCEPT ![s] = @ + 1]
        BY <1>11 DEF CallbackStep, StartCallback, NegotiationNeeded,
           DeferOffer, OfferCreated, ReadIceState, TrackIceState, StartScan,
           ScanDead, ReleaseReceiver, DropActive, AddChannel, MarkOpen,
           UnmarkOpen, DeleteChannel, ghosts
      <3>3. \/ UNCHANGED offers
            \/ offers' = [offers EXCEPT ![s] = @ + 1]
        BY <1>11 DEF CallbackStep, StartCallback, NegotiationNeeded,
           DeferOffer, OfferCreated, ReadIceState, TrackIceState, StartScan,
           ScanDead, ReleaseReceiver, DropActive, AddChannel, MarkOpen,
           UnmarkOpen, DeleteChannel, ghosts
      <3>4. made'[t] = made[t] /\ offers'[t] = offers[t]
        BY <1>1, <2>1, <3>2, <3>3
      <3>5. QED BY <1>6, <3>1, <3>4
    <2>2. CASE s = t /\ StartCallback(t)
      <3>1. /\ evq[t] # <<>> /\ evq'[t] = Tail(evq[t])
            /\ cb[t].at = "idle" /\ cb'[t].at = Head(evq[t])
            /\ UNCHANGED <<made, offers>>
        BY <1>1, <2>2, StartsEvent DEF StartCallback, Calling, ghosts
      <3>2. /\ Tail(evq[t]) \in Seq(Event)
            /\ Cardinality(OfferEvents(evq[t]))
                 = Cardinality(OfferEvents(Tail(evq[t])))
                     + (IF Head(evq[t]) = "offer" THEN 1 ELSE 0)
        BY <1>1, <3>1, TailCounts
      <3>3. Cardinality(OfferEvents(Tail(evq[t]))) \in Nat
        BY <3>2, OfferEventsFinite
      <3>4. QED BY <1>2, <1>3, <3>1, <3>2, <3>3 DEF Pending
    <2>3. CASE s = t /\ NegotiationNeeded(t)
      <3>1. cb[t].at = "negotiate" /\ UNCHANGED offers
        BY <2>3 DEF NegotiationNeeded, Calling
      <3>2. CASE hasReceiver
        <4>1. /\ evq'[t] = Append(evq[t], "offer") /\ made'[t] = made[t] + 1
              /\ cb'[t].at = "idle"
          BY <1>1, <2>3, <3>2, GotoAt, StepFields DEF NegotiationNeeded
        <4>2. QED BY <1>7, <3>1, <4>1
      <3>3. CASE ~hasReceiver
        <4>1. cb'[t].at = "defer" /\ UNCHANGED <<evq, made>>
          BY <2>3, <3>3, GotoAt, StepFields DEF NegotiationNeeded
        <4>2. QED BY <1>5, <3>1, <4>1
      <3>4. QED BY <3>2, <3>3
    <2>4. CASE s = t /\ OfferCreated(t)
      <3>1. /\ cb[t].at = "offer" /\ cb'[t].at = "idle"
            /\ UNCHANGED <<evq, made>>
        BY <2>4, GotoAt, StepFields DEF OfferCreated, Calling
      <3>2. offers'[t] = offers[t] + 1
        BY <1>1, <2>4 DEF OfferCreated
      <3>3. QED BY <1>2, <1>3, <3>1, <3>2 DEF Pending
    <2>5. CASE s = t /\ \/ DeferOffer(t) \/ ReadIceState(t) \/ TrackIceState(t)
                        \/ StartScan(t) \/ ScanDead(t) \/ ReleaseReceiver(t)
                        \/ DropActive(t) \/ AddChannel(t) \/ MarkOpen(t)
                        \/ UnmarkOpen(t) \/ DeleteChannel(t)
      <3>1. cb[t].at # "offer" /\ UNCHANGED <<evq, made, offers>>
        BY <2>5 DEF DeferOffer, ReadIceState, TrackIceState, StartScan,
           ScanDead, ReleaseReceiver, DropActive, AddChannel, MarkOpen,
           UnmarkOpen, DeleteChannel, Calling, ghosts
      <3>2. cb'[t].at # "offer"
        <4>1. CASE ScanDead(t)
          BY <4>1, ScanDeadTo
        <4>2. CASE ~ScanDead(t)
          <5>1. \/ cb'[t] = Iterate(None) \/ cb'[t] = AtId("track", iceProp[t])
                \/ \E step \in {"idle", "dead", "drop", "mark", "delete"} :
                     cb'[t] = At(step)
            BY <2>5, <4>2, GotoAt DEF DeferOffer, ReadIceState,
               TrackIceState, StartScan, ReleaseReceiver, DropActive,
               AddChannel, MarkOpen, UnmarkOpen, DeleteChannel
          <5>2. QED BY <5>1, StepFields
        <4>3. QED BY <4>1, <4>2
      <3>3. QED BY <1>5, <3>1, <3>2
    <2>6. QED
      BY <1>11, <2>1, <2>2, <2>3, <2>4, <2>5 DEF CallbackStep
  <1>12. QED BY <1>8, <1>9, <1>10, <1>11 DEF Next, Exited

(* As long as signaling is up and create-offer succeeds, each acceptance   *)
(* is answered with an offer of every stream that is sent, waits on the    *)
(* stream's thread, or is asked for next: none is lost between the two     *)
(* threads, and a receiver that is accepted while the thread of a stream   *)
(* is behind still gets an offer of its own (webrtc_sender.py:159-161,     *)
(* 289-330).                                                               *)
AcceptancesAccounted ==
  connected /\ ~OfferMayFail
    => \A s \in Stream : accepted <= offers[s] + Pending(s) + Accepting

(* AcceptancesAccounted always holds: what AcceptedIsOffered needs of the  *)
(* threads besides that they go on.                                        *)
THEOREM NoAcceptanceLost == Spec => []AcceptancesAccounted
  <1>1. Init => AskInv /\ CountInv
    <2> SUFFICES ASSUME Init, NEW s \in Stream
                 PROVE  /\ accepted <= made[s] + Accepting
                        /\ made[s] = offers[s] + Pending(s)
      BY DEF AskInv, CountInv
    <2>1. /\ accepted = 0 /\ made[s] = 0 /\ offers[s] = 0
          /\ evq[s] = <<"negotiate">> /\ cb[s].at = "idle" /\ recv.at = "wait"
      BY StepFields DEF Init
    <2>2. OfferEvents(evq[s]) = {}
      BY <2>1 DEF OfferEvents
    <2>3. Pending(s) = 0
      BY <2>1, <2>2, FS_EmptySet DEF Pending
    <2>4. QED BY <2>1, <2>3 DEF Accepting
  <1>2. TypeInv /\ AskInv /\ CountInv => AcceptancesAccounted
    <2> SUFFICES ASSUME TypeInv, AskInv, CountInv, connected, ~OfferMayFail,
                        NEW s \in Stream
                 PROVE  accepted <= offers[s] + Pending(s) + Accepting
      BY DEF AcceptancesAccounted
    <2>1. made[s] = offers[s] + Pending(s)
      BY DEF CountInv
    <2>2. QED BY <2>1 DEF AskInv
  <1>3. QED BY <1>1, <1>2, AskNext, CountNext, TypeHolds, PTL DEF Spec

=============================================================================
