------------------------ MODULE BrowserSessionProofs ------------------------
(* Theorems about BrowserSession, for any managers, streams and peer       *)
(* connections and any finite set of sockets.                              *)
EXTENDS BrowserSession, FiniteSetTheorems, TLAPS

USE BrowserAssumption

-----------------------------------------------------------------------------
(* Types.  Where the intervals have a handle, one runs; a socket in use has *)
(* an owner; a timer runs for a socket that is closed, and there is a       *)
(* socket left for every timer; a peer connection in use is for an offer    *)
(* that came in on a socket in use.                                         *)

OwnedInv == \A w \in Socket : sock[w] # Unused => owner[w] \in Manager
SourceInv ==
  \A p \in PC : step[p] # Unused => /\ from[p] \in Socket /\ of[p] \in Stream
                                    /\ sock[from[p]] # Unused
TimerInv == \A w \in retry : sock[w] = "closed"
RoomInv == Cardinality(retry) <= Cardinality(FreeSockets)

Base ==
  /\ TypeOK
  /\ handle => live > 0
  /\ OwnedInv /\ SourceInv /\ TimerInv /\ RoomInv

LEMMA Counted ==
  ASSUME TypeOK
  PROVE  /\ IsFiniteSet(retry) /\ IsFiniteSet(FreeSockets)
         /\ Cardinality(retry) \in Nat /\ Cardinality(FreeSockets) \in Nat
  <1>1. retry \subseteq Socket /\ FreeSockets \subseteq Socket
    BY DEF TypeOK, FreeSockets
  <1>2. IsFiniteSet(retry) /\ IsFiniteSet(FreeSockets)
    BY <1>1, FS_Subset
  <1>3. QED BY <1>2, FS_CardinalityType

LEMMA ConnectUses ==
  ASSUME TypeOK, NEW m \in Manager, FreeSockets # {}, Connect(m)
  PROVE  \E w \in FreeSockets :
           /\ sock' = [x \in Socket |-> IF x = w THEN "connecting"
                                        ELSE IF x = ws[m] THEN HangUp(x)
                                        ELSE sock[x]]
           /\ ws' = [ws EXCEPT ![m] = w]
           /\ owner' = [owner EXCEPT ![w] = m]
           /\ FreeSockets' = FreeSockets \ {w}
  <1>1. PICK w : w = CHOOSE x \in FreeSockets : TRUE
    OBVIOUS
  <1>2. w \in FreeSockets
    BY <1>1
  <1>3. /\ sock' = [x \in Socket |-> IF x = w THEN "connecting"
                                     ELSE IF x = ws[m] THEN HangUp(x)
                                     ELSE sock[x]]
        /\ ws' = [ws EXCEPT ![m] = w]
        /\ owner' = [owner EXCEPT ![w] = m]
    BY <1>1 DEF Connect
  <1>4. \A x \in Socket : x # w => (sock'[x] = Unused <=> sock[x] = Unused)
    BY <1>3 DEF HangUp, Up, Unused
  <1>5. sock'[w] # Unused /\ w \in Socket
    BY <1>2, <1>3 DEF FreeSockets, Unused
  <1>6. FreeSockets' = FreeSockets \ {w}
    BY <1>4, <1>5 DEF FreeSockets
  <1>7. QED BY <1>2, <1>3, <1>6

LEMMA ConnectBase ==
  ASSUME Base, NEW m \in Manager, FreeSockets # {}, Connect(m),
         retry' \subseteq retry, Cardinality(retry') < Cardinality(FreeSockets)
  PROVE  /\ sock' \in [Socket -> {Unused, "connecting", "open", "closing",
                                  "closed"}]
         /\ ws' \in [Manager -> Socket \cup {None}]
         /\ owner' \in [Socket -> Manager \cup {None}]
         /\ pcs' \in [Manager -> [Stream -> PC \cup {None}]]
         /\ shut' \in SUBSET PC
         /\ OwnedInv' /\ SourceInv' /\ TimerInv' /\ RoomInv'
  <1>1. PICK w \in FreeSockets :
           /\ sock' = [x \in Socket |-> IF x = w THEN "connecting"
                                        ELSE IF x = ws[m] THEN HangUp(x)
                                        ELSE sock[x]]
           /\ ws' = [ws EXCEPT ![m] = w]
           /\ owner' = [owner EXCEPT ![w] = m]
           /\ FreeSockets' = FreeSockets \ {w}
    BY ConnectUses DEF Base
  <1>2. w \in Socket /\ sock[w] = Unused
    BY DEF FreeSockets
  <1>3. sock' \in [Socket -> {Unused, "connecting", "open", "closing",
                              "closed"}]
    BY <1>1 DEF Base, TypeOK, HangUp
  <1>4. /\ ws' \in [Manager -> Socket \cup {None}]
        /\ owner' \in [Socket -> Manager \cup {None}]
    BY <1>1, <1>2 DEF Base, TypeOK
  <1>5. /\ pcs' \in [Manager -> [Stream -> PC \cup {None}]]
        /\ shut' \in SUBSET PC
    <2>1. NoPeers \in [Stream -> PC \cup {None}] /\ PeersOf(m) \subseteq PC
      BY DEF NoPeers, PeersOf, Base, TypeOK
    <2>2. QED BY <2>1 DEF Connect, ClosePeers, ToShut, Base, TypeOK
  <1>6. OwnedInv'
    BY <1>1, <1>2 DEF Base, TypeOK, OwnedInv, HangUp, Up, Unused
  <1>7. TimerInv'
    BY <1>1, <1>2 DEF Base, TypeOK, TimerInv, HangUp, Up, Unused
  <1>8. RoomInv'
    <2>1. IsFiniteSet(FreeSockets) /\ IsFiniteSet(retry)
      BY Counted DEF Base
    <2>2. Cardinality(FreeSockets \ {w}) = Cardinality(FreeSockets) - 1
      BY <2>1, FS_RemoveElement
    <2>3. Cardinality(retry') \in Nat /\ Cardinality(FreeSockets) \in Nat
      BY <2>1, FS_Subset, FS_CardinalityType
    <2>4. QED BY <1>1, <2>2, <2>3 DEF RoomInv
  <1>9. SourceInv'
    <2>1. \A x \in Socket : sock[x] # Unused => sock'[x] # Unused
      BY <1>1 DEF HangUp, Up, Unused
    <2>2. UNCHANGED <<step, from, of>>
      BY DEF Connect, ClosePeers
    <2>3. QED BY <2>1, <2>2 DEF Base, SourceInv
  <1>10. QED BY <1>3, <1>4, <1>5, <1>6, <1>7, <1>8, <1>9

LEMMA SameRoom ==
  ASSUME Base, UNCHANGED retry,
         \A w \in Socket : sock'[w] = Unused <=> sock[w] = Unused
  PROVE  RoomInv'
  <1>1. FreeSockets' = FreeSockets
    BY DEF FreeSockets
  <1>2. QED BY <1>1 DEF Base, RoomInv

LEMMA BaseInit == Init => Base
  <1> SUFFICES ASSUME Init PROVE Base
    OBVIOUS
  <1>1. TypeOK
    BY DEF Init, TypeOK, NoPeers, Unused
  <1>2. Cardinality(retry) = 0 /\ Cardinality(FreeSockets) \in Nat
    BY <1>1, Counted, FS_EmptySet DEF Init
  <1>3. RoomInv
    BY <1>2 DEF RoomInv
  <1>4. QED BY <1>1, <1>3 DEF Init, Base, OwnedInv, SourceInv, TimerInv, Unused

LEMMA ClickConnectBase == Base /\ ClickConnect => Base'
  <1> SUFFICES ASSUME Base, ClickConnect PROVE Base'
    OBVIOUS
  <1>1. PICK m : m = CHOOSE x \in FreeManagers : TRUE
    OBVIOUS
  <1>2. m \in Manager
    BY <1>1 DEF ClickConnect, FreeManagers
  <1>3. /\ made' = made \cup {m} /\ current' = m /\ Connect(m) /\ Spare
    BY <1>1 DEF ClickConnect
  <1>4. FreeSockets # {}
    <2>1. Cardinality(retry) \in Nat /\ Cardinality(FreeSockets) \in Nat
      BY Counted DEF Base
    <2>2. Cardinality(FreeSockets) > 0
      BY <1>3, <2>1 DEF Spare
    <2>3. QED BY <2>2, FS_EmptySet
  <1>5. Cardinality(retry') < Cardinality(FreeSockets) /\ retry' = retry
    <2>1. Cardinality(retry) \in Nat /\ Cardinality(FreeSockets) \in Nat
      BY Counted DEF Base
    <2>2. retry' = retry
      BY DEF ClickConnect
    <2>3. QED BY <1>3, <2>1, <2>2 DEF Spare
  <1>6. /\ sock' \in [Socket -> {Unused, "connecting", "open", "closing",
                                 "closed"}]
        /\ ws' \in [Manager -> Socket \cup {None}]
        /\ owner' \in [Socket -> Manager \cup {None}]
        /\ pcs' \in [Manager -> [Stream -> PC \cup {None}]]
        /\ shut' \in SUBSET PC
        /\ OwnedInv' /\ SourceInv' /\ TimerInv' /\ RoomInv'
    BY <1>2, <1>3, <1>4, <1>5, ConnectBase
  <1>7. UNCHANGED <<linked, step, from, of>>
    BY <1>3 DEF Connect, ClosePeers
  <1>8. hasty' \in BOOLEAN
    BY DEF ClickConnect, Base, TypeOK
  <1>9. UNCHANGED <<online, handle, live, shown, retry, quit, answered>>
    BY DEF ClickConnect
  <1>10. TypeOK'
    BY <1>2, <1>3, <1>6, <1>7, <1>8, <1>9 DEF Base, TypeOK
  <1>11. QED BY <1>6, <1>9, <1>10 DEF Base

LEMMA ClickDisconnectBase == Base /\ ClickDisconnect => Base'
  <1> SUFFICES ASSUME Base, ClickDisconnect PROVE Base'
    OBVIOUS
  <1>1. /\ online' = FALSE /\ handle' = FALSE /\ live' \in Nat
        /\ current' = None /\ shown' = [s \in Stream |-> None]
        /\ UNCHANGED <<made, answered, hasty>>
    BY DEF ClickDisconnect, NotifyDown, StopIntervals, Base, TypeOK
  <1>2. CASE current = None
    <2>1. UNCHANGED <<links, peers, quit>>
      BY <1>2 DEF ClickDisconnect
    <2>2. TypeOK'
      BY <1>1, <2>1 DEF Base, TypeOK, links, peers
    <2>3. FreeSockets' = FreeSockets
      BY <2>1 DEF FreeSockets, links
    <2>4. QED
      BY <1>1, <2>1, <2>2, <2>3 DEF Base, OwnedInv, SourceInv, TimerInv,
         RoomInv, links, peers
  <1>3. CASE current # None
    <2>1. current \in Manager
      BY <1>3 DEF Base, TypeOK
    <2>2. /\ sock' = [w \in Socket |-> IF w = ws[current] THEN HangUp(w)
                                       ELSE sock[w]]
          /\ ws' = [ws EXCEPT ![current] = None]
          /\ linked' = linked \ {current} /\ quit' = quit \cup {current}
          /\ ClosePeers(current) /\ UNCHANGED <<retry, owner>>
      BY <1>3 DEF ClickDisconnect
    <2>3. /\ sock' \in [Socket -> {Unused, "connecting", "open", "closing",
                                   "closed"}]
          /\ ws' \in [Manager -> Socket \cup {None}]
          /\ linked' \in SUBSET Manager /\ quit' \in SUBSET Manager
      BY <2>1, <2>2 DEF Base, TypeOK, HangUp
    <2>4. NoPeers \in [Stream -> PC \cup {None}] /\ PeersOf(current) \subseteq PC
      BY <2>1 DEF NoPeers, PeersOf, Base, TypeOK
    <2>5. /\ pcs' \in [Manager -> [Stream -> PC \cup {None}]]
          /\ shut' \in SUBSET PC /\ UNCHANGED <<step, from, of>>
      BY <2>2, <2>4 DEF ClosePeers, ToShut, Base, TypeOK
    <2>6. TypeOK'
      BY <1>1, <2>2, <2>3, <2>5 DEF Base, TypeOK
    <2>7. \A w \in Socket : /\ sock'[w] = Unused <=> sock[w] = Unused
                            /\ sock[w] = "closed" => sock'[w] = "closed"
      BY <2>2 DEF HangUp, Up, Unused
    <2>8. RoomInv'
      BY <2>2, <2>7, SameRoom
    <2>9. OwnedInv' /\ SourceInv' /\ TimerInv'
      BY <2>2, <2>5, <2>7 DEF Base, TypeOK, OwnedInv, SourceInv, TimerInv
    <2>10. QED BY <1>1, <2>6, <2>8, <2>9 DEF Base
  <1>4. QED BY <1>2, <1>3

LEMMA NotifyTyped ==
  ASSUME Base, NotifyUp \/ NotifyDown \/ UNCHANGED <<online, handle, live>>
  PROVE  /\ online' \in BOOLEAN /\ handle' \in BOOLEAN /\ live' \in Nat
         /\ handle' => live' > 0
  <1>1. /\ online \in BOOLEAN /\ handle \in BOOLEAN /\ live \in Nat
        /\ handle => live > 0
    BY DEF Base, TypeOK
  <1>2. CASE NotifyUp
    BY <1>1, <1>2 DEF NotifyUp, StartIntervals
  <1>3. CASE NotifyDown
    <2>1. online' = FALSE /\ handle' = FALSE
      BY <1>3 DEF NotifyDown, StopIntervals
    <2>2. live' = IF handle THEN live - 1 ELSE live
      BY <1>3 DEF NotifyDown, StopIntervals
    <2>3. live' \in Nat
      BY <1>1, <2>2
    <2>4. QED BY <2>1, <2>3
  <1>4. CASE UNCHANGED <<online, handle, live>>
    BY <1>1, <1>4
  <1>5. QED BY <1>2, <1>3, <1>4

LEMMA SocketOpensBase ==
  ASSUME NEW w \in Socket
  PROVE  Base /\ SocketOpens(w) => Base'
  <1> SUFFICES ASSUME Base, SocketOpens(w) PROVE Base'
    OBVIOUS
  <1>1. /\ sock[w] = "connecting" /\ sock' = [sock EXCEPT ![w] = "open"]
        /\ UNCHANGED <<current, shown, made, ws, retry, owner, peers, ghosts>>
    BY DEF SocketOpens
  <1>2. owner[w] \in Manager
    BY <1>1 DEF Base, OwnedInv, Unused
  <1>3. /\ NotifyUp \/ UNCHANGED <<online, handle, live>>
        /\ linked' \in SUBSET Manager
    BY <1>2 DEF SocketOpens, Base, TypeOK
  <1>4. TypeOK'
    BY <1>1, <1>3, NotifyTyped DEF Base, TypeOK, peers, ghosts
  <1>5. \A x \in Socket : sock'[x] = Unused <=> sock[x] = Unused
    BY <1>1 DEF Base, TypeOK, Unused
  <1>6. RoomInv'
    BY <1>1, <1>5, SameRoom
  <1>7. OwnedInv' /\ SourceInv' /\ TimerInv'
    BY <1>1, <1>5 DEF Base, TypeOK, OwnedInv, SourceInv, TimerInv, peers
  <1>8. QED BY <1>3, <1>4, <1>6, <1>7, NotifyTyped DEF Base

LEMMA SocketClosesBase ==
  ASSUME NEW w \in Socket, NEW clean \in BOOLEAN
  PROVE  Base /\ SocketCloses(w, clean) => Base'
  <1> SUFFICES ASSUME Base, SocketCloses(w, clean) PROVE Base'
    OBVIOUS
  <1>1. /\ sock[w] \in {"connecting", "open", "closing"}
        /\ sock' = [sock EXCEPT ![w] = "closed"]
        /\ UNCHANGED <<current, shown, made, ws, owner, peers, ghosts>>
    BY DEF SocketCloses
  <1>2. linked' \in SUBSET Manager
    BY DEF SocketCloses, Unlink, Base, TypeOK
  <1>3. NotifyDown \/ UNCHANGED <<online, handle, live>>
    BY DEF SocketCloses
  <1>4. retry' = retry \/ (Spare /\ retry' = retry \cup {w})
    BY DEF SocketCloses
  <1>5. TypeOK'
    BY <1>1, <1>2, <1>3, <1>4, NotifyTyped DEF Base, TypeOK, peers, ghosts
  <1>6. \A x \in Socket : sock'[x] = Unused <=> sock[x] = Unused
    BY <1>1 DEF Base, TypeOK, Unused
  <1>7. RoomInv'
    <2>1. CASE retry' = retry
      BY <1>6, <2>1, SameRoom
    <2>2. CASE Spare /\ retry' = retry \cup {w}
      <3>1. FreeSockets' = FreeSockets
        BY <1>6 DEF FreeSockets
      <3>2. /\ IsFiniteSet(retry) /\ Cardinality(retry) \in Nat
            /\ Cardinality(FreeSockets) \in Nat
        BY Counted DEF Base
      <3>3. Cardinality(retry') <= Cardinality(retry) + 1
        <4>1. Cardinality(retry \cup {w}) = IF w \in retry
                THEN Cardinality(retry) ELSE Cardinality(retry) + 1
          BY <3>2, FS_AddElement
        <4>2. QED BY <2>2, <3>2, <4>1
      <3>4. IsFiniteSet(retry') /\ Cardinality(retry') \in Nat
        BY <2>2, <3>2, FS_AddElement, FS_CardinalityType
      <3>5. QED BY <2>2, <3>1, <3>2, <3>3, <3>4 DEF Spare, RoomInv
    <2>3. QED BY <1>4, <2>1, <2>2
  <1>8. OwnedInv' /\ SourceInv' /\ TimerInv'
    BY <1>1, <1>4, <1>6 DEF Base, TypeOK, OwnedInv, SourceInv, TimerInv, peers
  <1>9. QED BY <1>3, <1>5, <1>7, <1>8, NotifyTyped DEF Base

LEMMA ReconnectTimerBase ==
  ASSUME NEW w \in Socket
  PROVE  Base /\ ReconnectTimer(w) => Base'
  <1> SUFFICES ASSUME Base, ReconnectTimer(w) PROVE Base'
    OBVIOUS
  <1>1. w \in retry /\ retry' = retry \ {w} /\ UNCHANGED <<app, shown, made, ghosts>>
    BY DEF ReconnectTimer
  <1>2. /\ IsFiniteSet(retry) /\ Cardinality(retry) \in Nat
        /\ Cardinality(FreeSockets) \in Nat
    BY Counted DEF Base
  <1>3. Cardinality(retry') = Cardinality(retry) - 1 /\ Cardinality(retry') \in Nat
    <2>1. IsFiniteSet(retry')
      BY <1>1, <1>2, FS_Subset
    <2>2. Cardinality(retry') \in Nat
      BY <2>1, FS_CardinalityType
    <2>3. QED BY <1>1, <1>2, <2>2, FS_RemoveElement
  <1>4. Cardinality(retry') < Cardinality(FreeSockets)
    BY <1>2, <1>3 DEF Base, RoomInv
  <1>5. CASE StillWanted(w)
    <2>1. Connect(owner[w])
      BY <1>5 DEF ReconnectTimer
    <2>2. FreeSockets # {}
      <3>1. Cardinality(FreeSockets) > 0
        BY <1>2, <1>3, <1>4
      <3>2. QED BY <3>1, FS_EmptySet
    <2>3. sock[w] = "closed" /\ owner[w] \in Manager
      BY <1>1 DEF Base, TimerInv, OwnedInv, Unused
    <2>4. /\ sock' \in [Socket -> {Unused, "connecting", "open", "closing",
                                   "closed"}]
          /\ ws' \in [Manager -> Socket \cup {None}]
          /\ owner' \in [Socket -> Manager \cup {None}]
          /\ pcs' \in [Manager -> [Stream -> PC \cup {None}]]
          /\ shut' \in SUBSET PC
          /\ OwnedInv' /\ SourceInv' /\ TimerInv' /\ RoomInv'
      BY <1>1, <1>4, <2>1, <2>2, <2>3, ConnectBase
    <2>5. UNCHANGED <<linked, step, from, of>>
      BY <2>1 DEF Connect, ClosePeers
    <2>6. TypeOK'
      BY <1>1, <2>4, <2>5 DEF Base, TypeOK, app, ghosts
    <2>7. QED BY <1>1, <2>4, <2>6 DEF Base, app
  <1>6. CASE ~StillWanted(w)
    <2>1. UNCHANGED <<ws, linked, sock, owner, peers>>
      BY <1>6 DEF ReconnectTimer
    <2>2. TypeOK'
      BY <1>1, <2>1 DEF Base, TypeOK, app, ghosts, peers
    <2>3. FreeSockets' = FreeSockets
      BY <2>1 DEF FreeSockets
    <2>4. RoomInv'
      BY <1>2, <1>3, <1>4, <2>3 DEF RoomInv
    <2>5. OwnedInv' /\ SourceInv' /\ TimerInv'
      BY <1>1, <2>1 DEF Base, OwnedInv, SourceInv, TimerInv, peers
    <2>6. QED BY <1>1, <2>2, <2>4, <2>5 DEF Base, app
  <1>7. QED BY <1>5, <1>6

(* An offer takes an unused peer connection.                               *)
Takes(p, w, s) ==
  /\ step[p] = Unused
  /\ shut' = shut \cup Superseded(owner[w], s)
  /\ pcs' = [pcs EXCEPT ![owner[w]][s] = p]
  /\ step' = [step EXCEPT ![p] = "remote"]
  /\ from' = [from EXCEPT ![p] = w]
  /\ of' = [of EXCEPT ![p] = s]

LEMMA OfferTakes ==
  ASSUME NEW w, NEW s, Offer(w, s)
  PROVE  \E p \in PC : Takes(p, w, s)
  <1>1. PICK p : p = CHOOSE x \in FreePCs : TRUE
    OBVIOUS
  <1>2. p \in PC /\ step[p] = Unused
    BY <1>1 DEF Offer, FreePCs
  <1>3. QED BY <1>1, <1>2 DEF Offer, Takes

LEMMA OfferBase ==
  ASSUME NEW w \in Socket, NEW s \in Stream
  PROVE  Base /\ Offer(w, s) => Base'
  <1> SUFFICES ASSUME Base, Offer(w, s) PROVE Base'
    OBVIOUS
  <1>0. PICK p \in PC : Takes(p, w, s)
    BY OfferTakes
  <1>1. /\ step[p] = Unused
        /\ shut' = shut \cup Superseded(owner[w], s)
        /\ pcs' = [pcs EXCEPT ![owner[w]][s] = p]
        /\ step' = [step EXCEPT ![p] = "remote"]
        /\ from' = [from EXCEPT ![p] = w]
        /\ of' = [of EXCEPT ![p] = s]
    BY <1>0 DEF Takes
  <1>2. /\ sock[w] = "open" /\ owner[w] \in Manager
        /\ UNCHANGED <<app, shown, made, links, ghosts>>
    BY DEF Offer, Base, OwnedInv, Unused
  <1>3. Superseded(owner[w], s) \subseteq PC
    BY <1>2 DEF Superseded, Base, TypeOK
  <1>4. TypeOK'
    <2>1. pcs' \in [Manager -> [Stream -> PC \cup {None}]]
      BY <1>1, <1>2 DEF Base, TypeOK
    <2>2. QED
      BY <1>1, <1>2, <1>3, <2>1 DEF Base, TypeOK, app, links, ghosts
  <1>5. FreeSockets' = FreeSockets
    BY <1>2 DEF FreeSockets, links
  <1>6. SourceInv'
    BY <1>1, <1>2 DEF Base, TypeOK, SourceInv, Unused, links
  <1>7. QED
    BY <1>2, <1>4, <1>5, <1>6 DEF Base, OwnedInv, TimerInv, RoomInv, app, links

LEMMA PeerStepLeaves ==
  ASSUME NEW p \in PC, PeerStep(p)
  PROVE  /\ UNCHANGED <<app, made, links, quit, hasty, pcs, shut, from, of>>
         /\ step[p] # Unused
         /\ \E s \in {"answer", "local", "done", "failed"} :
              step' = [step EXCEPT ![p] = s]
  BY DEF PeerStep, RemoteSet, AnswerCreated, LocalSet, OfferFails, Resume,
     Awaiting, Unused, ghosts

LEMMA PeerStepBase ==
  ASSUME NEW p \in PC
  PROVE  Base /\ PeerStep(p) => Base'
  <1> SUFFICES ASSUME Base, PeerStep(p) PROVE Base'
    OBVIOUS
  <1>1. /\ UNCHANGED <<app, made, links, quit, hasty, pcs, shut, from, of>>
        /\ step[p] # Unused
        /\ \E s \in {"answer", "local", "done", "failed"} :
             step' = [step EXCEPT ![p] = s]
    BY PeerStepLeaves
  <1>2. /\ from[p] \in Socket /\ of[p] \in Stream
        /\ ManagerOf(p) \in Manager
    BY <1>1 DEF Base, SourceInv, OwnedInv, ManagerOf
  <1>3. shown' \in [Stream -> PC \cup {None}]
    BY <1>2 DEF PeerStep, RemoteSet, AnswerCreated, LocalSet, OfferFails, Base,
       TypeOK
  <1>4. answered' \in SUBSET (Socket \X PC)
    <2>1. CASE LocalSet(p)
      <3>1. PICK w : w = ws[ManagerOf(p)]
        OBVIOUS
      <3>2. answered' = IF w # None /\ sock[w] = "open"
                        THEN answered \cup {<<w, p>>} ELSE answered
        BY <2>1, <3>1 DEF LocalSet
      <3>3. w \in Socket \cup {None}
        BY <1>2, <3>1 DEF Base, TypeOK
      <3>4. QED BY <3>2, <3>3 DEF Base, TypeOK
    <2>2. CASE ~LocalSet(p)
      BY <2>2 DEF PeerStep, RemoteSet, AnswerCreated, OfferFails, ghosts, Base,
         TypeOK
    <2>3. QED BY <2>1, <2>2
  <1>5. TypeOK'
    <2>1. step' \in [PC -> {Unused, "remote", "answer", "local", "done",
                            "failed"}]
      BY <1>1 DEF Base, TypeOK
    <2>2. QED BY <1>1, <1>3, <1>4, <2>1 DEF Base, TypeOK, app, links
  <1>6. FreeSockets' = FreeSockets
    BY <1>1 DEF FreeSockets, links
  <1>7. SourceInv'
    BY <1>1 DEF Base, TypeOK, SourceInv, links
  <1>8. QED
    BY <1>1, <1>5, <1>6, <1>7 DEF Base, OwnedInv, TimerInv, RoomInv, app, links

LEMMA BaseNext == Base /\ [Next]_vars => Base'
  <1> SUFFICES ASSUME Base, [Next]_vars PROVE Base'
    OBVIOUS
  <1>1. CASE UNCHANGED vars
    <2>1. TypeOK'
      BY <1>1 DEF Base, TypeOK, vars, app, links, peers, ghosts
    <2>2. FreeSockets' = FreeSockets
      BY <1>1 DEF FreeSockets, vars, links
    <2>3. QED
      BY <1>1, <2>1, <2>2 DEF Base, OwnedInv, SourceInv, TimerInv, RoomInv,
         vars, app, links, peers
  <1>2. ASSUME NEW w \in Socket, SocketStep(w) PROVE Base'
    BY <1>2, SocketOpensBase, SocketClosesBase, ReconnectTimerBase, OfferBase
    DEF SocketStep
  <1>3. QED
    BY <1>1, <1>2, ClickConnectBase, ClickDisconnectBase, PeerStepBase DEF Next

LEMMA BaseHolds == Spec => []Base
  BY BaseInit, BaseNext, PTL DEF Spec

(* TypeOK: the page, its managers, sockets and peer connections have their *)
(* types (app.js, webrtc.js).                                              *)
THEOREM BrowserTypeCorrect == Spec => []TypeOK
  <1>1. Base => TypeOK
    BY DEF Base
  <1>2. QED BY <1>1, BaseHolds, PTL

-----------------------------------------------------------------------------
(* Sockets.  The socket of a manager is its own, and is never on its way    *)
(* to being closed: connect and disconnect put another in its place first.  *)

LinkInv ==
  /\ \A m \in Manager : ws[m] # None => /\ owner[ws[m]] = m /\ m \in made
                                        /\ sock[ws[m]] # "closing"
                                        /\ sock[ws[m]] # Unused
  /\ quit \subseteq made
  /\ current # None => current \in made

Linked == SocketInUse /\ QuitStaysDown /\ LinkInv

LEMMA ConnectLinked ==
  ASSUME Base, Linked, NEW m \in Manager, m \notin quit, FreeSockets # {},
         Connect(m), made' = made \cup {m}, quit' = quit,
         current' = current \/ current' = m
  PROVE  Linked'
  <1>1. PICK w \in FreeSockets :
           /\ sock' = [x \in Socket |-> IF x = w THEN "connecting"
                                        ELSE IF x = ws[m] THEN HangUp(x)
                                        ELSE sock[x]]
           /\ ws' = [ws EXCEPT ![m] = w]
           /\ owner' = [owner EXCEPT ![w] = m]
           /\ FreeSockets' = FreeSockets \ {w}
    BY ConnectUses DEF Base
  <1>2. w \in Socket /\ sock[w] = Unused
    BY DEF FreeSockets
  <1>3. /\ ws'[m] = w /\ owner'[w] = m /\ sock'[w] = "connecting"
        /\ \A n \in Manager : n # m => ws'[n] = ws[n]
        /\ \A x \in Socket : x # w => owner'[x] = owner[x]
        /\ \A x \in Socket : x # w /\ x # ws[m] => sock'[x] = sock[x]
        /\ \A x \in Socket : x # w /\ x = ws[m]
             => sock'[x] \notin {"connecting", "open"}
    BY <1>1, <1>2 DEF Base, TypeOK, HangUp, Up
  <1>4. SocketInUse'
    <2> SUFFICES ASSUME NEW x \in Socket, Up(x)' PROVE IsCurrent(x)'
      BY DEF SocketInUse
    <2>1. CASE x = w
      BY <1>3, <2>1 DEF IsCurrent
    <2>2. CASE x # w
      <3>1. x # ws[m]
        BY <1>3, <2>2 DEF Up
      <3>2. Up(x) /\ sock[x] # Unused
        BY <1>3, <2>2, <3>1 DEF Up, Unused
      <3>3. ws[owner[x]] = x /\ owner[x] \in Manager
        BY <3>2 DEF Linked, SocketInUse, IsCurrent, Base, OwnedInv
      <3>4. owner[x] # m
        BY <3>1, <3>3
      <3>5. QED BY <1>3, <2>2, <3>3, <3>4 DEF IsCurrent
    <2>3. QED BY <2>1, <2>2
  <1>5. QuitStaysDown'
    BY <1>3 DEF Linked, QuitStaysDown, Base, TypeOK
  <1>6. LinkInv'
    <2>1. ASSUME NEW n \in Manager, ws'[n] # None
          PROVE  /\ owner'[ws'[n]] = n /\ n \in made'
                 /\ sock'[ws'[n]] # "closing" /\ sock'[ws'[n]] # Unused
      <3>1. CASE n = m
        BY <1>3, <3>1 DEF Unused
      <3>2. CASE n # m
        <4>1. /\ ws'[n] = ws[n] /\ ws[n] \in Socket
              /\ owner[ws[n]] = n /\ n \in made
              /\ sock[ws[n]] # "closing" /\ sock[ws[n]] # Unused
          BY <1>3, <2>1, <3>2 DEF Linked, LinkInv, Base, TypeOK
        <4>2. ws[n] # w
          BY <1>2, <4>1
        <4>3. ws[n] # ws[m]
          BY <3>2, <4>1 DEF Linked, LinkInv, Base, TypeOK
        <4>4. QED BY <1>3, <4>1, <4>2, <4>3
      <3>3. QED BY <3>1, <3>2
    <2>2. quit' \subseteq made' /\ (current' # None => current' \in made')
      BY DEF Linked, LinkInv
    <2>3. QED BY <2>1, <2>2 DEF LinkInv
  <1>7. QED BY <1>4, <1>5, <1>6 DEF Linked

LEMMA LinkedNext == Base /\ Linked /\ [Next]_vars => Linked'
  <1> SUFFICES ASSUME Base, Linked, [Next]_vars PROVE Linked'
    OBVIOUS
  <1>1. CASE UNCHANGED <<sock, ws, owner, made, quit, current>>
    BY <1>1 DEF Linked, SocketInUse, QuitStaysDown, LinkInv, Up, IsCurrent
  <1>2. CASE ClickConnect
    <2>1. PICK m : m = CHOOSE x \in FreeManagers : TRUE
      OBVIOUS
    <2>2. m \in Manager /\ m \notin made
      BY <1>2, <2>1 DEF ClickConnect, FreeManagers
    <2>3. /\ made' = made \cup {m} /\ current' = m /\ Connect(m)
          /\ quit' = quit /\ Spare
      BY <1>2, <2>1 DEF ClickConnect
    <2>4. FreeSockets # {}
      <3>1. Cardinality(retry) \in Nat /\ Cardinality(FreeSockets) \in Nat
        BY Counted DEF Base
      <3>2. Cardinality(FreeSockets) > 0
        BY <2>3, <3>1 DEF Spare
      <3>3. QED BY <3>2, FS_EmptySet
    <2>5. m \notin quit
      BY <2>2 DEF Linked, LinkInv
    <2>6. QED BY <2>2, <2>3, <2>4, <2>5, ConnectLinked
  <1>3. CASE ClickDisconnect /\ current = None
    BY <1>3, <1>1 DEF ClickDisconnect, links
  <1>4. CASE ClickDisconnect /\ current # None
    <2>1. current \in Manager /\ current \in made
      BY <1>4 DEF Linked, LinkInv, Base, TypeOK
    <2>2. /\ sock' = [w \in Socket |-> IF w = ws[current] THEN HangUp(w)
                                       ELSE sock[w]]
          /\ ws' = [ws EXCEPT ![current] = None]
          /\ quit' = quit \cup {current} /\ current' = None
          /\ UNCHANGED <<owner, made>>
      BY <1>4 DEF ClickDisconnect
    <2>3. /\ ws'[current] = None
          /\ \A n \in Manager : n # current => ws'[n] = ws[n]
          /\ \A x \in Socket : x # ws[current] => sock'[x] = sock[x]
          /\ \A x \in Socket : x = ws[current]
               => sock'[x] \notin {"connecting", "open"}
      BY <2>1, <2>2 DEF Base, TypeOK, HangUp, Up
    <2>4. SocketInUse'
      <3> SUFFICES ASSUME NEW x \in Socket, Up(x)' PROVE IsCurrent(x)'
        BY DEF SocketInUse
      <3>1. x # ws[current]
        BY <2>3 DEF Up
      <3>2. Up(x) /\ sock[x] # Unused
        BY <2>3, <3>1 DEF Up, Unused
      <3>3. ws[owner[x]] = x /\ owner[x] \in Manager
        BY <3>2 DEF Linked, SocketInUse, IsCurrent, Base, OwnedInv
      <3>4. owner[x] # current
        BY <3>1, <3>3
      <3>5. QED BY <2>2, <2>3, <3>3, <3>4 DEF IsCurrent
    <2>5. QuitStaysDown'
      BY <2>2, <2>3 DEF Linked, QuitStaysDown, Base, TypeOK
    <2>6. LinkInv'
      <3>1. ASSUME NEW n \in Manager, ws'[n] # None
            PROVE  /\ owner'[ws'[n]] = n /\ n \in made'
                   /\ sock'[ws'[n]] # "closing" /\ sock'[ws'[n]] # Unused
        <4>1. n # current
          BY <2>3, <3>1
        <4>2. /\ ws'[n] = ws[n] /\ ws[n] \in Socket
              /\ owner[ws[n]] = n /\ n \in made
              /\ sock[ws[n]] # "closing" /\ sock[ws[n]] # Unused
          BY <2>3, <3>1, <4>1 DEF Linked, LinkInv, Base, TypeOK
        <4>3. ws[n] # ws[current]
          BY <2>1, <4>1, <4>2 DEF Linked, LinkInv, Base, TypeOK
        <4>4. QED BY <2>2, <2>3, <4>2, <4>3
      <3>2. quit' \subseteq made' /\ current' = None
        BY <2>1, <2>2 DEF Linked, LinkInv
      <3>3. QED BY <3>1, <3>2 DEF LinkInv
    <2>7. QED BY <2>4, <2>5, <2>6 DEF Linked
  <1>5. ASSUME NEW w \in Socket,
               SocketOpens(w) \/ \E clean \in BOOLEAN : SocketCloses(w, clean)
        PROVE  Linked'
    <2>1. /\ \/ sock[w] = "connecting" /\ sock' = [sock EXCEPT ![w] = "open"]
             \/ sock' = [sock EXCEPT ![w] = "closed"]
          /\ UNCHANGED <<ws, owner, made, quit, current>>
      BY <1>5 DEF SocketOpens, SocketCloses, ghosts
    <2>2. SocketInUse'
      BY <2>1 DEF Linked, SocketInUse, IsCurrent, Up, Base, TypeOK
    <2>3. QuitStaysDown'
      BY <2>1 DEF Linked, QuitStaysDown
    <2>4. LinkInv'
      BY <2>1 DEF Linked, LinkInv, Unused, Base, TypeOK
    <2>5. QED BY <2>2, <2>3, <2>4 DEF Linked
  <1>6. ASSUME NEW w \in Socket, ReconnectTimer(w) PROVE Linked'
    <2>1. /\ w \in retry /\ UNCHANGED <<made, quit, current>>
      BY <1>6 DEF ReconnectTimer, app, ghosts
    <2>2. CASE StillWanted(w)
      <3>1. sock[w] = "closed" /\ owner[w] \in Manager
        BY <2>1 DEF Base, TimerInv, OwnedInv, TypeOK, Unused
      <3>2. ws[owner[w]] = w /\ w # None
        BY <2>2 DEF StillWanted, IsCurrent
      <3>3. owner[w] \notin quit /\ owner[w] \in made
        BY <3>1, <3>2 DEF Linked, QuitStaysDown, LinkInv
      <3>4. FreeSockets # {}
        <4>1. /\ IsFiniteSet(retry) /\ Cardinality(retry) \in Nat
              /\ Cardinality(FreeSockets) \in Nat
          BY Counted DEF Base
        <4>2. Cardinality(retry) # 0
          BY <2>1, <4>1, FS_EmptySet
        <4>3. Cardinality(FreeSockets) # 0
          BY <4>1, <4>2 DEF Base, RoomInv
        <4>4. QED BY <4>3, FS_EmptySet
      <3>5. Connect(owner[w]) /\ made' = made \cup {owner[w]}
        BY <1>6, <2>1, <2>2, <3>3 DEF ReconnectTimer
      <3>6. QED BY <2>1, <3>1, <3>3, <3>4, <3>5, ConnectLinked
    <2>3. CASE ~StillWanted(w)
      BY <1>1, <1>6, <2>1, <2>3 DEF ReconnectTimer
    <2>4. QED BY <2>2, <2>3
  <1>7. ASSUME NEW w \in Socket, NEW s \in Stream, Offer(w, s) PROVE Linked'
    BY <1>1, <1>7 DEF Offer, links, app, ghosts
  <1>8. ASSUME NEW p \in PC, PeerStep(p) PROVE Linked'
    BY <1>1, <1>8, PeerStepLeaves DEF links, app
  <1>9. CASE UNCHANGED vars
    BY <1>1, <1>9 DEF vars, links, app, ghosts
  <1>10. QED
    BY <1>2, <1>3, <1>4, <1>5, <1>6, <1>7, <1>8, <1>9 DEF Next, SocketStep

LEMMA LinkedHolds == Spec => []Linked
  <1>1. Init => Linked
    BY DEF Init, Linked, SocketInUse, QuitStaysDown, LinkInv, Up, Unused
  <1>2. QED BY <1>1, BaseHolds, LinkedNext, PTL DEF Spec

(* SocketInUse: no manager has a second live connection, and one that the  *)
(* user disconnected has none (webrtc.js:43-47, 70-89, 106-113).           *)
THEOREM OneSocketEach == Spec => []SocketInUse
  <1>1. Linked => SocketInUse
    BY DEF Linked
  <1>2. QED BY <1>1, LinkedHolds, PTL

(* QuitStaysDown: a timer left over from before a Disconnect does nothing  *)
(* (webrtc.js:82-87, 106-108).                                             *)
THEOREM DisconnectedStaysDown == Spec => []QuitStaysDown
  <1>1. Linked => QuitStaysDown
    BY DEF Linked
  <1>2. QED BY <1>1, LinkedHolds, PTL

-----------------------------------------------------------------------------
(* What a manager believes, and what its timer does.                       *)

(* _connected is true exactly while the socket the manager has is open: it *)
(* is not cleared by connect(), which is reached only where it is false,   *)
(* and no event of a replaced socket sets or clears it (webrtc.js:43-89).  *)
ConnectedIsOpen ==
  \A m \in Manager : m \in linked <=> ws[m] # None /\ sock[ws[m]] = "open"

LEMMA TimerUses ==
  ASSUME Base, NEW w \in retry
  PROVE  /\ w \in Socket /\ sock[w] = "closed" /\ owner[w] \in Manager
         /\ FreeSockets # {} /\ w # None
  <1>1. w \in Socket /\ sock[w] = "closed" /\ owner[w] \in Manager
    BY DEF Base, TimerInv, OwnedInv, TypeOK, Unused
  <1>2. /\ IsFiniteSet(retry) /\ Cardinality(retry) \in Nat
        /\ Cardinality(FreeSockets) \in Nat
    BY Counted DEF Base
  <1>3. Cardinality(retry) # 0
    BY <1>2, FS_EmptySet
  <1>4. Cardinality(FreeSockets) # 0
    BY <1>2, <1>3 DEF Base, RoomInv
  <1>5. QED BY <1>1, <1>4, FS_EmptySet

LEMMA ConnectKeepsOpen ==
  ASSUME Base, Linked, ConnectedIsOpen, NEW m \in Manager, m \notin linked,
         FreeSockets # {}, Connect(m)
  PROVE  ConnectedIsOpen'
  <1>1. PICK w \in FreeSockets :
           /\ sock' = [x \in Socket |-> IF x = w THEN "connecting"
                                        ELSE IF x = ws[m] THEN HangUp(x)
                                        ELSE sock[x]]
           /\ ws' = [ws EXCEPT ![m] = w]
           /\ owner' = [owner EXCEPT ![w] = m]
           /\ FreeSockets' = FreeSockets \ {w}
    BY ConnectUses DEF Base
  <1>2. w \in Socket /\ sock[w] = Unused /\ linked' = linked
    BY DEF FreeSockets, Connect
  <1>3. SUFFICES ASSUME NEW n \in Manager
                 PROVE  (n \in linked <=> ws[n] # None /\ sock[ws[n]] = "open")'
    BY DEF ConnectedIsOpen
  <1>4. CASE n = m
    <2>1. ws'[n] = w /\ sock'[w] = "connecting"
      BY <1>1, <1>2, <1>4 DEF Base, TypeOK
    <2>2. QED BY <1>2, <1>4, <2>1
  <1>5. CASE n # m
    <2>1. ws'[n] = ws[n]
      BY <1>1, <1>5 DEF Base, TypeOK
    <2>2. CASE ws[n] = None
      BY <1>2, <2>1, <2>2 DEF ConnectedIsOpen
    <2>3. CASE ws[n] # None
      <3>1. /\ ws[n] \in Socket /\ owner[ws[n]] = n /\ sock[ws[n]] # Unused
            /\ ws[m] # None => owner[ws[m]] = m
        BY <2>3 DEF Linked, LinkInv, Base, TypeOK
      <3>2. ws[n] # w /\ ws[n] # ws[m]
        BY <1>2, <1>5, <2>3, <3>1
      <3>3. sock'[ws[n]] = sock[ws[n]]
        BY <1>1, <3>1, <3>2
      <3>4. QED BY <1>2, <2>1, <3>3 DEF ConnectedIsOpen
    <2>4. QED BY <2>2, <2>3
  <1>6. QED BY <1>4, <1>5

LEMMA OpenNext ==
  Base /\ Linked /\ ConnectedIsOpen /\ [Next]_vars => ConnectedIsOpen'
  <1> SUFFICES ASSUME Base, Linked, ConnectedIsOpen, [Next]_vars
               PROVE  ConnectedIsOpen'
    OBVIOUS
  <1>1. CASE UNCHANGED <<sock, ws, linked>>
    BY <1>1 DEF ConnectedIsOpen
  <1>2. CASE ClickConnect
    <2>1. PICK m : m = CHOOSE x \in FreeManagers : TRUE
      OBVIOUS
    <2>2. m \in Manager /\ m \notin made
      BY <1>2, <2>1 DEF ClickConnect, FreeManagers
    <2>3. Connect(m) /\ Spare
      BY <1>2, <2>1 DEF ClickConnect
    <2>4. FreeSockets # {}
      <3>1. Cardinality(retry) \in Nat /\ Cardinality(FreeSockets) \in Nat
        BY Counted DEF Base
      <3>2. Cardinality(FreeSockets) > 0
        BY <2>3, <3>1 DEF Spare
      <3>3. QED BY <3>2, FS_EmptySet
    <2>5. m \notin linked
      BY <2>2 DEF ConnectedIsOpen, Linked, LinkInv
    <2>6. QED BY <2>2, <2>3, <2>4, <2>5, ConnectKeepsOpen
  <1>3. CASE ClickDisconnect /\ current = None
    BY <1>1, <1>3 DEF ClickDisconnect, links
  <1>4. CASE ClickDisconnect /\ current # None
    <2>1. current \in Manager
      BY <1>4 DEF Base, TypeOK
    <2>2. /\ sock' = [w \in Socket |-> IF w = ws[current] THEN HangUp(w)
                                       ELSE sock[w]]
          /\ ws' = [ws EXCEPT ![current] = None]
          /\ linked' = linked \ {current}
      BY <1>4 DEF ClickDisconnect
    <2>3. SUFFICES ASSUME NEW n \in Manager
                   PROVE  (n \in linked
                             <=> ws[n] # None /\ sock[ws[n]] = "open")'
      BY DEF ConnectedIsOpen
    <2>4. CASE n = current
      BY <2>1, <2>2, <2>4 DEF Base, TypeOK
    <2>5. CASE n # current
      <3>1. ws'[n] = ws[n] /\ (n \in linked' <=> n \in linked)
        BY <2>1, <2>2, <2>5 DEF Base, TypeOK
      <3>2. ws[n] # None => sock'[ws[n]] = sock[ws[n]]
        BY <2>1, <2>2, <2>5 DEF Linked, LinkInv, Base, TypeOK
      <3>3. QED BY <3>1, <3>2 DEF ConnectedIsOpen
    <2>6. QED BY <2>4, <2>5
  <1>5. ASSUME NEW w \in Socket, SocketOpens(w) PROVE ConnectedIsOpen'
    <2>1. /\ sock[w] = "connecting" /\ sock' = [sock EXCEPT ![w] = "open"]
          /\ UNCHANGED ws
          /\ linked' = IF IsCurrent(w) THEN linked \cup {owner[w]} ELSE linked
      BY <1>5 DEF SocketOpens
    <2>2. owner[w] \in Manager
      BY <2>1 DEF Base, OwnedInv, Unused
    <2>3. SUFFICES ASSUME NEW n \in Manager
                   PROVE  (n \in linked
                             <=> ws[n] # None /\ sock[ws[n]] = "open")'
      BY DEF ConnectedIsOpen
    <2>4. CASE ws[n] = w
      <3>1. owner[w] = n /\ w # None /\ IsCurrent(w)
        BY <2>4 DEF IsCurrent, Linked, LinkInv
      <3>2. QED BY <2>1, <2>4, <3>1 DEF Base, TypeOK
    <2>5. CASE ws[n] # w
      <3>1. n \in linked' <=> n \in linked
        BY <2>1, <2>5 DEF IsCurrent
      <3>2. ws[n] # None => sock'[ws[n]] = sock[ws[n]]
        BY <2>1, <2>5 DEF Base, TypeOK
      <3>3. QED BY <2>1, <3>1, <3>2 DEF ConnectedIsOpen
    <2>6. QED BY <2>4, <2>5
  <1>6. ASSUME NEW w \in Socket, NEW clean \in BOOLEAN,
               SocketCloses(w, clean)
        PROVE  ConnectedIsOpen'
    <2>1. /\ sock' = [sock EXCEPT ![w] = "closed"] /\ UNCHANGED ws
          /\ linked' = IF Ignored(w) THEN linked ELSE linked \ {owner[w]}
      BY <1>6 DEF SocketCloses, Unlink
    <2>2. SUFFICES ASSUME NEW n \in Manager
                   PROVE  (n \in linked
                             <=> ws[n] # None /\ sock[ws[n]] = "open")'
      BY DEF ConnectedIsOpen
    <2>3. CASE ws[n] = w
      <3>1. owner[w] = n /\ w # None /\ ~Ignored(w)
        BY <2>3 DEF IsCurrent, Ignored, Linked, LinkInv
      <3>2. QED BY <2>1, <2>3, <3>1 DEF Base, TypeOK
    <2>4. CASE ws[n] # w
      <3>1. n \in linked' <=> n \in linked
        BY <2>1, <2>4 DEF IsCurrent, Ignored
      <3>2. ws[n] # None => sock'[ws[n]] = sock[ws[n]]
        BY <2>1, <2>4 DEF Base, TypeOK
      <3>3. QED BY <2>1, <3>1, <3>2 DEF ConnectedIsOpen
    <2>5. QED BY <2>3, <2>4
  <1>7. ASSUME NEW w \in Socket, ReconnectTimer(w) PROVE ConnectedIsOpen'
    <2>1. CASE StillWanted(w)
      <3>1. w \in retry /\ Connect(owner[w]) /\ owner[w] \notin linked
        BY <1>7, <2>1 DEF ReconnectTimer, StillWanted
      <3>2. owner[w] \in Manager /\ FreeSockets # {}
        BY <3>1, TimerUses
      <3>3. QED BY <3>1, <3>2, ConnectKeepsOpen
    <2>2. CASE ~StillWanted(w)
      BY <1>1, <1>7, <2>2 DEF ReconnectTimer
    <2>3. QED BY <2>1, <2>2
  <1>8. ASSUME NEW w \in Socket, NEW s \in Stream, Offer(w, s)
        PROVE  ConnectedIsOpen'
    BY <1>1, <1>8 DEF Offer, links
  <1>9. ASSUME NEW p \in PC, PeerStep(p) PROVE ConnectedIsOpen'
    BY <1>1, <1>9, PeerStepLeaves DEF links
  <1>10. CASE UNCHANGED vars
    BY <1>1, <1>10 DEF vars, links
  <1>11. QED
    BY <1>2, <1>3, <1>4, <1>5, <1>6, <1>7, <1>8, <1>9, <1>10
    DEF Next, SocketStep

(* ConnectedIsOpen always holds (webrtc.js:43-89, 106-121).                *)
THEOREM ConnectedFollowsSocket == Spec => []ConnectedIsOpen
  <1>1. Init => ConnectedIsOpen
    BY DEF Init, ConnectedIsOpen
  <1>2. QED BY <1>1, OpenNext, BaseHolds, LinkedHolds, PTL DEF Spec

(* A timer that fires leaves no manager with the socket it was set for:    *)
(* either another one has taken its place or the user disconnected         *)
(* meanwhile, or the timer makes a new attempt itself.  It never gives up  *)
(* on a lost connection because _connected is still set (webrtc.js:80-89). *)
TimerReplaces ==
  [][\A w \in retry \ retry' : \A m \in Manager : ws'[m] # w]_vars

(* TimerReplaces holds of every step: what LossIsRetried needs besides a   *)
(* timer that fires.                                                       *)
THEOREM TimersReplace == Spec => TimerReplaces
  <1>1. ASSUME Base, Linked, ConnectedIsOpen, [Next]_vars,
               NEW w \in retry \ retry', NEW m \in Manager
        PROVE  ws'[m] # w
    <2>1. ReconnectTimer(w)
      <3>1. ASSUME NEW x \in Socket, ReconnectTimer(x) PROVE x = w
        BY <1>1, <3>1 DEF ReconnectTimer
      <3>2. ASSUME NEW x \in Socket, NEW clean \in BOOLEAN,
                   SocketCloses(x, clean)
            PROVE  retry \subseteq retry'
        BY <3>2 DEF SocketCloses
      <3>3. ASSUME NEW p \in PC, PeerStep(p) PROVE retry' = retry
        BY <3>3, PeerStepLeaves DEF links
      <3>4. ASSUME NEW x \in Socket,
                   SocketOpens(x) \/ \E s \in Stream : Offer(x, s)
            PROVE  retry' = retry
        BY <3>4 DEF SocketOpens, Offer, links
      <3>5. ASSUME ClickConnect \/ ClickDisconnect \/ UNCHANGED vars
            PROVE  retry' = retry
        BY <3>5 DEF ClickConnect, ClickDisconnect, vars, links
      <3>6. QED
        BY <1>1, <3>1, <3>2, <3>3, <3>4, <3>5 DEF Next, SocketStep
    <2>2. /\ w \in Socket /\ sock[w] = "closed" /\ owner[w] \in Manager
          /\ FreeSockets # {} /\ w # None
      BY <1>1, TimerUses
    <2>3. ws[m] = w => m = owner[w] /\ IsCurrent(w)
      BY <1>1, <2>2 DEF Linked, LinkInv, IsCurrent
    <2>4. CASE StillWanted(w)
      <3>1. PICK x \in FreeSockets : ws' = [ws EXCEPT ![owner[w]] = x]
        BY <1>1, <2>1, <2>2, <2>4, ConnectUses DEF ReconnectTimer, Base
      <3>2. x # w
        BY <2>2 DEF FreeSockets, Unused
      <3>3. QED BY <1>1, <2>2, <2>3, <3>1, <3>2 DEF Base, TypeOK
    <2>5. CASE ~StillWanted(w)
      <3>1. UNCHANGED ws
        BY <2>1, <2>5 DEF ReconnectTimer
      <3>2. ws[m] = w => owner[w] \in linked
        BY <2>3, <2>5 DEF StillWanted
      <3>3. owner[w] \in linked => sock[ws[owner[w]]] = "open"
        BY <1>1, <2>2 DEF ConnectedIsOpen
      <3>4. QED BY <2>2, <2>3, <3>1, <3>2, <3>3
    <2>6. QED BY <2>4, <2>5
  <1>2. Base /\ Linked /\ ConnectedIsOpen /\ [Next]_vars
          => [\A w \in retry \ retry' : \A m \in Manager : ws'[m] # w]_vars
    BY <1>1
  <1>3. QED
    BY <1>2, BaseHolds, LinkedHolds, ConnectedFollowsSocket, PTL
    DEF Spec, TimerReplaces

-----------------------------------------------------------------------------
(* Peer connections.  One that is not closed is in the table of its manager *)
(* and came in on the socket that manager still has.                        *)

OpenPeersInv ==
  \A p \in PC : step[p] # Unused /\ p \notin shut
                  => /\ pcs[ManagerOf(p)][of[p]] = p
                     /\ ws[ManagerOf(p)] = from[p]

AnswersInv ==
  \A sent \in answered : step[sent[2]] # Unused /\ sent[1] = from[sent[2]]

Peered == OpenPeersInv /\ AnswersInv /\ NoCardAfterDisconnect

(* What happens to the peer connections of a manager that gets another     *)
(* socket, or none.                                                        *)
LEMMA PeersClosed ==
  ASSUME Base, OpenPeersInv, NEW m \in Manager, ClosePeers(m),
         \A n \in Manager : n # m => ws'[n] = ws[n],
         \A x \in Socket : sock[x] # Unused => owner'[x] = owner[x]
  PROVE  OpenPeersInv'
  <1> SUFFICES ASSUME NEW p \in PC, step'[p] # Unused, p \notin shut'
               PROVE  pcs'[ManagerOf(p)'][of'[p]] = p
                        /\ ws'[ManagerOf(p)'] = from'[p]
    BY DEF OpenPeersInv
  <1>1. UNCHANGED <<step, from, of>> /\ p \notin shut /\ p \notin PeersOf(m)
    BY DEF ClosePeers, ToShut
  <1>2. /\ pcs[ManagerOf(p)][of[p]] = p /\ ws[ManagerOf(p)] = from[p]
        /\ from[p] \in Socket /\ of[p] \in Stream /\ sock[from[p]] # Unused
        /\ ManagerOf(p) \in Manager
    BY <1>1 DEF OpenPeersInv, Base, SourceInv, OwnedInv, ManagerOf
  <1>3. ManagerOf(p)' = ManagerOf(p)
    BY <1>1, <1>2 DEF ManagerOf
  <1>4. ManagerOf(p) # m
    BY <1>1, <1>2 DEF PeersOf
  <1>5. pcs'[ManagerOf(p)] = pcs[ManagerOf(p)]
    BY <1>2, <1>4 DEF ClosePeers, Base, TypeOK
  <1>6. QED BY <1>1, <1>2, <1>3, <1>4, <1>5

LEMMA ConnectPeers ==
  ASSUME Base, OpenPeersInv, NEW m \in Manager, FreeSockets # {}, Connect(m)
  PROVE  OpenPeersInv' /\ UNCHANGED <<step, from, of>>
  <1>1. PICK w \in FreeSockets :
           /\ sock' = [x \in Socket |-> IF x = w THEN "connecting"
                                        ELSE IF x = ws[m] THEN HangUp(x)
                                        ELSE sock[x]]
           /\ ws' = [ws EXCEPT ![m] = w]
           /\ owner' = [owner EXCEPT ![w] = m]
           /\ FreeSockets' = FreeSockets \ {w}
    BY ConnectUses DEF Base
  <1>2. sock[w] = Unused
    BY DEF FreeSockets
  <1>3. \A n \in Manager : n # m => ws'[n] = ws[n]
    BY <1>1 DEF Base, TypeOK
  <1>4. \A x \in Socket : sock[x] # Unused => owner'[x] = owner[x]
    BY <1>1, <1>2 DEF Base, TypeOK
  <1>5. ClosePeers(m)
    BY DEF Connect
  <1>6. QED BY <1>3, <1>4, <1>5, PeersClosed DEF ClosePeers

LEMMA AnswersKept ==
  ASSUME Base, AnswersInv, UNCHANGED answered,
         \A p \in PC : step[p] # Unused => step'[p] # Unused /\ from'[p] = from[p]
  PROVE  AnswersInv'
  <1>1. \A sent \in answered : sent[2] \in PC
    BY DEF Base, TypeOK
  <1>2. QED BY <1>1 DEF AnswersInv

LEMMA RoomLeft ==
  ASSUME Base, Spare \/ retry # {}
  PROVE  FreeSockets # {}
  <1>1. /\ IsFiniteSet(retry) /\ Cardinality(retry) \in Nat
        /\ Cardinality(FreeSockets) \in Nat
    BY Counted DEF Base
  <1>2. Cardinality(FreeSockets) # 0
    <2>1. CASE Spare
      BY <1>1, <2>1 DEF Spare
    <2>2. CASE retry # {}
      <3>1. Cardinality(retry) # 0
        BY <1>1, <2>2, FS_EmptySet
      <3>2. QED BY <1>1, <3>1 DEF Base, RoomInv
    <2>3. QED BY <2>1, <2>2
  <1>3. QED BY <1>2, FS_EmptySet

LEMMA PeeredNext == Base /\ Linked /\ Peered /\ [Next]_vars => Peered'
  <1> SUFFICES ASSUME Base, Linked, Peered, [Next]_vars PROVE Peered'
    OBVIOUS
  <1>1. CASE UNCHANGED <<peers, ws, owner, answered, shown, current, made, quit>>
    <2>1. OpenPeersInv'
      BY <1>1 DEF Peered, OpenPeersInv, ManagerOf, peers
    <2>2. AnswersInv'
      BY <1>1 DEF Peered, AnswersInv, peers
    <2>3. NoCardAfterDisconnect'
      BY <1>1 DEF Peered, NoCardAfterDisconnect
    <2>4. QED BY <2>1, <2>2, <2>3 DEF Peered
  <1>2. CASE ClickConnect
    <2>1. PICK m : m = CHOOSE x \in FreeManagers : TRUE
      OBVIOUS
    <2>2. m \in Manager
      BY <1>2, <2>1 DEF ClickConnect, FreeManagers
    <2>3. current' = m /\ Connect(m) /\ Spare /\ UNCHANGED answered
      BY <1>2, <2>1 DEF ClickConnect
    <2>4. OpenPeersInv' /\ UNCHANGED <<step, from, of>>
      BY <2>2, <2>3, ConnectPeers, RoomLeft DEF Peered
    <2>5. AnswersInv'
      BY <2>3, <2>4, AnswersKept DEF Peered
    <2>6. NoCardAfterDisconnect'
      BY <2>2, <2>3 DEF NoCardAfterDisconnect
    <2>7. QED BY <2>4, <2>5, <2>6 DEF Peered
  <1>3. CASE ClickDisconnect
    <2>1. /\ shown' = [s \in Stream |-> None]
          /\ UNCHANGED answered
      BY <1>3 DEF ClickDisconnect
    <2>2. NoCardAfterDisconnect'
      BY <2>1 DEF NoCardAfterDisconnect
    <2>3. OpenPeersInv' /\ UNCHANGED <<step, from>>
      <3>1. CASE current = None
        <4>1. UNCHANGED <<links, peers>>
          BY <1>3, <3>1 DEF ClickDisconnect
        <4>2. QED
          BY <4>1 DEF Peered, OpenPeersInv, ManagerOf, links, peers
      <3>2. CASE current # None
        <4>1. current \in Manager
          BY <3>2 DEF Base, TypeOK
        <4>2. /\ ws' = [ws EXCEPT ![current] = None] /\ UNCHANGED owner
              /\ ClosePeers(current)
          BY <1>3, <3>2 DEF ClickDisconnect
        <4>3. \A n \in Manager : n # current => ws'[n] = ws[n]
          BY <4>2 DEF Base, TypeOK
        <4>4. UNCHANGED <<step, from>>
          BY <4>2 DEF ClosePeers
        <4>5. OpenPeersInv'
          BY <4>1, <4>2, <4>3, PeersClosed DEF Peered
        <4>6. QED BY <4>4, <4>5
      <3>3. QED BY <3>1, <3>2
    <2>4. AnswersInv'
      BY <2>1, <2>3, AnswersKept DEF Peered
    <2>5. QED BY <2>2, <2>3, <2>4 DEF Peered
  <1>4. ASSUME NEW w \in Socket,
               SocketOpens(w) \/ \E clean \in BOOLEAN : SocketCloses(w, clean)
        PROVE  Peered'
    BY <1>1, <1>4 DEF SocketOpens, SocketCloses, ghosts
  <1>5. ASSUME NEW w \in Socket, ReconnectTimer(w) PROVE Peered'
    <2>1. w \in retry /\ UNCHANGED <<app, shown, made, ghosts>>
      BY <1>5 DEF ReconnectTimer
    <2>2. CASE StillWanted(w)
      <3>1. owner[w] \in Manager
        BY <2>1 DEF Base, TimerInv, OwnedInv, TypeOK, Unused
      <3>2. Connect(owner[w]) /\ FreeSockets # {}
        BY <1>5, <2>1, <2>2, RoomLeft DEF ReconnectTimer
      <3>3. OpenPeersInv' /\ UNCHANGED <<step, from, of>>
        BY <3>1, <3>2, ConnectPeers DEF Peered
      <3>4. AnswersInv'
        BY <2>1, <3>3, AnswersKept DEF Peered, ghosts
      <3>5. NoCardAfterDisconnect'
        BY <2>1 DEF Peered, NoCardAfterDisconnect, app, ghosts
      <3>6. QED BY <3>3, <3>4, <3>5 DEF Peered
    <2>3. CASE ~StillWanted(w)
      BY <1>1, <1>5, <2>1, <2>3 DEF ReconnectTimer, app, ghosts
    <2>4. QED BY <2>2, <2>3
  <1>6. ASSUME NEW w \in Socket, NEW s \in Stream, Offer(w, s) PROVE Peered'
    <2>1. PICK p \in PC : Takes(p, w, s)
      BY <1>6, OfferTakes
    <2>2. /\ step[p] = Unused
          /\ shut' = shut \cup Superseded(owner[w], s)
          /\ pcs' = [pcs EXCEPT ![owner[w]][s] = p]
          /\ step' = [step EXCEPT ![p] = "remote"]
          /\ from' = [from EXCEPT ![p] = w]
          /\ of' = [of EXCEPT ![p] = s]
      BY <2>1 DEF Takes
    <2>3. /\ sock[w] = "open" /\ ws[owner[w]] = w
          /\ UNCHANGED <<app, shown, made, links, ghosts>>
      BY <1>6 DEF Offer, IsCurrent
    <2>4. owner[w] \in Manager
      BY <2>3 DEF Base, OwnedInv, Unused
    <2>5. OpenPeersInv'
      <3> SUFFICES ASSUME NEW q \in PC, step'[q] # Unused, q \notin shut'
                   PROVE  pcs'[ManagerOf(q)'][of'[q]] = q
                            /\ ws'[ManagerOf(q)'] = from'[q]
        BY DEF OpenPeersInv
      <3>1. CASE q = p
        <4>1. from'[q] = w /\ of'[q] = s /\ ManagerOf(q)' = owner[w]
          BY <2>2, <2>3, <3>1 DEF ManagerOf, links, Base, TypeOK
        <4>2. pcs'[owner[w]][s] = p
          BY <2>2, <2>4 DEF Base, TypeOK
        <4>3. QED BY <2>3, <3>1, <4>1, <4>2 DEF links
      <3>2. CASE q # p
        <4>1. step[q] # Unused /\ q \notin shut
          BY <2>2, <3>2 DEF Base, TypeOK
        <4>2. /\ pcs[ManagerOf(q)][of[q]] = q /\ ws[ManagerOf(q)] = from[q]
              /\ from[q] \in Socket /\ of[q] \in Stream
              /\ ManagerOf(q) \in Manager
          BY <4>1 DEF Peered, OpenPeersInv, Base, SourceInv, OwnedInv, ManagerOf
        <4>3. /\ from'[q] = from[q] /\ of'[q] = of[q]
              /\ ManagerOf(q)' = ManagerOf(q)
          BY <2>2, <2>3, <3>2 DEF ManagerOf, links, Base, TypeOK
        <4>4. ~(ManagerOf(q) = owner[w] /\ of[q] = s)
          BY <2>2, <4>2 DEF Superseded
        <4>5. pcs'[ManagerOf(q)][of[q]] = pcs[ManagerOf(q)][of[q]]
          BY <2>2, <2>4, <4>2, <4>4 DEF Base, TypeOK
        <4>6. QED BY <2>3, <4>2, <4>3, <4>5 DEF links
      <3>3. QED BY <3>1, <3>2
    <2>6. \A q \in PC : step[q] # Unused => step'[q] # Unused /\ from'[q] = from[q]
      BY <2>2 DEF Base, TypeOK, Unused
    <2>7. AnswersInv'
      BY <2>3, <2>6, AnswersKept DEF Peered, ghosts
    <2>8. NoCardAfterDisconnect'
      BY <2>3 DEF Peered, NoCardAfterDisconnect, app, ghosts
    <2>9. QED BY <2>5, <2>7, <2>8 DEF Peered
  <1>7. ASSUME NEW p \in PC, PeerStep(p) PROVE Peered'
    <2>1. /\ UNCHANGED <<app, made, links, quit, hasty, pcs, shut, from, of>>
          /\ step[p] # Unused
          /\ \E s \in {"answer", "local", "done", "failed"} :
               step' = [step EXCEPT ![p] = s]
      BY <1>7, PeerStepLeaves
    <2>2. p \notin shut
      BY <1>7 DEF PeerStep, RemoteSet, AnswerCreated, LocalSet, OfferFails,
         Awaiting
    <2>3. /\ ws[ManagerOf(p)] = from[p] /\ ManagerOf(p) \in Manager
          /\ from[p] \in Socket
      BY <2>1, <2>2 DEF Peered, OpenPeersInv, Base, SourceInv, OwnedInv,
         ManagerOf
    <2>4. \A q \in PC : /\ step'[q] # Unused => step[q] # Unused
                        /\ step[q] # Unused => step'[q] # Unused
      BY <2>1 DEF Base, TypeOK, Unused
    <2>5. OpenPeersInv'
      BY <2>1, <2>4 DEF Peered, OpenPeersInv, ManagerOf, links
    <2>6. AnswersInv'
      <3>1. answered' \subseteq answered \cup {<<from[p], p>>}
        BY <1>7, <2>3 DEF PeerStep, RemoteSet, AnswerCreated, LocalSet,
           OfferFails, ghosts
      <3>2. \A sent \in answered : sent[2] \in PC
        BY DEF Base, TypeOK
      <3>3. step'[p] # Unused
        BY <2>1, <2>4
      <3>4. QED BY <2>1, <2>4, <3>1, <3>2, <3>3 DEF Peered, AnswersInv
    <2>7. NoCardAfterDisconnect'
      <3>1. CASE made = quit
        <4>1. ManagerOf(p) \in made
          BY <2>3 DEF Linked, LinkInv
        <4>2. ws[ManagerOf(p)] = None
          BY <3>1, <4>1, <2>3 DEF Linked, QuitStaysDown
        <4>3. QED BY <2>3, <4>2
      <3>2. CASE made # quit
        BY <2>1, <3>2 DEF NoCardAfterDisconnect
      <3>3. QED BY <3>1, <3>2
    <2>8. QED BY <2>5, <2>6, <2>7 DEF Peered
  <1>8. CASE UNCHANGED vars
    BY <1>1, <1>8 DEF vars, links, app, ghosts
  <1>9. QED
    BY <1>2, <1>3, <1>4, <1>5, <1>6, <1>7, <1>8 DEF Next, SocketStep

LEMMA PeeredHolds == Spec => []Peered
  <1>1. Init => Peered
    BY DEF Init, Peered, OpenPeersInv, AnswersInv, NoCardAfterDisconnect
  <1>2. QED BY <1>1, BaseHolds, LinkedHolds, PeeredNext, PTL DEF Spec

(* NoLeakedPeer: neither a new offer, nor a reconnect, nor a disconnect     *)
(* leaves a peer connection open (webrtc.js:49-53, 115-119, 177-185).       *)
THEOREM NoPeerLeaks == Spec => []NoLeakedPeer
  <1>1. Peered => NoLeakedPeer
    BY DEF Peered, OpenPeersInv, NoLeakedPeer
  <1>2. QED BY <1>1, PeeredHolds, PTL

(* AnswerGoesBack: an answer goes out on the connection its offer came in   *)
(* on, three awaits later (webrtc.js:187-204).                              *)
THEOREM AnswersGoBack == Spec => []AnswerGoesBack
  <1>1. Peered => AnswerGoesBack
    BY DEF Peered, AnswersInv, AnswerGoesBack
  <1>2. QED BY <1>1, PeeredHolds, PTL

(* NoCardAfterDisconnect: once every manager made was disconnected, no      *)
(* handler under way brings a card back (app.js:108-117, webrtc.js:115-121).*)
THEOREM CardsStayGone == Spec => []NoCardAfterDisconnect
  <1>1. Peered => NoCardAfterDisconnect
    BY DEF Peered
  <1>2. QED BY <1>1, PeeredHolds, PTL

-----------------------------------------------------------------------------
(* The page.  While the user is not hasty only the current manager has a    *)
(* socket that is not closed, or a timer that will do anything.             *)

PageInv ==
  ~hasty =>
    /\ PageIsTrue
    /\ handle = online
    /\ \A m \in Manager : m # current /\ ws[m] # None
                            => sock[ws[m]] = "closed" /\ ws[m] \notin retry

(* Where a socket of the current manager goes from one state to another.   *)
LEMMA OnlyCurrent ==
  ASSUME Base, Linked, PageInv, ~hasty, NEW w \in Socket, IsCurrent(w),
         sock[w] # Unused, sock[w] # "closed" \/ w \in retry
  PROVE  current \in Manager /\ owner[w] = current /\ ws[current] = w
  <1>1. owner[w] \in Manager /\ ws[owner[w]] = w /\ w # None
    BY DEF Base, OwnedInv, IsCurrent
  <1>2. owner[w] = current
    BY <1>1 DEF PageInv
  <1>3. QED BY <1>1, <1>2

LEMMA PageNext == Base /\ Linked /\ PageInv /\ [Next]_vars => PageInv'
  <1> SUFFICES ASSUME Base, Linked, PageInv, [Next]_vars, ~hasty'
               PROVE  /\ PageIsTrue' /\ handle' = online'
                      /\ \A m \in Manager : m # current' /\ ws'[m] # None
                           => sock'[ws'[m]] = "closed" /\ ws'[m] \notin retry'
    BY DEF PageInv
  <1>1. ~hasty
    BY DEF Next, ClickConnect, ClickDisconnect, SocketStep, SocketOpens,
       SocketCloses, ReconnectTimer, Offer, PeerStep, RemoteSet, AnswerCreated,
       LocalSet, OfferFails, vars, ghosts
  <1>2. /\ online \in BOOLEAN /\ handle = online
        /\ online <=> /\ current # None /\ ws[current] # None
                      /\ sock[ws[current]] = "open"
        /\ live = IF online THEN 1 ELSE 0
        /\ \A m \in Manager : m # current /\ ws[m] # None
             => sock[ws[m]] = "closed" /\ ws[m] \notin retry
    BY <1>1 DEF PageInv, PageIsTrue, Base, TypeOK
  <1>3. CASE UNCHANGED <<app, sock, ws, retry>>
    BY <1>2, <1>3 DEF app, PageIsTrue
  <1>4. CASE ClickConnect
    <2>1. PICK m : m = CHOOSE x \in FreeManagers : TRUE
      OBVIOUS
    <2>2. m \in Manager /\ m \notin made /\ m # None
      BY <1>4, <2>1 DEF ClickConnect, FreeManagers
    <2>3. /\ current' = m /\ Connect(m) /\ Spare /\ ~online
          /\ UNCHANGED <<online, handle, live, retry>>
          /\ \A n \in made : ~Pending(n)
      BY <1>4, <2>1 DEF ClickConnect
    <2>4. FreeSockets # {}
      BY <2>3, RoomLeft
    <2>5. PICK w \in FreeSockets :
             /\ sock' = [x \in Socket |-> IF x = w THEN "connecting"
                                          ELSE IF x = ws[m] THEN HangUp(x)
                                          ELSE sock[x]]
             /\ ws' = [ws EXCEPT ![m] = w]
             /\ owner' = [owner EXCEPT ![w] = m]
             /\ FreeSockets' = FreeSockets \ {w}
      BY <2>2, <2>3, <2>4, ConnectUses DEF Base
    <2>6. /\ w \in Socket /\ sock[w] = Unused /\ ws[m] = None
          /\ ws'[m] = w /\ sock'[w] = "connecting"
          /\ \A x \in Socket : x # w => sock'[x] = sock[x]
          /\ \A n \in Manager : n # m => ws'[n] = ws[n]
      BY <2>2, <2>5 DEF FreeSockets, Base, TypeOK, Linked, LinkInv
    <2>7. PageIsTrue' /\ handle' = online'
      BY <1>2, <2>3, <2>6 DEF PageIsTrue
    <2>8. ASSUME NEW n \in Manager, n # m, ws'[n] # None
          PROVE  sock'[ws'[n]] = "closed" /\ ws'[n] \notin retry'
      <3>1. /\ ws'[n] = ws[n] /\ ws[n] \in Socket /\ owner[ws[n]] = n
            /\ n \in made /\ sock[ws[n]] # Unused /\ sock[ws[n]] # "closing"
        BY <2>6, <2>8 DEF Linked, LinkInv, Base, TypeOK
      <3>2. ~Pending(n) /\ IsCurrent(ws[n])
        BY <2>3, <3>1 DEF IsCurrent
      <3>3. sock[ws[n]] # "connecting" /\ ws[n] \notin retry
        BY <3>1, <3>2 DEF Pending
      <3>4. sock[ws[n]] # "open"
        BY <1>2, <2>3, <2>8, <3>1
      <3>5. sock[ws[n]] = "closed"
        BY <3>1, <3>3, <3>4 DEF Base, TypeOK
      <3>6. ws[n] # w
        BY <2>6, <3>1
      <3>7. QED BY <2>3, <2>6, <3>1, <3>3, <3>5, <3>6
    <2>9. QED BY <2>3, <2>7, <2>8
  <1>5. CASE ClickDisconnect
    <2>1. online /\ current # None /\ current \in Manager
      BY <1>2, <1>5 DEF ClickDisconnect, Base, TypeOK
    <2>2. /\ online' = FALSE /\ handle' = FALSE /\ live' = 0 /\ current' = None
          /\ sock' = [w \in Socket |-> IF w = ws[current] THEN HangUp(w)
                                       ELSE sock[w]]
          /\ ws' = [ws EXCEPT ![current] = None]
          /\ UNCHANGED retry
      BY <1>2, <1>5, <2>1 DEF ClickDisconnect, NotifyDown, StopIntervals
    <2>3. PageIsTrue' /\ handle' = online'
      BY <2>2 DEF PageIsTrue
    <2>4. ASSUME NEW n \in Manager, ws'[n] # None
          PROVE  sock'[ws'[n]] = "closed" /\ ws'[n] \notin retry'
      <3>1. n # current /\ ws'[n] = ws[n] /\ ws[n] \in Socket
        BY <2>1, <2>2, <2>4 DEF Base, TypeOK
      <3>2. sock[ws[n]] = "closed" /\ ws[n] \notin retry
        BY <1>2, <2>4, <3>1
      <3>3. sock'[ws[n]] = "closed"
        BY <2>2, <3>1, <3>2 DEF HangUp, Up
      <3>4. QED BY <2>2, <3>1, <3>2, <3>3
    <2>5. QED BY <2>3, <2>4
  <1>6. ASSUME NEW w \in Socket, SocketOpens(w)
        PROVE  /\ PageIsTrue' /\ handle' = online'
               /\ \A m \in Manager : m # current' /\ ws'[m] # None
                    => sock'[ws'[m]] = "closed" /\ ws'[m] \notin retry'
    <2>1. /\ sock[w] = "connecting" /\ sock' = [sock EXCEPT ![w] = "open"]
          /\ UNCHANGED <<current, ws, retry>>
      BY <1>6 DEF SocketOpens
    <2>2. IsCurrent(w)
      BY <2>1 DEF Linked, SocketInUse, Up
    <2>3. current \in Manager /\ ws[current] = w /\ w # None /\ current # None
      BY <1>1, <2>1, <2>2, OnlyCurrent DEF Unused
    <2>4. NotifyUp /\ ~online
      BY <1>2, <1>6, <2>1, <2>2, <2>3 DEF SocketOpens
    <2>5. online' = TRUE /\ handle' = TRUE /\ live' = 1
      BY <1>2, <2>4 DEF NotifyUp, StartIntervals
    <2>6. sock'[w] = "open" /\ \A x \in Socket : x # w => sock'[x] = sock[x]
      BY <2>1 DEF Base, TypeOK
    <2>7. PageIsTrue' /\ handle' = online'
      BY <2>1, <2>3, <2>5, <2>6 DEF PageIsTrue
    <2>8. ASSUME NEW n \in Manager, n # current, ws[n] # None
          PROVE  sock'[ws[n]] = "closed" /\ ws[n] \notin retry
      <3>1. sock[ws[n]] = "closed" /\ ws[n] \notin retry /\ ws[n] \in Socket
        BY <1>2, <2>8 DEF Base, TypeOK
      <3>2. QED BY <2>1, <2>6, <3>1
    <2>9. QED BY <2>1, <2>7, <2>8
  <1>7. ASSUME NEW w \in Socket, NEW clean \in BOOLEAN, SocketCloses(w, clean)
        PROVE  /\ PageIsTrue' /\ handle' = online'
               /\ \A m \in Manager : m # current' /\ ws'[m] # None
                    => sock'[ws'[m]] = "closed" /\ ws'[m] \notin retry'
    <2>1. /\ sock[w] \in {"connecting", "open", "closing"}
          /\ sock' = [sock EXCEPT ![w] = "closed"]
          /\ UNCHANGED <<current, ws, owner>>
      BY <1>7 DEF SocketCloses
    <2>2. sock'[w] = "closed" /\ \A x \in Socket : x # w => sock'[x] = sock[x]
      BY <2>1 DEF Base, TypeOK
    <2>3. CASE Ignored(w)
      <3>1. UNCHANGED <<online, handle, live, retry>>
        BY <1>7, <2>3 DEF SocketCloses
      <3>2. \A n \in Manager : ws[n] # w
        BY <2>1, <2>3 DEF Ignored, IsCurrent, Linked, LinkInv
      <3>3. \A n \in Manager : ws[n] # None => sock'[ws[n]] = sock[ws[n]]
        BY <2>2, <3>2 DEF Base, TypeOK
      <3>4. current # None => current \in Manager
        BY DEF Base, TypeOK
      <3>5. PageIsTrue'
        BY <1>2, <2>1, <3>1, <3>3, <3>4 DEF PageIsTrue
      <3>6. QED BY <1>2, <2>1, <3>1, <3>3, <3>5
    <2>4. CASE ~Ignored(w)
      <3>1. current \in Manager /\ ws[current] = w /\ owner[w] = current
        BY <1>1, <2>1, <2>4, OnlyCurrent DEF Ignored, Unused
      <3>2. NotifyDown /\ retry' \in {retry, retry \cup {w}}
        BY <1>7, <2>4 DEF SocketCloses
      <3>3. online' = FALSE /\ handle' = FALSE /\ live' = 0
        BY <1>2, <3>2 DEF NotifyDown, StopIntervals
      <3>4. PageIsTrue' /\ handle' = online'
        BY <2>1, <2>2, <3>1, <3>3 DEF PageIsTrue
      <3>5. ASSUME NEW n \in Manager, n # current, ws[n] # None
            PROVE  sock'[ws[n]] = "closed" /\ ws[n] \notin retry'
        <4>1. /\ sock[ws[n]] = "closed" /\ ws[n] \notin retry
              /\ ws[n] \in Socket
          BY <1>2, <3>5 DEF Base, TypeOK
        <4>2. ws[n] # w
          BY <2>1, <4>1
        <4>3. QED BY <2>2, <3>2, <4>1, <4>2
      <3>6. QED BY <2>1, <3>4, <3>5
    <2>5. QED BY <2>3, <2>4
  <1>8. ASSUME NEW w \in Socket, ReconnectTimer(w)
        PROVE  /\ PageIsTrue' /\ handle' = online'
               /\ \A m \in Manager : m # current' /\ ws'[m] # None
                    => sock'[ws'[m]] = "closed" /\ ws'[m] \notin retry'
    <2>1. w \in retry /\ retry' = retry \ {w} /\ UNCHANGED app
      BY <1>8 DEF ReconnectTimer
    <2>2. CASE ~StillWanted(w)
      <3>1. UNCHANGED <<ws, sock>>
        BY <1>8, <2>2 DEF ReconnectTimer
      <3>2. QED BY <1>2, <2>1, <3>1 DEF app, PageIsTrue
    <2>3. CASE StillWanted(w)
      <3>1. sock[w] = "closed" /\ IsCurrent(w)
        BY <2>1, <2>3 DEF StillWanted, Base, TimerInv
      <3>2. current \in Manager /\ owner[w] = current /\ ws[current] = w
        BY <1>1, <2>1, <3>1, OnlyCurrent DEF Unused
      <3>3. Connect(current) /\ FreeSockets # {}
        BY <1>8, <2>1, <2>3, <3>2, RoomLeft DEF ReconnectTimer
      <3>4. PICK v \in FreeSockets :
               /\ sock' = [x \in Socket |-> IF x = v THEN "connecting"
                                            ELSE IF x = ws[current]
                                            THEN HangUp(x) ELSE sock[x]]
               /\ ws' = [ws EXCEPT ![current] = v]
               /\ owner' = [owner EXCEPT ![v] = current]
               /\ FreeSockets' = FreeSockets \ {v}
        BY <3>2, <3>3, ConnectUses DEF Base
      <3>5. /\ v \in Socket /\ sock[v] = Unused /\ sock'[v] = "connecting"
            /\ ws'[current] = v
            /\ \A n \in Manager : n # current => ws'[n] = ws[n]
            /\ \A x \in Socket : x # v => sock'[x] = sock[x]
        BY <3>1, <3>2, <3>4 DEF FreeSockets, Base, TypeOK, HangUp, Up
      <3>6. ~online
        BY <1>2, <3>1, <3>2
      <3>7. PageIsTrue' /\ handle' = online'
        BY <1>2, <2>1, <3>5, <3>6 DEF app, PageIsTrue
      <3>8. ASSUME NEW n \in Manager, n # current, ws'[n] # None
            PROVE  sock'[ws'[n]] = "closed" /\ ws'[n] \notin retry'
        <4>1. /\ ws'[n] = ws[n] /\ sock[ws[n]] = "closed"
              /\ ws[n] \notin retry /\ ws[n] \in Socket
          BY <1>2, <3>5, <3>8 DEF Base, TypeOK
        <4>2. ws[n] # v
          BY <3>5, <4>1 DEF Unused
        <4>3. QED BY <2>1, <3>5, <4>1, <4>2
      <3>9. QED BY <2>1, <3>7, <3>8 DEF app
    <2>4. QED BY <2>2, <2>3
  <1>9. ASSUME NEW w \in Socket, NEW s \in Stream, Offer(w, s)
        PROVE  UNCHANGED <<app, sock, ws, retry>>
    BY <1>9 DEF Offer, links
  <1>10. ASSUME NEW p \in PC, PeerStep(p)
         PROVE  UNCHANGED <<app, sock, ws, retry>>
    BY <1>10, PeerStepLeaves DEF links
  <1>11. ASSUME UNCHANGED vars PROVE UNCHANGED <<app, sock, ws, retry>>
    BY <1>11 DEF vars, links
  <1>12. QED
    BY <1>3, <1>4, <1>5, <1>6, <1>7, <1>8, <1>9, <1>10, <1>11
    DEF Next, SocketStep

(* PageIsTrue: the button and the intervals agree with the connection, for  *)
(* a user who is not hasty (app.js:88-106, 119-161, webrtc.js:63-89).       *)
THEOREM PageStaysTrue == Spec => []PageIsTrue
  <1>1. Init => PageInv
    BY DEF Init, PageInv, PageIsTrue
  <1>2. PageInv => PageIsTrue
    BY DEF PageInv, PageIsTrue
  <1>3. QED BY <1>1, <1>2, PageNext, BaseHolds, LinkedHolds, PTL DEF Spec

=============================================================================
