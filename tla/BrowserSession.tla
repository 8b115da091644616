--------------------------- MODULE BrowserSession ---------------------------
(***************************************************************************)
(* The dashboard page: the connection handling of browser/app.js and the   *)
(* WebRTCManager of browser/webrtc.js.                                     *)
(*                                                                         *)
(* JavaScript runs one task at a time, so a step is a whole task: a click, *)
(* an event of a WebSocket, a timer, one message, or what an offer handler *)
(* does between two awaits.  Everything that can happen while a handler is *)
(* suspended is a step of its own.  A task that calls ws.close() or        *)
(* pc.close() has no effect on tasks that are queued already; what the     *)
(* code relies on is that a closed RTCPeerConnection leaves its pending    *)
(* promises unsettled and that the handlers of a socket the manager has    *)
(* replaced ignore their events.                                           *)
(*                                                                         *)
(* Each click on Connect makes a new WebRTCManager, and all managers call  *)
(* back into the one App.                                                  *)
(***************************************************************************)
EXTENDS Naturals, FiniteSets

CONSTANTS
  Manager,  \* WebRTCManager objects: bound on clicks on Connect
  Socket,   \* WebSocket objects: bound on connection attempts
  PC,       \* RTCPeerConnection objects: bound on offers
  Stream,   \* stream ids
  None      \* null, or a key that is absent

ASSUME BrowserAssumption ==
  /\ None \notin Manager \cup Socket \cup PC
  /\ IsFiniteSet(Socket)

VARIABLES
  online,   \* state.connected, what the Connect button shows
  current,  \* the App's webrtc
  handle,   \* the App has the handle of running intervals
  live,     \* intervals that are running
  shown,    \* the stream attached to each card, None when there is no card
  made,     \* managers made so far
  ws,       \* the ws of a manager
  linked,   \* managers whose _connected is true
  pcs,      \* the peerConnections of a manager
  retry,    \* sockets whose reconnect timer is running
  sock,     \* readyState of each socket
  owner,    \* the manager that made it
  step,     \* the await at which the handler of a peer connection's offer is
  shut,     \* peer connections that were closed
  from,     \* the socket the offer of a peer connection came from
  of,       \* the stream it is for
  quit,     \* managers the user disconnected
  answered, \* <<socket, peer connection>> of each answer sent
  hasty     \* a click on Connect came while a connection was being made

app == <<online, current, handle, live>>
links == <<ws, linked, retry, sock, owner>>
peers == <<pcs, step, shut, from, of>>
ghosts == <<quit, answered, hasty>>
vars == <<app, shown, made, links, peers, ghosts>>

Unused == "unused"
FreeSockets == {w \in Socket : sock[w] = Unused}
FreePCs == {p \in PC : step[p] = Unused}
FreeManagers == Manager \ made

Up(w) == sock[w] \in {"connecting", "open"}

(* this.ws === ws, the test at the start of every handler of a socket. *)
IsCurrent(w) == ws[owner[w]] = w

ManagerOf(p) == owner[from[p]]
NoPeers == [s \in Stream |-> None]
PeersOf(m) == {pcs[m][s] : s \in Stream} \ {None}

-----------------------------------------------------------------------------
Init ==
  /\ online = FALSE /\ current = None /\ handle = FALSE /\ live = 0
  /\ shown = [s \in Stream |-> None]
  /\ made = {}
  /\ ws = [m \in Manager |-> None]
  /\ linked = {}
  /\ pcs = [m \in Manager |-> NoPeers]
  /\ retry = {}
  /\ sock = [w \in Socket |-> Unused]
  /\ owner = [w \in Socket |-> None]
  /\ step = [p \in PC |-> Unused]
  /\ shut = {}
  /\ from = [p \in PC |-> None]
  /\ of = [p \in PC |-> None]
  /\ quit = {}
  /\ answered = {}
  /\ hasty = FALSE

-----------------------------------------------------------------------------
(* Parts of the handlers.                                                  *)

(* startIntervals overwrites the handle it has, stopIntervals clears it. *)
StartIntervals ==
  /\ handle' = TRUE
  /\ live' = live + 1

StopIntervals ==
  /\ handle' = FALSE
  /\ live' = IF handle THEN live - 1 ELSE live

(* onConnectionStateChange *)
NotifyUp == online' = TRUE /\ StartIntervals
NotifyDown == online' = FALSE /\ StopIntervals

\* Mutant of ToShut: connect and disconnect forget peers without closing them.
ForgetPeers(m) == {}

ToShut(m) == PeersOf(m)

(* The loop over peerConnections in connect and in disconnect. *)
ClosePeers(m) ==
  /\ shut' = shut \cup ToShut(m)
  /\ pcs' = [pcs EXCEPT ![m] = NoPeers]
  /\ UNCHANGED <<step, from, of>>

\* Mutant of HangUp: the socket is not closed.
LeaveOpen(w) == sock[w]

HangUp(w) == IF Up(w) THEN "closing" ELSE sock[w]

(* WebRTCManager.connect *)
Connect(m) ==
  LET w == CHOOSE x \in FreeSockets : TRUE IN
  /\ sock' = [x \in Socket |-> IF x = w THEN "connecting"
                               ELSE IF x = ws[m] THEN HangUp(x) ELSE sock[x]]
  /\ ws' = [ws EXCEPT ![m] = w]
  /\ owner' = [owner EXCEPT ![w] = m]
  /\ ClosePeers(m)
  /\ UNCHANGED linked

(* Bound: a connection attempt is left for every timer that will need one. *)
Spare == Cardinality(FreeSockets) > Cardinality(retry)

-----------------------------------------------------------------------------
(* Clicks.                                                                 *)

Pending(m) == \E w \in Socket :
  owner[w] = m /\ IsCurrent(w) /\ (sock[w] = "connecting" \/ w \in retry)

(* App.connect: a new manager takes the place of the old one, whatever     *)
(* that is doing.                                                          *)
ClickConnect ==
  /\ ~online
  /\ FreeManagers # {} /\ Spare
  /\ LET m == CHOOSE x \in FreeManagers : TRUE IN
     /\ made' = made \cup {m}
     /\ current' = m
     /\ Connect(m)
  /\ hasty' = (hasty \/ \E m \in made : Pending(m))
  /\ UNCHANGED <<online, handle, live, shown, retry, quit, answered>>

(* App.disconnect and, if there is one, the current manager's disconnect. *)
ClickDisconnect ==
  /\ online
  /\ NotifyDown
  /\ current' = None
  /\ shown' = [s \in Stream |-> None]
  /\ IF current = None
     THEN UNCHANGED <<links, peers, quit>>
     ELSE /\ sock' = [w \in Socket |-> IF w = ws[current] THEN HangUp(w)
                                                          ELSE sock[w]]
          /\ ws' = [ws EXCEPT ![current] = None]
          /\ linked' = linked \ {current}
          /\ quit' = quit \cup {current}
          /\ ClosePeers(current)
          /\ UNCHANGED <<retry, owner>>
  /\ UNCHANGED <<made, answered, hasty>>

-----------------------------------------------------------------------------
(* Events of a socket.                                                     *)

SocketOpens(w) ==
  /\ sock[w] = "connecting"
  /\ sock' = [sock EXCEPT ![w] = "open"]
  /\ IF IsCurrent(w)
     THEN /\ linked' = linked \cup {owner[w]}
          /\ NotifyUp
     ELSE UNCHANGED <<linked, online, handle, live>>
  /\ UNCHANGED <<current, shown, made, ws, retry, owner, peers, ghosts>>

\* Mutant of Ignored: the close of a replaced socket is handled too.
NeverIgnored(w) == FALSE

Ignored(w) == ~IsCurrent(w)

\* Mutant of Unlink: _connected stays true.
StayLinked(m) == linked

Unlink(m) == linked \ {m}

(* onclose, with the onerror that precedes it when the connection failed:  *)
(* codes 1000 and 1005 are clean.                                          *)
SocketCloses(w, clean) ==
  /\ \/ sock[w] = "connecting" /\ ~clean
     \/ sock[w] = "open"
     \/ sock[w] = "closing" /\ clean
  /\ sock' = [sock EXCEPT ![w] = "closed"]
  /\ IF Ignored(w)
     THEN UNCHANGED <<linked, retry, online, handle, live>>
     ELSE /\ linked' = Unlink(owner[w])
          /\ NotifyDown
          /\ IF clean THEN UNCHANGED retry
                      ELSE Spare /\ retry' = retry \cup {w}
  /\ UNCHANGED <<current, shown, made, ws, owner, peers, ghosts>>

\* Mutant of StillWanted: the timer does not ask whether the socket is the
\* manager's.
NotLinked(w) == owner[w] \notin linked

StillWanted(w) == IsCurrent(w) /\ owner[w] \notin linked

(* The timer set by onclose, three seconds later. *)
ReconnectTimer(w) ==
  /\ w \in retry
  /\ retry' = retry \ {w}
  /\ IF StillWanted(w) THEN Connect(owner[w])
     ELSE UNCHANGED <<ws, linked, sock, owner, peers>>
  /\ UNCHANGED <<app, shown, made, ghosts>>

-----------------------------------------------------------------------------
(* Offers.                                                                 *)

\* Mutant of Superseded: an offer leaves the stream's old connection open.
KeepOld(m, s) == {}

\* Mutant of Superseded: closes a connection that is not there.
CloseBlindly(m, s) == {pcs[m][s]}

Superseded(m, s) == {pcs[m][s]} \ {None}

(* _handleOffer up to its first await. *)
Offer(w, s) ==
  /\ sock[w] = "open"
  /\ IsCurrent(w)
  /\ FreePCs # {}
  /\ LET p == CHOOSE x \in FreePCs : TRUE
         m == owner[w] IN
     /\ shut' = shut \cup Superseded(m, s)
     /\ pcs' = [pcs EXCEPT ![m][s] = p]
     /\ step' = [step EXCEPT ![p] = "remote"]
     /\ from' = [from EXCEPT ![p] = w]
     /\ of' = [of EXCEPT ![p] = s]
  /\ UNCHANGED <<app, shown, made, links, ghosts>>

Awaiting(p, s) == step[p] = s /\ p \notin shut

Resume(p, s) ==
  /\ step' = [step EXCEPT ![p] = s]
  /\ UNCHANGED <<pcs, shut, from, of>>

(* setRemoteDescription is done: ontrack fires, and onStreamAdded makes    *)
(* the card if need be and attaches the stream to its video.               *)
RemoteSet(p) ==
  /\ Awaiting(p, "remote")
  /\ Resume(p, "answer")
  /\ shown' = [shown EXCEPT ![of[p]] = p]
  /\ UNCHANGED <<app, made, links, ghosts>>

AnswerCreated(p) ==
  /\ Awaiting(p, "answer")
  /\ Resume(p, "local")
  /\ UNCHANGED <<app, shown, made, links, ghosts>>

(* setLocalDescription is done: _send goes to the socket the manager has   *)
(* now, if that is open.                                                   *)
LocalSet(p) ==
  /\ Awaiting(p, "local")
  /\ Resume(p, "done")
  /\ LET w == ws[ManagerOf(p)] IN
     answered' = IF w # None /\ sock[w] = "open"
                 THEN answered \cup {<<w, p>>} ELSE answered
  /\ UNCHANGED <<app, shown, made, links, quit, hasty>>

(* One of the three awaits throws. *)
OfferFails(p) ==
  /\ \E s \in {"remote", "answer", "local"} : Awaiting(p, s)
  /\ Resume(p, "failed")
  /\ UNCHANGED <<app, shown, made, links, ghosts>>

-----------------------------------------------------------------------------
SocketStep(w) ==
  \/ SocketOpens(w)
  \/ \E clean \in BOOLEAN : SocketCloses(w, clean)
  \/ ReconnectTimer(w)
  \/ \E s \in Stream : Offer(w, s)

PeerStep(p) ==
  RemoteSet(p) \/ AnswerCreated(p) \/ LocalSet(p) \/ OfferFails(p)

Next ==
  \/ ClickConnect \/ ClickDisconnect
  \/ \E w \in Socket : SocketStep(w)
  \/ \E p \in PC : PeerStep(p)

Spec == Init /\ [][Next]_vars

(* The event loop runs a timer that is due; nothing is assumed of the      *)
(* user, of the network or of the server.                                  *)
FairSpec == Spec /\ \A w \in Socket : WF_vars(ReconnectTimer(w))

-----------------------------------------------------------------------------
(* Properties.                                                             *)

(* Every variable has its type. *)
TypeOK ==
  /\ online \in BOOLEAN /\ handle \in BOOLEAN
  /\ current \in Manager \cup {None}
  /\ live \in Nat
  /\ shown \in [Stream -> PC \cup {None}]
  /\ made \in SUBSET Manager
  /\ ws \in [Manager -> Socket \cup {None}]
  /\ linked \in SUBSET Manager
  /\ pcs \in [Manager -> [Stream -> PC \cup {None}]]
  /\ retry \in SUBSET Socket
  /\ sock \in [Socket -> {Unused, "connecting", "open", "closing", "closed"}]
  /\ owner \in [Socket -> Manager \cup {None}]
  /\ step \in [PC -> {Unused, "remote", "answer", "local", "done", "failed"}]
  /\ shut \in SUBSET PC
  /\ from \in [PC -> Socket \cup {None}]
  /\ of \in [PC -> Stream \cup {None}]
  /\ quit \in SUBSET Manager
  /\ answered \in SUBSET (Socket \X PC)
  /\ hasty \in BOOLEAN

(* A socket that can still carry messages is the one its manager uses,     *)
(* through every sequence of failures, timers and clicks: no manager has a *)
(* second connection, and one the user disconnected has none               *)
(* (webrtc.js:43-47, 70-89, 106-113).                                      *)
SocketInUse == \A w \in Socket : Up(w) => IsCurrent(w)

(* A manager the user disconnected stays so: the reconnect timer that was  *)
(* running then does nothing (webrtc.js:82-87, 106-108).                   *)
QuitStaysDown == \A m \in quit : ws[m] = None

(* A peer connection that was not closed is the one its manager has for    *)
(* the stream: none is left behind by a new offer, a reconnect or a        *)
(* disconnect (webrtc.js:49-53, 115-119, 177-185).                         *)
NoLeakedPeer ==
  \A p \in PC : step[p] # Unused /\ p \notin shut
                  => pcs[ManagerOf(p)][of[p]] = p

(* An answer goes out on the connection its offer came in on, although the *)
(* handler was suspended three times and uses whatever ws there is then    *)
(* (webrtc.js:187-204).                                                    *)
AnswerGoesBack == \A sent \in answered : sent[1] = from[sent[2]]

(* After Disconnect the page stays empty: no handler that was under way    *)
(* brings a card back, provided the App abandoned no manager before        *)
(* (app.js:108-117, 183-198, webrtc.js:115-121).                           *)
NoCardAfterDisconnect ==
  current = None /\ made = quit => \A s \in Stream : shown[s] = None

(* The button says Disconnect exactly when the App's manager has an open   *)
(* connection, and exactly then one set of intervals runs, through late    *)
(* events of replaced sockets, failures and reconnects.  It holds for a    *)
(* user who does not click Connect while a connection is being made:       *)
(* connect() then drops a manager that goes on calling back                *)
(* (app.js:88-106, 119-161, webrtc.js:63-89).                              *)
PageIsTrue ==
  ~hasty =>
    /\ online <=> /\ current # None
                  /\ ws[current] # None
                  /\ sock[ws[current]] = "open"
    /\ live = IF online THEN 1 ELSE 0

(* A connection that was lost is replaced by a new attempt, unless the     *)
(* user disconnects first (webrtc.js:80-88).                               *)
LossIsRetried ==
  \A w \in Socket : w \in retry ~> \A m \in Manager : ws[m] # w
=============================================================================
