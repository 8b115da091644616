---------------------------- MODULE SignalingHub ----------------------------
(***************************************************************************)
(* The Go signaling server: signaling/hub.go, client.go and the WebSocket  *)
(* handler of main.go.                                                     *)
(*                                                                         *)
(* Every WebSocket connection c is served by two goroutines, its ReadPump  *)
(* (which also runs RouteMessage, RegisterClient and UnregisterClient) and *)
(* its WritePump.  They share, with those of every other connection, the   *)
(* hub's two maps under the RWMutex h.mu, and each client's send channel   *)
(* and closed flag under the client's mutex c.mu.  A step of this module   *)
(* is what one goroutine does between two points where another one can     *)
(* interfere: taking h.mu and changing a map, looking at closed with c.mu  *)
(* held, pushing on the channel and releasing c.mu, closing the channel,   *)
(* closing the socket, one write to the socket.                            *)
(*                                                                         *)
(* A client that reconnects is a new connection with the same IdOf: the    *)
(* sender always presents its fixed sender_id and a WebRTCManager its      *)
(* _receiverId.                                                            *)
(***************************************************************************)
EXTENDS Naturals, Sequences, FiniteSets

CONSTANTS
  Conn,      \* WebSocket connections, each used once
  Ident,     \* the id= query parameters clients present
  NoConn,    \* no entry in a map of the hub
  IdOf,      \* the id each connection presents
  RoleOf,    \* the role= each connection presents
  SendCap,   \* capacity of a client's send channel (256 in the code)
  MaxReads,  \* bound: messages read from each connection
  Stable     \* bound: connections that, once there, never break

ASSUME HubAssumption ==
  /\ IdOf \in [Conn -> Ident]
  /\ RoleOf \in [Conn -> {"sender", "receiver"}]
  /\ NoConn \notin Conn
  /\ SendCap \in Nat \ {0}
  /\ MaxReads \in [Conn -> Nat]
  /\ Stable \subseteq Conn

VARIABLES
  senders,   \* h.senders: id -> connection, or NoConn
  receivers, \* h.receivers
  reader,    \* where the goroutine reading c is
  writer,    \* where WritePump of c is
  lock,      \* how the reader of c holds h.mu
  todo,      \* Sends the hub operation run by c's reader still has to make
  cur,       \* the Send whose recipient's mutex that reader holds
  ret,       \* where that reader goes when the hub operation returns
  closed,    \* c.closed: the channel of c is closed
  sendq,     \* c.send: buffered messages
  sock,      \* the socket under c.conn
  inbox,     \* messages written to the peer of c, oldest first
  reads,     \* messages read from c
  registered,\* RegisterClient(c) has run
  dropped    \* a Send to c found the channel full

vars == <<senders, receivers, reader, writer, lock, todo, cur, ret, closed,
          sendq, sock, inbox, reads, registered, dropped>>

registry == <<senders, receivers, registered>>
job == <<lock, todo, cur, ret>>
chan == <<closed, sendq, dropped>>
peer == <<sock, inbox, reads>>

-----------------------------------------------------------------------------
(* Messages carry their type and the one identifier routing depends on:    *)
(* the sender concerned, or the receiver that joined or left.              *)

MsgType == {"register", "offer", "answer", "ice_candidate",
            "clock_sync_request", "clock_sync_browser",
            "clock_sync_response", "clock_sync_browser_response",
            "sender_joined", "sender_left", "receiver_joined",
            "receiver_left", "close_frame"}

Message == [type : MsgType, id : Ident]

Msg(type, id) == [type |-> type, id |-> id]

Delivery == [to : Conn, msg : Message]

(* The value of cur while no Send is under way. *)
NoSend(c) == [to |-> c, msg |-> Msg("close_frame", IdOf[c])]

(* One Send of m to each connection of the set C. *)
ToEach(C, m) == {[to |-> c, msg |-> m] : c \in C}

Senders == {senders[i] : i \in Ident} \ {NoConn}
Receivers == {receivers[i] : i \in Ident} \ {NoConn}
Mapped(c) == c \in Senders \cup Receivers

(* Everything the hub has queued for the peer of c since c connected. *)
Stream(c) == inbox[c] \o sendq[c]

-----------------------------------------------------------------------------
(* h.mu is a RWMutex; c.mu is held over a Send and over Close. *)

ReadLockFree == \A d \in Conn : lock[d] # "write"

\* Mutant of WriteLockFree: a writer waits for a writer only.
WriterIgnoresReaders == ReadLockFree

WriteLockFree == \A d \in Conn : lock[d] = "none"

\* Mutant of MuFree: Send and Close do not take c.mu.
NoMutex(c) == TRUE

MuFree(c) ==
  /\ \A d \in Conn : reader[d] = "push" => cur[d].to # c
  /\ reader[c] # "hangup"
  /\ writer[c] # "hangup"

\* Mutant of HasRoom: the channel takes one message too many.
HasRoomOffByOne(c) == Len(sendq[c]) <= SendCap

HasRoom(c) == Len(sendq[c]) < SendCap

(* The reader of c starts a hub operation that makes the given Sends. *)
StartOp(c, mode, sends, back) ==
  /\ reader' = [reader EXCEPT ![c] = "send"]
  /\ lock' = [lock EXCEPT ![c] = mode]
  /\ todo' = [todo EXCEPT ![c] = sends]
  /\ ret' = [ret EXCEPT ![c] = back]
  /\ UNCHANGED cur

-----------------------------------------------------------------------------
Init ==
  /\ senders = [i \in Ident |-> NoConn]
  /\ receivers = [i \in Ident |-> NoConn]
  /\ reader = [c \in Conn |-> "idle"]
  /\ writer = [c \in Conn |-> "idle"]
  /\ lock = [c \in Conn |-> "none"]
  /\ todo = [c \in Conn |-> {}]
  /\ cur = [c \in Conn |-> NoSend(c)]
  /\ ret = [c \in Conn |-> "read"]
  /\ closed = [c \in Conn |-> FALSE]
  /\ sendq = [c \in Conn |-> <<>>]
  /\ sock = [c \in Conn |-> "none"]
  /\ inbox = [c \in Conn |-> <<>>]
  /\ reads = [c \in Conn |-> 0]
  /\ registered = [c \in Conn |-> FALSE]
  /\ dropped = [c \in Conn |-> FALSE]

-----------------------------------------------------------------------------
(* Hub operations.                                                         *)

\* Mutant of JoinNotices: a new receiver is not told of the senders.
JoinNoticesOneWay(c) ==
  ToEach(IF RoleOf[c] = "sender" THEN Receivers ELSE Senders,
         Msg(IF RoleOf[c] = "sender" THEN "sender_joined"
                                     ELSE "receiver_joined", IdOf[c]))

(* What a newcomer makes the hub send.  The sender's arrival goes to every *)
(* receiver; a receiver's arrival goes to every sender, and the receiver   *)
(* itself is told of the senders that are there.                           *)
JoinNotices(c) ==
  IF RoleOf[c] = "sender"
  THEN ToEach(Receivers, Msg("sender_joined", IdOf[c]))
  ELSE ToEach(Senders, Msg("receiver_joined", IdOf[c]))
         \cup {[to |-> c, msg |-> Msg("sender_joined", i)] :
                 i \in {j \in Ident : senders[j] # NoConn}}

RegisterClient(c, back) ==
  /\ WriteLockFree
  /\ IF RoleOf[c] = "sender"
     THEN /\ senders' = [senders EXCEPT ![IdOf[c]] = c]
          /\ UNCHANGED receivers
     ELSE /\ receivers' = [receivers EXCEPT ![IdOf[c]] = c]
          /\ UNCHANGED senders
  /\ registered' = [registered EXCEPT ![c] = TRUE]
  /\ StartOp(c, "write", JoinNotices(c), back)

\* Mutant of LeaveNotices: nobody is told that a sender left.
LeaveNoticesOfReceivers(c) ==
  ToEach(IF RoleOf[c] = "sender" THEN {} ELSE Senders,
         Msg("receiver_left", IdOf[c]))

LeaveNotices(c) ==
  IF RoleOf[c] = "sender"
  THEN ToEach(Receivers, Msg("sender_left", IdOf[c]))
  ELSE ToEach(Senders, Msg("receiver_left", IdOf[c]))

\* Mutant of DeleteEntry: receivers are left in their map.
DeleteSenderEntryOnly(c) ==
  /\ senders' = IF RoleOf[c] = "sender"
                THEN [senders EXCEPT ![IdOf[c]] = NoConn] ELSE senders
  /\ UNCHANGED receivers

(* delete(h.senders, client.ID): whichever connection is under that id. *)
DeleteEntry(c) ==
  IF RoleOf[c] = "sender"
  THEN /\ senders' = [senders EXCEPT ![IdOf[c]] = NoConn]
       /\ UNCHANGED receivers
  ELSE /\ receivers' = [receivers EXCEPT ![IdOf[c]] = NoConn]
       /\ UNCHANGED senders

UnregisterClient(c) ==
  /\ reader[c] = "leave"
  /\ WriteLockFree
  /\ DeleteEntry(c)
  /\ StartOp(c, "write", LeaveNotices(c), "exit")
  /\ UNCHANGED <<chan, peer, registered, writer>>

-----------------------------------------------------------------------------
(* One Send (client.go): take the recipient's mutex and look at closed,    *)
(* then push or drop and release it.  The order inside one loop over a map *)
(* is arbitrary; a receiver's own sender_joined messages come after the    *)
(* loop over the senders.                                                  *)

NextSends(c) ==
  {s \in todo[c] : s.to = c => \A t \in todo[c] : t.to = c}

SendCheck(c) ==
  /\ reader[c] = "send"
  /\ \E s \in NextSends(c) :
       /\ MuFree(s.to)
       /\ todo' = [todo EXCEPT ![c] = @ \ {s}]
       /\ IF closed[s.to]
          THEN UNCHANGED <<reader, cur>>
          ELSE /\ reader' = [reader EXCEPT ![c] = "push"]
               /\ cur' = [cur EXCEPT ![c] = s]
  /\ UNCHANGED <<registry, chan, peer, writer, lock, ret>>

\* Mutant of SendPush: a full channel is tried again, not given up.
SendPushRetry(c) ==
  /\ reader[c] = "push"
  /\ LET r == cur[c].to IN
     IF HasRoom(r)
     THEN /\ sendq' = [sendq EXCEPT ![r] = Append(@, cur[c].msg)]
          /\ reader' = [reader EXCEPT ![c] = "send"]
          /\ cur' = [cur EXCEPT ![c] = NoSend(c)]
     ELSE UNCHANGED <<sendq, reader, cur>>
  /\ UNCHANGED <<registry, peer, writer, lock, todo, ret, closed, dropped>>

SendPush(c) ==
  /\ reader[c] = "push"
  /\ LET r == cur[c].to IN
     IF HasRoom(r)
     THEN /\ sendq' = [sendq EXCEPT ![r] = Append(@, cur[c].msg)]
          /\ UNCHANGED dropped
     ELSE /\ dropped' = [dropped EXCEPT ![r] = TRUE]
          /\ UNCHANGED sendq
  /\ reader' = [reader EXCEPT ![c] = "send"]
  /\ cur' = [cur EXCEPT ![c] = NoSend(c)]
  /\ UNCHANGED <<registry, peer, writer, lock, todo, ret, closed>>

(* The operation returns, its deferred Unlock or RUnlock included.  The    *)
(* WebSocket handler starts the pumps once RegisterClient has returned.    *)
FinishOp(c) ==
  /\ reader[c] = "send"
  /\ todo[c] = {}
  /\ lock' = [lock EXCEPT ![c] = "none"]
  /\ reader' = [reader EXCEPT ![c] = IF ret[c] = "exit" THEN "exit"
                                                        ELSE "read"]
  /\ writer' = [writer EXCEPT ![c] = IF ret[c] = "start" THEN "run" ELSE @]
  /\ ret' = [ret EXCEPT ![c] = "read"]
  /\ UNCHANGED <<registry, chan, peer, todo, cur>>

-----------------------------------------------------------------------------
(* handleWebSocket: upgrade, then receivers are registered at once, then   *)
(* the pumps start.                                                        *)

AcceptReceiver(c) ==
  /\ RoleOf[c] = "receiver"
  /\ reader[c] = "idle"
  /\ sock' = [sock EXCEPT ![c] = "up"]
  /\ RegisterClient(c, "start")
  /\ UNCHANGED <<chan, writer, inbox, reads>>

AcceptSender(c) ==
  /\ RoleOf[c] = "sender"
  /\ reader[c] = "idle"
  /\ sock' = [sock EXCEPT ![c] = "up"]
  /\ reader' = [reader EXCEPT ![c] = "read"]
  /\ writer' = [writer EXCEPT ![c] = "run"]
  /\ UNCHANGED <<registry, job, chan, inbox, reads>>

-----------------------------------------------------------------------------
(* ReadPump and RouteMessage.                                              *)

(* What a peer may send: the Python sender registers before anything else, *)
(* a browser answers, and sends candidates for, only offers it was sent.   *)
PeerMessages(c) ==
  IF RoleOf[c] = "sender"
  THEN {Msg(t, IdOf[c]) :
          t \in IF registered[c]
                THEN {"offer", "ice_candidate", "clock_sync_request"}
                ELSE {"register"}}
  ELSE {Msg("clock_sync_browser", IdOf[c])} \cup
       {Msg(t, i) : t \in {"answer", "ice_candidate"},
                    i \in {inbox[c][k].id : k \in
                            {j \in DOMAIN inbox[c] :
                               inbox[c][j].type = "offer"}}}

(* The Sends a routed message leads to. *)
Route(c, m) ==
  CASE m.type = "offer" -> ToEach(Receivers, m)
    [] m.type = "answer" -> ToEach({senders[m.id]} \ {NoConn}, m)
    [] m.type = "ice_candidate" ->
         IF RoleOf[c] = "sender" THEN ToEach(Receivers, m)
                                 ELSE ToEach({senders[m.id]} \ {NoConn}, m)
    [] m.type = "clock_sync_request" ->
         ToEach({c}, Msg("clock_sync_response", IdOf[c]))
    [] m.type = "clock_sync_browser" ->
         ToEach({c}, Msg("clock_sync_browser_response", IdOf[c]))
    [] OTHER -> {}

\* Mutant of RouteLock: messages are routed without the lock.
RouteUnlocked(m) == "none"

(* Only the routing operations take h.mu; clock sync answers need no map. *)
RouteLock(m) ==
  IF m.type \in {"offer", "answer", "ice_candidate"} THEN "read" ELSE "none"

ReadRegister(c) ==
  /\ reader[c] = "read"
  /\ sock[c] \in {"up", "lost"}
  /\ Msg("register", IdOf[c]) \in PeerMessages(c)
  /\ RegisterClient(c, "read")
  /\ UNCHANGED <<chan, peer, writer>>

(* What a peer sent before it went away is still read. *)
ReadMessage(c) ==
  /\ reader[c] = "read"
  /\ sock[c] \in {"up", "lost"}
  /\ reads[c] < MaxReads[c]
  /\ \E m \in PeerMessages(c) :
       /\ m.type # "register"
       /\ RouteLock(m) = "read" => ReadLockFree
       /\ StartOp(c, RouteLock(m), Route(c, m), "read")
  /\ reads' = [reads EXCEPT ![c] = @ + 1]
  /\ UNCHANGED <<registry, chan, writer, sock, inbox>>

(* ReadMessage fails when the socket is gone; on a live socket too, when   *)
(* the peer misses the pong deadline or exceeds the read limit.            *)
ReadError(c) ==
  /\ c \notin Stable
  /\ reader[c] = "read"
  /\ reader' = [reader EXCEPT ![c] = "leave"]
  /\ UNCHANGED <<registry, job, chan, peer, writer>>

-----------------------------------------------------------------------------
(* WritePump.                                                              *)

WriteMessage(c) ==
  /\ writer[c] = "run"
  /\ sendq[c] # <<>>
  /\ sock[c] \in {"up", "lost"}
  /\ sendq' = [sendq EXCEPT ![c] = Tail(@)]
  /\ inbox' = IF sock[c] = "up"
              THEN [inbox EXCEPT ![c] = Append(@, Head(sendq[c]))]
              ELSE inbox
  /\ UNCHANGED <<registry, job, reader, writer, closed, dropped, sock, reads>>

(* A message write or a ping fails, or exceeds its deadline. *)
WriteError(c) ==
  /\ c \notin Stable
  /\ writer[c] = "run"
  /\ writer' = [writer EXCEPT ![c] = "exit"]
  /\ UNCHANGED <<registry, job, chan, peer, reader>>

(* The channel is closed and drained: send a close frame and return. *)
WriteClose(c) ==
  /\ writer[c] = "run"
  /\ closed[c]
  /\ sendq[c] = <<>>
  /\ writer' = [writer EXCEPT ![c] = "exit"]
  /\ inbox' = IF sock[c] = "up"
              THEN [inbox EXCEPT ![c] = Append(@, Msg("close_frame", IdOf[c]))]
              ELSE inbox
  /\ UNCHANGED <<registry, job, chan, reader, sock, reads>>

-----------------------------------------------------------------------------
(* Client.Close, deferred by both pumps: under c.mu the first caller       *)
(* closes the channel, which WritePump can see at once, then the socket.   *)

CloseChannel(c) ==
  /\ MuFree(c)
  /\ closed' = [closed EXCEPT ![c] = TRUE]

\* Mutant of AfterCheck: Close leaves the socket open.
NoHangup(c) == "done"

AfterCheck(c) == IF closed[c] THEN "done" ELSE "hangup"

ReaderClose(c) ==
  /\ reader[c] = "exit"
  /\ CloseChannel(c)
  /\ reader' = [reader EXCEPT ![c] = AfterCheck(c)]
  /\ UNCHANGED <<registry, job, peer, writer, sendq, dropped>>

\* Mutant of WriterClose: WritePump takes the client out of the hub as well.
WriterUnregisters(c) ==
  /\ writer[c] = "exit"
  /\ CloseChannel(c)
  /\ WriteLockFree
  /\ DeleteEntry(c)
  /\ writer' = [writer EXCEPT ![c] = AfterCheck(c)]
  /\ UNCHANGED <<registered, job, peer, reader, sendq, dropped>>

WriterClose(c) ==
  /\ writer[c] = "exit"
  /\ CloseChannel(c)
  /\ writer' = [writer EXCEPT ![c] = AfterCheck(c)]
  /\ UNCHANGED <<registry, job, peer, reader, sendq, dropped>>

CloseSocket(c) == sock' = [sock EXCEPT ![c] = "closed"]

ReaderHangup(c) ==
  /\ reader[c] = "hangup"
  /\ CloseSocket(c)
  /\ reader' = [reader EXCEPT ![c] = "done"]
  /\ UNCHANGED <<registry, job, chan, writer, inbox, reads>>

WriterHangup(c) ==
  /\ writer[c] = "hangup"
  /\ CloseSocket(c)
  /\ writer' = [writer EXCEPT ![c] = "done"]
  /\ UNCHANGED <<registry, job, chan, reader, inbox, reads>>

(* Outside the server: the peer or the network goes away. *)
PeerGone(c) ==
  /\ c \notin Stable
  /\ sock[c] = "up"
  /\ sock' = [sock EXCEPT ![c] = "lost"]
  /\ UNCHANGED <<registry, job, chan, reader, writer, inbox, reads>>

-----------------------------------------------------------------------------
ReaderStep(c) ==
  \/ ReadRegister(c) \/ ReadMessage(c) \/ ReadError(c) \/ UnregisterClient(c)
  \/ SendCheck(c) \/ SendPush(c) \/ FinishOp(c)
  \/ ReaderClose(c) \/ ReaderHangup(c)

WriterStep(c) ==
  \/ WriteMessage(c) \/ WriteError(c) \/ WriteClose(c)
  \/ WriterClose(c) \/ WriterHangup(c)

(* Every connection has come and, unless stable, gone. *)
AllDone ==
  /\ \A c \in Conn \ Stable : reader[c] = "done" /\ writer[c] = "done"
  /\ \A c \in Stable : reader[c] = "read" /\ sendq[c] = <<>>
  /\ UNCHANGED vars

Next ==
  \/ \E c \in Conn : \/ AcceptReceiver(c) \/ AcceptSender(c)
                     \/ ReaderStep(c) \/ WriterStep(c) \/ PeerGone(c)
  \/ AllDone

(* The goroutines keep running: a pump whose socket is dead gets its error *)
(* within pongWait or pingPeriod, a buffered message is written, a Send    *)
(* and Close return, and a goroutine waiting for h.mu gets it (a waiting   *)
(* writer of a RWMutex blocks later readers).  Nothing says that a peer    *)
(* connects, speaks or leaves.                                             *)
Serving(c) ==
  \/ SendCheck(c) \/ SendPush(c) \/ FinishOp(c)
  \/ ReaderClose(c) \/ ReaderHangup(c)

Writing(c) ==
  WriteMessage(c) \/ WriteClose(c) \/ WriterClose(c) \/ WriterHangup(c)

Fairness ==
  \A c \in Conn :
    /\ WF_vars(Serving(c))
    /\ WF_vars(Writing(c))
    /\ SF_vars(UnregisterClient(c))
    /\ WF_vars(sock[c] # "up" /\ ReadError(c))
    /\ WF_vars(sock[c] # "up" /\ WriteError(c))

Spec == Init /\ [][Next]_vars
FairSpec == Spec /\ Fairness

-----------------------------------------------------------------------------
(* How this hub implements Presence: the notices owed are those its        *)
(* goroutines still have to send or are about to push.                     *)

InHand(c) == todo[c] \cup (IF reader[c] = "push" THEN {cur[c]} ELSE {})

Owed ==
  {s \in UNION {InHand(c) : c \in Conn} :
     s.msg.type \in {"sender_joined", "sender_left",
                     "receiver_joined", "receiver_left"}}

Unreliable == {c \in Conn : closed[c] \/ dropped[c]
                              \/ sock[c] \in {"lost", "closed"}}

Joined == {c \in Conn : registered[c]}

Streams == [c \in Conn |-> Stream(c)]

Pres == INSTANCE Presence
          WITH joined <- Joined, owed <- Owed, stream <- Streams,
               broken <- Unreliable

-----------------------------------------------------------------------------
(* Properties.                                                             *)

(* Every variable has its type, and no channel holds more than it can      *)
(* (client.go:52-56 drops instead of blocking or overflowing).             *)
TypeOK ==
  /\ senders \in [Ident -> Conn \cup {NoConn}]
  /\ receivers \in [Ident -> Conn \cup {NoConn}]
  /\ reader \in [Conn -> {"idle", "read", "send", "push", "leave", "exit",
                          "hangup", "done"}]
  /\ writer \in [Conn -> {"idle", "run", "exit", "hangup", "done"}]
  /\ lock \in [Conn -> {"none", "read", "write"}]
  /\ todo \in [Conn -> SUBSET Delivery]
  /\ cur \in [Conn -> Delivery]
  /\ ret \in [Conn -> {"start", "read", "exit"}]
  /\ closed \in [Conn -> BOOLEAN]
  /\ sendq \in [Conn -> Seq(Message)]
  /\ \A c \in Conn : Len(sendq[c]) <= SendCap
  /\ sock \in [Conn -> {"none", "up", "lost", "closed"}]
  /\ inbox \in [Conn -> Seq(Message)]
  /\ reads \in [Conn -> Nat]
  /\ registered \in [Conn -> BOOLEAN]
  /\ dropped \in [Conn -> BOOLEAN]

(* A goroutine about to push on a client's channel finds it open: pushing  *)
(* on a closed channel panics and takes the whole server down.  The        *)
(* recipient may be closing at that moment (client.go:46-57, 118-127).     *)
NoSendOnClosedChannel ==
  \A c \in Conn : reader[c] = "push" => ~closed[cur[c].to]

(* The part of a connection's life from its registration to the start of   *)
(* its UnregisterClient.                                                   *)
InSession(c) ==
  /\ registered[c]
  /\ \/ reader[c] \in {"read", "leave"}
     \/ reader[c] \in {"send", "push"} /\ ret[c] # "exit"

(* What the hub has listed is real: an entry of a map is a connection of   *)
(* that id and role that registered and whose ReadPump has not yet run     *)
(* UnregisterClient, so no client stays listed after its goroutines ended. *)
NoStaleEntry ==
  \A i \in Ident :
    /\ senders[i] # NoConn =>
         /\ IdOf[senders[i]] = i
         /\ RoleOf[senders[i]] = "sender"
         /\ InSession(senders[i])
    /\ receivers[i] # NoConn =>
         /\ IdOf[receivers[i]] = i
         /\ RoleOf[receivers[i]] = "receiver"
         /\ InSession(receivers[i])

(* As long as a goroutine is inside a hub operation under h.mu, the        *)
(* clients it has still to send to are those of the maps (or itself): a    *)
(* join or leave never interleaves with a broadcast in progress.           *)
BroadcastSeesOneRegistry ==
  \A c \in Conn : lock[c] # "none" =>
    /\ \A s \in todo[c] : Mapped(s.to) \/ s.to = c
    /\ reader[c] = "push" => Mapped(cur[c].to) \/ cur[c].to = c

(* UnregisterClient "removes a client from the hub" (hub.go:124), the one  *)
(* that leaves: an id that has a registered client in session has an entry *)
(* in the map, so the hub can reach it or its replacement.                 *)
SessionIsListed ==
  \A c \in Conn : InSession(c) =>
    IF RoleOf[c] = "sender" THEN senders[IdOf[c]] # NoConn
                            ELSE receivers[IdOf[c]] # NoConn

(* Between two changes of the registry, every listed receiver's stream     *)
(* says of every sender id exactly what the map says, whatever joins,      *)
(* leaves and reconnects came before; a listed sender is never left with a *)
(* receiver_joined for an id that is gone.  Excepted are clients that may  *)
(* lose messages: a full channel or a broken connection (Unreliable).      *)
PresenceView == Pres!View

(* The hub, with all its goroutines, locks and channels, keeps the promise *)
(* of Presence: joins and leaves happen one at a time, each with all its   *)
(* notices, and no offer, answer or candidate comes in between             *)
(* (hub.go:76-155, 158-270).                                               *)
ImplementsPresence == Pres!Spec

(* An offer reaches a receiver only while, as far as that receiver was     *)
(* told, its sender is there.                                              *)
OffersInSession ==
  \A c \in Conn : RoleOf[c] = "receiver" /\ ~dropped[c] =>
    \A k \in DOMAIN inbox[c] : inbox[c][k].type = "offer" =>
      Pres!LastIs(SubSeq(inbox[c], 1, k), inbox[c][k].id,
                  "sender_joined", "sender_left")

(* A connection that is broken or closed is torn down completely: both its *)
(* goroutines end and it is in neither map (defer chains of ReadPump and   *)
(* WritePump; each pump has to make the other one stop).                   *)
BrokenIsReaped ==
  \A c \in Conn :
    sock[c] \in {"lost", "closed"} \/ closed[c]
      ~> reader[c] = "done" /\ writer[c] = "done" /\ ~Mapped(c)

(* A hub operation never waits for a slow client: whoever took h.mu gives  *)
(* it back.                                                                *)
LockReleased ==
  \A c \in Conn : lock[c] # "none" ~> lock[c] = "none"
=============================================================================
