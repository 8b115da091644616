----------------------- MODULE SignalingHubRefinement -----------------------
(* Proof that the signaling hub implements Presence, and that what its     *)
(* clients are told of each other is therefore true, for any connections,  *)
(* ids, channel capacity and bounds.                                       *)
EXTENDS SignalingHubProofs, SequenceTheorems

NoticeType == {"sender_joined", "sender_left", "receiver_joined",
               "receiver_left"}
RelayedType == {"offer", "answer", "ice_candidate"}
PrivateType == {"clock_sync_response", "clock_sync_browser_response"}

(* Notices are sent under the write lock, messages are relayed, to listed  *)
(* clients, under the read lock, and only clock answers need no lock.      *)
InHandInv ==
  \A c \in Conn :
    /\ \A s \in InHand(c) :
         \/ s.msg.type \in NoticeType /\ lock[c] = "write"
         \/ s.msg.type \in RelayedType /\ lock[c] = "read" /\ Mapped(s.to)
         \/ s.msg.type \in PrivateType
    /\ reader[c] = "push" => cur[c] \notin todo[c]

(* A connection that is not accepted yet has neither socket nor pumps. *)
IdleInv ==
  \A c \in Conn : reader[c] = "idle" =>
    ~registered[c] /\ sock[c] = "none" /\ writer[c] = "idle"

RefInv == TypeOK /\ LockInv /\ InHandInv /\ IdleInv

-----------------------------------------------------------------------------
(* The invariant.                                                          *)

(* What a peer sends is routed under the lock its kind needs. *)
LEMMA RouteInHand ==
  ASSUME HubAssumption, TypeOK, NEW c \in Conn, NEW m \in PeerMessages(c),
         m.type # "register", NEW s \in Route(c, m)
  PROVE  \/ s.msg.type \in RelayedType /\ RouteLock(m) = "read" /\ Mapped(s.to)
         \/ s.msg.type \in PrivateType
<1>1. m \in Message /\ m.id \in Ident
  BY PeerMessagesTyped DEF Message
<1>2. CASE m.type \in RelayedType
  <2>1. RouteLock(m) = "read"
    BY <1>2 DEF RouteLock, RelayedType
  <2>2. Receivers \subseteq Senders \cup Receivers
        /\ {senders[m.id]} \ {NoConn} \subseteq Senders \cup Receivers
    BY <1>1 DEF Senders
  <2>3. s.msg = m /\ Mapped(s.to)
    BY <1>2, <2>2 DEF Route, RelayedType, ToEach, Mapped
  <2> QED
    BY <1>2, <2>1, <2>3
<1>3. CASE m.type \notin RelayedType
  BY <1>3 DEF Route, RelayedType, PrivateType, ToEach, Msg
<1> QED
  BY <1>2, <1>3

(* What a hub operation that changes the registry sends are notices. *)
LEMMA NoticesInHand ==
  ASSUME NEW c \in Conn
  PROVE  /\ \A s \in JoinNotices(c) : s.msg.type \in NoticeType
         /\ \A s \in LeaveNotices(c) : s.msg.type \in NoticeType
BY DEF JoinNotices, LeaveNotices, ToEach, Msg, NoticeType

(* Under the write lock nobody else has a notice or relays anything. *)
LEMMA OthersPrivate ==
  ASSUME RefInv, WriteLockFree
  PROVE  /\ Owed = {}
         /\ \A c \in Conn : \A s \in InHand(c) : s.msg.type \in PrivateType
<1>1. \A c \in Conn : lock[c] = "none"
  BY DEF WriteLockFree
<1>2. \A c \in Conn : \A s \in InHand(c) : s.msg.type \in PrivateType
  BY <1>1 DEF RefInv, InHandInv
<1> QED
  BY <1>2 DEF Owed, PrivateType

(* A goroutine that starts a hub operation that changes the registry. *)
LEMMA StartInHand ==
  ASSUME RefInv, WriteLockFree, NEW c \in Conn, NEW sends, NEW back,
         StartOp(c, "write", sends, back),
         \A s \in sends : s.msg.type \in NoticeType
  PROVE  InHandInv' /\ InHand(c)' = sends
                    /\ \A d \in Conn \ {c} : InHand(d)' = InHand(d)
<1>1. /\ reader' = [reader EXCEPT ![c] = "send"] /\ cur' = cur
      /\ lock' = [lock EXCEPT ![c] = "write"]
      /\ todo' = [todo EXCEPT ![c] = sends]
  BY DEF StartOp
<1>2. /\ \A d \in Conn \ {c} : /\ reader'[d] = reader[d]
                               /\ todo'[d] = todo[d]
      /\ reader'[c] = "send" /\ todo'[c] = sends /\ lock'[c] = "write"
  BY <1>1 DEF RefInv, TypeOK
<1>3. /\ InHand(c)' = sends
      /\ \A d \in Conn \ {c} : InHand(d)' = InHand(d)
  BY <1>1, <1>2 DEF InHand
<1>4. \A d \in Conn \ {c} : \A s \in InHand(d)' : s.msg.type \in PrivateType
  BY <1>3, OthersPrivate
<1>5. \A d \in Conn : reader'[d] = "push" => cur'[d] \notin todo'[d]
  BY <1>1, <1>2 DEF RefInv, InHandInv
<1> QED
  BY <1>2, <1>3, <1>4, <1>5 DEF InHandInv

(* Steps that leave the maps, the lock and what is in hand alone. *)
LEMMA SameInHand ==
  ASSUME InHandInv, UNCHANGED <<senders, receivers, lock, todo, cur>>,
         \A c \in Conn : reader'[c] = "push" <=> reader[c] = "push"
  PROVE  InHandInv' /\ Owed' = Owed /\ \A c \in Conn : InHand(c)' = InHand(c)
<1>1. \A c \in Conn : InHand(c)' = InHand(c)
  BY DEF InHand
<1>2. \A d \in Conn : Mapped(d)' <=> Mapped(d)
  BY MappedByRegistry
<1>3. \A c \in Conn : \A s \in InHand(c) :
        Mapped(s.to) => Mapped(s.to)'
  BY DEF Mapped, Senders, Receivers
<1>4. Owed' = Owed
  BY <1>1 DEF Owed
<1> QED
  BY <1>1, <1>3, <1>4 DEF InHandInv

(* Every step keeps connections that are not accepted without pumps. *)
LEMMA IdleStep ==
  ASSUME TypeOK, IdleInv, [Next]_vars
  PROVE  IdleInv'
<1> USE DEF IdleInv, TypeOK, registry, job, chan, peer
<1>1. ASSUME NEW c \in Conn, AcceptReceiver(c) PROVE IdleInv'
  BY <1>1 DEF AcceptReceiver, RegisterClient, StartOp
<1>2. ASSUME NEW c \in Conn, AcceptSender(c) PROVE IdleInv'
  BY <1>2 DEF AcceptSender
<1>3. ASSUME NEW c \in Conn, ReadRegister(c) PROVE IdleInv'
  BY <1>3 DEF ReadRegister, RegisterClient, StartOp
<1>4. ASSUME NEW c \in Conn, ReadMessage(c) PROVE IdleInv'
  BY <1>4 DEF ReadMessage, StartOp
<1>5. ASSUME NEW c \in Conn, ReadError(c) \/ UnregisterClient(c)
      PROVE  IdleInv'
  BY <1>5 DEF ReadError, UnregisterClient, StartOp
<1>6. ASSUME NEW c \in Conn, SendCheck(c) PROVE IdleInv'
  BY <1>6 DEF SendCheck
<1>7. ASSUME NEW c \in Conn, SendPush(c) \/ FinishOp(c) PROVE IdleInv'
  BY <1>7 DEF SendPush, FinishOp
<1>8. ASSUME NEW c \in Conn, ReaderClose(c) \/ ReaderHangup(c)
      PROVE  IdleInv'
  BY <1>8 DEF ReaderClose, CloseChannel, AfterCheck, ReaderHangup, CloseSocket
<1>9. ASSUME NEW c \in Conn, WriterClose(c) \/ WriterHangup(c)
      PROVE  IdleInv'
  BY <1>9 DEF WriterClose, CloseChannel, AfterCheck, WriterHangup, CloseSocket
<1>10. ASSUME NEW c \in Conn,
              WriteMessage(c) \/ WriteError(c) \/ WriteClose(c)
       PROVE  IdleInv'
  BY <1>10 DEF WriteMessage, WriteError, WriteClose
<1>11. ASSUME NEW c \in Conn, PeerGone(c) PROVE IdleInv'
  BY <1>11 DEF PeerGone
<1>12. CASE UNCHANGED vars
  BY <1>12 DEF vars
<1> QED
  BY <1>1, <1>2, <1>3, <1>4, <1>5, <1>6, <1>7, <1>8, <1>9, <1>10, <1>11,
     <1>12 DEF Next, ReaderStep, WriterStep, AllDone

-----------------------------------------------------------------------------
(* Three facts about a stream: what is written and what is still queued.   *)

(* Queueing a message adds it to the stream. *)
LEMMA QueuedIsLast ==
  ASSUME NEW S, NEW q \in Seq(S), NEW p \in Seq(S), NEW m \in S
  PROVE  q \o Append(p, m) = Append(q \o p, m)
OBVIOUS

(* Writing the first message queued leaves the stream as it was. *)
LEMMA WrittenIsNext ==
  ASSUME NEW S, NEW q \in Seq(S), NEW p \in Seq(S), p # <<>>
  PROVE  Append(q, Head(p)) \o Tail(p) = q \o p
<1>1. /\ Head(p) \in S /\ Tail(p) \in Seq(S)
      /\ Len(Tail(p)) = Len(p) - 1
      /\ \A i \in 1 .. Len(Tail(p)) : Tail(p)[i] = p[i + 1]
      /\ Head(p) = p[1]
  BY HeadTailProperties
<1>2. /\ Append(q, Head(p)) \in Seq(S)
      /\ Len(Append(q, Head(p))) = Len(q) + 1
      /\ \A i \in 1 .. Len(q) : Append(q, Head(p))[i] = q[i]
      /\ Append(q, Head(p))[Len(q) + 1] = Head(p)
  BY <1>1, AppendProperties
<1> DEFINE a == Append(q, Head(p))
           t == Tail(p)
<1> HIDE DEF a, t
<1>3. /\ Len(q) \in Nat /\ Len(p) \in Nat
      /\ q \o p \in Seq(S) /\ Len(q \o p) = Len(q) + Len(p)
      /\ \A i \in 1 .. Len(q) + Len(p) :
           (q \o p)[i] = IF i <= Len(q) THEN q[i] ELSE p[i - Len(q)]
  BY ConcatProperties, LenProperties
<1>4. /\ a \o t \in Seq(S) /\ Len(a \o t) = Len(q) + Len(p)
      /\ \A i \in 1 .. Len(q) + Len(p) :
           (a \o t)[i] = IF i <= Len(q) + 1 THEN a[i] ELSE t[i - (Len(q) + 1)]
  BY <1>1, <1>2, <1>3, ConcatProperties DEF a, t
<1>5. ASSUME NEW i \in 1 .. Len(q) + Len(p)
      PROVE  (a \o t)[i] = (q \o p)[i]
  <2>1. CASE i <= Len(q)
    BY <2>1, <1>2, <1>3, <1>4 DEF a
  <2>2. CASE i = Len(q) + 1
    BY <2>2, <1>1, <1>2, <1>3, <1>4 DEF a
  <2>3. CASE i > Len(q) + 1
    <3>1. /\ i - (Len(q) + 1) \in 1 .. Len(p) - 1
          /\ (i - (Len(q) + 1)) + 1 = i - Len(q)
      BY <2>3, <1>3
    <3>2. t[i - (Len(q) + 1)] = p[i - Len(q)]
      BY <3>1, <1>1 DEF t
    <3> QED
      BY <2>3, <3>2, <1>3, <1>4
  <2>4. Len(q) \in Nat /\ i \in Int
    BY <1>3
  <2>5. i <= Len(q) \/ i = Len(q) + 1 \/ i > Len(q) + 1
    BY <2>4
  <2> QED
    BY <2>1, <2>2, <2>3, <2>5
<1>6. a \o t = q \o p
  BY <1>3, <1>4, <1>5, SeqEqual
<1> QED
  BY <1>6 DEF a, t

(* Writing to a dead socket loses one message of the stream. *)
LEMMA LostIsWithout ==
  ASSUME NEW S, NEW q \in Seq(S), NEW p \in Seq(S), p # <<>>
  PROVE  /\ Len(q) + 1 \in 1 .. Len(q \o p)
         /\ q \o Tail(p) = Pres!Without(q \o p, Len(q) + 1)
<1>1. /\ Tail(p) \in Seq(S) /\ Len(Tail(p)) = Len(p) - 1
      /\ \A i \in 1 .. Len(Tail(p)) : Tail(p)[i] = p[i + 1]
      /\ Len(p) \in Nat \ {0} /\ Len(q) \in Nat
  BY HeadTailProperties, LenProperties
<1> DEFINE t == Tail(p)
           w == Pres!Without(q \o p, Len(q) + 1)
           n == Len(q) + Len(p) - 1
<1> HIDE DEF t
<1>2. /\ Len(q \o p) = Len(q) + Len(p)
      /\ \A i \in 1 .. Len(q) + Len(p) :
           (q \o p)[i] = IF i <= Len(q) THEN q[i] ELSE p[i - Len(q)]
  BY ConcatProperties
<1>3. /\ q \o t \in Seq(S) /\ Len(q \o t) = n
      /\ \A i \in 1 .. n :
           (q \o t)[i] = IF i <= Len(q) THEN q[i] ELSE t[i - Len(q)]
      /\ DOMAIN (q \o t) = 1 .. n
  <2>1. /\ q \o t \in Seq(S) /\ Len(q \o t) = Len(q) + Len(t)
        /\ \A i \in 1 .. Len(q) + Len(t) :
             (q \o t)[i] = IF i <= Len(q) THEN q[i] ELSE t[i - Len(q)]
    BY <1>1, ConcatProperties DEF t
  <2>2. Len(q) + Len(t) = n
    BY <1>1 DEF t
  <2> QED
    BY <2>1, <2>2, LenProperties
<1>4. /\ w = [i \in 1 .. n |->
                IF i < Len(q) + 1 THEN (q \o p)[i] ELSE (q \o p)[i + 1]]
  BY <1>2 DEF Pres!Without
<1>5. ASSUME NEW i \in 1 .. n
      PROVE  (q \o t)[i] = w[i]
  <2>1. CASE i < Len(q) + 1
    BY <2>1, <1>1, <1>2, <1>3, <1>4
  <2>2. CASE ~(i < Len(q) + 1)
    <3>1. /\ i + 1 \in 1 .. Len(q) + Len(p) /\ ~(i + 1 <= Len(q))
          /\ i - Len(q) \in 1 .. Len(p) - 1
          /\ (i - Len(q)) + 1 = (i + 1) - Len(q)
      BY <2>2, <1>1
    <3>2. w[i] = p[(i + 1) - Len(q)]
      BY <2>2, <3>1, <1>2, <1>4
    <3>3. t[i - Len(q)] = p[(i + 1) - Len(q)]
      BY <3>1, <1>1 DEF t
    <3> QED
      BY <2>2, <3>2, <3>3, <1>1, <1>3
  <2> QED
    BY <2>1, <2>2
<1>6. q \o t = w
  <2>1. q \o t = [i \in 1 .. n |-> (q \o t)[i]]
    BY <1>3, LenProperties
  <2>2. w = [i \in 1 .. n |-> w[i]]
    BY <1>4
  <2> HIDE DEF w, n
  <2> QED
    BY <2>1, <2>2, <1>5
<1> QED
  BY <1>1, <1>2, <1>6 DEF t

-----------------------------------------------------------------------------
(* Each step of the hub is a step of Presence or none.                     *)

Simulated == InHandInv' /\ [Pres!Next]_(Pres!vars)

(* Nothing Presence speaks of changes. *)
LEMMA Stutter ==
  ASSUME InHandInv', Owed' = Owed,
         UNCHANGED <<senders, receivers, registered, inbox, sendq, closed,
                     dropped>>,
         Unreliable' = Unreliable
  PROVE  Simulated
BY DEF Simulated, Pres!vars, Joined, Streams, Stream

(* RegisterClient is a join. *)
LEMMA RegisterJoins ==
  ASSUME HubAssumption, RefInv, NEW c \in Conn, ~registered[c],
         NEW back \in {"start", "read"}, RegisterClient(c, back),
         UNCHANGED <<inbox, sendq, closed, dropped>>, Unreliable' = Unreliable
  PROVE  Simulated
<1>1. /\ WriteLockFree /\ StartOp(c, "write", JoinNotices(c), back)
      /\ Owed = {}
  BY OthersPrivate DEF RegisterClient
<1>2. /\ InHandInv' /\ InHand(c)' = JoinNotices(c)
      /\ \A d \in Conn \ {c} : InHand(d)' = InHand(d)
  BY <1>1, StartInHand, NoticesInHand
<1>3. Owed' = JoinNotices(c)
  BY <1>1, <1>2, OthersPrivate, NoticesInHand
     DEF Owed, NoticeType, PrivateType
<1>4. Joined' = Joined \cup {c} /\ c \notin Joined
  BY DEF RegisterClient, Joined, RefInv, TypeOK
<1>5. Streams' = Streams
  BY DEF Streams, Stream
<1>6. Senders = Pres!Listed(senders) /\ Receivers = Pres!Listed(receivers)
  BY DEF Senders, Receivers, Pres!Listed
<1>7. Pres!Join(c)
  <2>1. CASE RoleOf[c] = "sender"
    <3>1. /\ senders' = [senders EXCEPT ![IdOf[c]] = c]
          /\ receivers' = receivers
      BY <2>1 DEF RegisterClient
    <3>2. Owed' = Pres!ToEach(Pres!Listed(receivers),
                              Pres!Msg("sender_joined", IdOf[c]))
      BY <1>3, <1>6, <2>1
         DEF JoinNotices, ToEach, Msg, Pres!ToEach, Pres!Msg
    <3> QED
      BY <1>1, <1>4, <1>5, <2>1, <3>1, <3>2 DEF Pres!Join
  <2>2. CASE RoleOf[c] = "receiver"
    <3>1. /\ receivers' = [receivers EXCEPT ![IdOf[c]] = c]
          /\ senders' = senders
      BY <2>2 DEF RegisterClient
    <3>2. Owed' = Pres!ToEach(Pres!Listed(senders),
                              Pres!Msg("receiver_joined", IdOf[c]))
                    \cup {[to |-> c, msg |-> Pres!Msg("sender_joined", i)] :
                            i \in {j \in Ident : senders[j] # NoConn}}
      BY <1>3, <1>6, <2>2
         DEF JoinNotices, ToEach, Msg, Pres!ToEach, Pres!Msg
    <3> QED
      BY <1>1, <1>4, <1>5, <2>2, <3>1, <3>2 DEF Pres!Join
  <2> QED
    BY <2>1, <2>2 DEF HubAssumption
<1> QED
  BY <1>2, <1>7 DEF Simulated, Pres!Next

(* UnregisterClient is a leave. *)
LEMMA UnregisterLeaves ==
  ASSUME HubAssumption, RefInv, NEW c \in Conn, UnregisterClient(c)
  PROVE  Simulated
<1>1. /\ WriteLockFree /\ StartOp(c, "write", LeaveNotices(c), "exit")
      /\ Owed = {}
      /\ UNCHANGED <<inbox, sendq, closed, dropped, sock, registered>>
  BY OthersPrivate DEF UnregisterClient, chan, peer
<1>2. /\ InHandInv' /\ InHand(c)' = LeaveNotices(c)
      /\ \A d \in Conn \ {c} : InHand(d)' = InHand(d)
  BY <1>1, StartInHand, NoticesInHand
<1>3. Owed' = LeaveNotices(c)
  BY <1>1, <1>2, OthersPrivate, NoticesInHand
     DEF Owed, NoticeType, PrivateType
<1>4. Joined' = Joined /\ Streams' = Streams /\ Unreliable' = Unreliable
  BY <1>1 DEF Joined, Streams, Stream, Unreliable
<1>5. Senders = Pres!Listed(senders) /\ Receivers = Pres!Listed(receivers)
  BY DEF Senders, Receivers, Pres!Listed
<1>6. Pres!Leave(c)
  <2>1. CASE RoleOf[c] = "sender"
    <3>1. /\ senders' = [senders EXCEPT ![IdOf[c]] = NoConn]
          /\ receivers' = receivers
      BY <2>1 DEF UnregisterClient, DeleteEntry
    <3>2. Owed' = Pres!ToEach(Pres!Listed(receivers),
                              Pres!Msg("sender_left", IdOf[c]))
      BY <1>3, <1>5, <2>1
         DEF LeaveNotices, ToEach, Msg, Pres!ToEach, Pres!Msg
    <3> QED
      BY <1>1, <1>4, <2>1, <3>1, <3>2 DEF Pres!Leave
  <2>2. CASE RoleOf[c] = "receiver"
    <3>1. /\ receivers' = [receivers EXCEPT ![IdOf[c]] = NoConn]
          /\ senders' = senders
      BY <2>2 DEF UnregisterClient, DeleteEntry
    <3>2. Owed' = Pres!ToEach(Pres!Listed(senders),
                              Pres!Msg("receiver_left", IdOf[c]))
      BY <1>3, <1>5, <2>2
         DEF LeaveNotices, ToEach, Msg, Pres!ToEach, Pres!Msg
    <3> QED
      BY <1>1, <1>4, <2>2, <3>1, <3>2 DEF Pres!Leave
  <2> QED
    BY <2>1, <2>2 DEF HubAssumption
<1> QED
  BY <1>2, <1>6 DEF Simulated, Pres!Next

(* A message that is read leads to Sends, not to any change of Presence. *)
LEMMA ReadStutters ==
  ASSUME HubAssumption, RefInv, NEW c \in Conn, ReadMessage(c)
  PROVE  Simulated
<1>1. PICK m \in PeerMessages(c) :
        /\ m.type # "register"
        /\ StartOp(c, RouteLock(m), Route(c, m), "read")
  BY DEF ReadMessage
<1>2. /\ reader' = [reader EXCEPT ![c] = "send"] /\ cur' = cur
      /\ lock' = [lock EXCEPT ![c] = RouteLock(m)]
      /\ todo' = [todo EXCEPT ![c] = Route(c, m)]
      /\ reader[c] = "read"
      /\ UNCHANGED <<senders, receivers, registered, inbox, sendq, closed,
                     dropped, sock>>
  BY <1>1 DEF StartOp, ReadMessage, registry, chan
<1>3. /\ \A d \in Conn \ {c} : /\ reader'[d] = reader[d]
                               /\ todo'[d] = todo[d] /\ lock'[d] = lock[d]
      /\ reader'[c] = "send" /\ todo'[c] = Route(c, m)
      /\ lock'[c] = RouteLock(m)
  BY <1>2 DEF RefInv, TypeOK
<1>4. /\ InHand(c)' = Route(c, m)
      /\ \A d \in Conn \ {c} : InHand(d)' = InHand(d)
  BY <1>2, <1>3 DEF InHand
<1>5. \A d \in Conn : Mapped(d)' <=> Mapped(d)
  BY <1>2, MappedByRegistry
<1>6. \A s \in Route(c, m) :
        /\ s.to \in Conn
        /\ \/ s.msg.type \in RelayedType /\ RouteLock(m) = "read"
                /\ Mapped(s.to)
           \/ s.msg.type \in PrivateType
  <2>1. Route(c, m) \in SUBSET Delivery
    BY PeerMessagesTyped, RouteTyped DEF RefInv
  <2> QED
    BY <1>1, <2>1, RouteInHand DEF RefInv, Delivery
<1>7. \A d \in Conn : \A s \in InHand(d) : s.to \in Conn
  BY DEF RefInv, TypeOK, InHand, Delivery
<1>8. InHandInv'
  <2>1. \A d \in Conn : reader'[d] = "push" => cur'[d] \notin todo'[d]
    BY <1>2, <1>3 DEF RefInv, InHandInv
  <2>2. ASSUME NEW d \in Conn, NEW s \in InHand(d)'
        PROVE  \/ s.msg.type \in NoticeType /\ lock'[d] = "write"
               \/ s.msg.type \in RelayedType /\ lock'[d] = "read"
                    /\ Mapped(s.to)'
               \/ s.msg.type \in PrivateType
    <3>1. CASE d = c
      BY <3>1, <1>3, <1>4, <1>5, <1>6
    <3>2. CASE d # c
      BY <3>2, <1>3, <1>4, <1>5, <1>7 DEF RefInv, InHandInv
    <3> QED
      BY <3>1, <3>2
  <2> QED
    BY <2>1, <2>2 DEF InHandInv
<1>9. Owed' = Owed
  <2>1. lock[c] = "none"
    BY <1>2 DEF RefInv, LockInv, TypeOK
  <2>2. \A s \in InHand(c) \cup InHand(c)' : s.msg.type \notin NoticeType
    BY <1>4, <1>6, <2>1 DEF RefInv, InHandInv, NoticeType, RelayedType,
       PrivateType
  <2> QED
    BY <1>4, <2>2 DEF Owed, NoticeType
<1>10. Unreliable' = Unreliable
  BY <1>2 DEF Unreliable
<1> QED
  BY <1>2, <1>8, <1>9, <1>10, Stutter

(* What is in hand of a goroutine goes down by one delivery. *)
LEMMA OneLess ==
  ASSUME RefInv, NEW c \in Conn, NEW s \in InHand(c),
         UNCHANGED <<senders, receivers, lock>>,
         InHand(c)' = InHand(c) \ {s},
         \A d \in Conn \ {c} : InHand(d)' = InHand(d),
         \A d \in Conn : reader'[d] = "push" => cur'[d] \notin todo'[d]
  PROVE  /\ InHandInv'
         /\ Owed' = Owed \ {s}
         /\ s.msg.type \in NoticeType => s \in Owed
         /\ s.msg.type \notin NoticeType => Owed' = Owed
<1>1. \A d \in Conn : Mapped(d)' <=> Mapped(d)
  BY MappedByRegistry
<1>2. \A d \in Conn : \A t \in InHand(d) : t.to \in Conn
  BY DEF RefInv, TypeOK, InHand, Delivery
<1>3. InHandInv'
  BY <1>1, <1>2 DEF RefInv, InHandInv
<1>4. s.msg.type \in NoticeType => s \in Owed
  BY DEF Owed, NoticeType
<1>5. CASE s.msg.type \in NoticeType
  <2>1. lock[c] = "write"
    BY <1>5 DEF RefInv, InHandInv, NoticeType, RelayedType, PrivateType
  <2>2. \A d \in Conn \ {c} : lock[d] = "none"
    BY <2>1 DEF RefInv, LockInv
  <2>3. \A d \in Conn \ {c} : \A t \in InHand(d) :
          t.msg.type \notin NoticeType
    BY <2>2 DEF RefInv, InHandInv, NoticeType, RelayedType, PrivateType
  <2>4. Owed' = Owed \ {s}
    BY <2>3 DEF Owed, NoticeType
  <2> QED
    BY <1>3, <1>4, <1>5, <2>4
<1>6. CASE s.msg.type \notin NoticeType
  <2>1. Owed' = Owed /\ s \notin Owed
    BY <1>6 DEF Owed, NoticeType
  <2> QED
    BY <1>3, <1>6, <2>1
<1> QED
  BY <1>5, <1>6

(* A Send that finds the channel closed is a notice missed, or nothing;    *)
(* else it is still in hand.                                               *)
LEMMA CheckSimulated ==
  ASSUME HubAssumption, RefInv, NEW c \in Conn, SendCheck(c)
  PROVE  Simulated
<1>1. PICK s \in todo[c] :
        /\ todo' = [todo EXCEPT ![c] = @ \ {s}]
        /\ IF closed[s.to]
           THEN UNCHANGED <<reader, cur>>
           ELSE /\ reader' = [reader EXCEPT ![c] = "push"]
                /\ cur' = [cur EXCEPT ![c] = s]
  BY DEF SendCheck, NextSends
<1>2. /\ reader[c] = "send"
      /\ UNCHANGED <<senders, receivers, registered, lock, inbox, sendq,
                     closed, dropped, sock>>
  BY DEF SendCheck, registry, chan, peer
<1>3. s \in Delivery /\ s.to \in Conn
  BY DEF RefInv, TypeOK, Delivery
<1>4. /\ \A d \in Conn \ {c} : todo'[d] = todo[d]
      /\ todo'[c] = todo[c] \ {s}
  BY <1>1 DEF RefInv, TypeOK
<1>5. InHand(c) = todo[c]
  BY <1>2 DEF InHand
<1>6. Joined' = Joined /\ Streams' = Streams /\ Unreliable' = Unreliable
  BY <1>2 DEF Joined, Streams, Stream, Unreliable
<1>7. CASE closed[s.to]
  <2>1. /\ InHand(c)' = InHand(c) \ {s}
        /\ \A d \in Conn \ {c} : InHand(d)' = InHand(d)
        /\ \A d \in Conn : reader'[d] = "push" => cur'[d] \notin todo'[d]
    BY <1>1, <1>2, <1>4, <1>5, <1>7 DEF InHand, RefInv, InHandInv
  <2>2. /\ InHandInv' /\ Owed' = Owed \ {s}
        /\ s.msg.type \in NoticeType => s \in Owed
        /\ s.msg.type \notin NoticeType => Owed' = Owed
    BY <1>2, <1>5, <2>1, OneLess
  <2>3. CASE s.msg.type \in NoticeType
    <3>1. Unreliable' = Unreliable \cup {s.to}
      BY <1>3, <1>6, <1>7 DEF Unreliable
    <3>2. Pres!Miss(s)
      BY <1>2, <1>6, <2>2, <2>3, <3>1 DEF Pres!Miss
    <3> QED
      BY <2>2, <2>3, <3>2 DEF Simulated, Pres!Next
  <2>4. CASE s.msg.type \notin NoticeType
    BY <1>2, <1>6, <2>2, <2>4, Stutter
  <2> QED
    BY <2>3, <2>4
<1>8. CASE ~closed[s.to]
  <2>1. /\ reader' = [reader EXCEPT ![c] = "push"]
        /\ cur' = [cur EXCEPT ![c] = s]
    BY <1>1, <1>8
  <2>2. /\ reader'[c] = "push" /\ cur'[c] = s
        /\ \A d \in Conn \ {c} : reader'[d] = reader[d] /\ cur'[d] = cur[d]
    BY <2>1 DEF RefInv, TypeOK
  <2>3. \A d \in Conn : InHand(d)' = InHand(d)
    <3>1. InHand(c)' = InHand(c)
      BY <1>4, <1>5, <2>2 DEF InHand
    <3>2. \A d \in Conn \ {c} : InHand(d)' = InHand(d)
      BY <1>4, <2>2 DEF InHand
    <3> QED
      BY <3>1, <3>2
  <2>4. \A d \in Conn : reader'[d] = "push" => cur'[d] \notin todo'[d]
    BY <1>4, <2>2 DEF RefInv, InHandInv
  <2>5. \A d \in Conn : Mapped(d)' <=> Mapped(d)
    BY <1>2, MappedByRegistry
  <2>6. \A d \in Conn : \A t \in InHand(d) : t.to \in Conn
    BY DEF RefInv, TypeOK, InHand, Delivery
  <2>7. InHandInv'
    BY <1>2, <2>3, <2>4, <2>5, <2>6 DEF RefInv, InHandInv
  <2>8. Owed' = Owed
    BY <2>3 DEF Owed
  <2> QED
    BY <1>2, <1>6, <2>7, <2>8, Stutter
<1> QED
  BY <1>7, <1>8

(* A push gives a notice, relays a message or answers; a full channel      *)
(* makes the recipient unreliable.                                         *)
LEMMA PushSimulated ==
  ASSUME HubAssumption, RefInv, NEW c \in Conn, SendPush(c)
  PROVE  Simulated
<1> DEFINE s == cur[c]
           r == cur[c].to
<1>1. /\ reader[c] = "push"
      /\ reader' = [reader EXCEPT ![c] = "send"]
      /\ UNCHANGED <<senders, receivers, registered, lock, todo, inbox,
                     closed, sock>>
  BY DEF SendPush, registry, peer
<1>2. s \in Delivery /\ r \in Conn /\ s.msg \in Message /\ s.msg.id \in Ident
      /\ s.msg = [type |-> s.msg.type, id |-> s.msg.id]
  BY DEF RefInv, TypeOK, Delivery, Message
<1>3. /\ reader'[c] = "send"
      /\ \A d \in Conn \ {c} : reader'[d] = reader[d] /\ cur'[d] = cur[d]
  BY <1>1 DEF SendPush, RefInv, TypeOK
<1>4. s \in InHand(c) /\ s \notin todo[c]
  BY <1>1 DEF InHand, RefInv, InHandInv
<1>5. /\ InHand(c)' = InHand(c) \ {s}
      /\ \A d \in Conn \ {c} : InHand(d)' = InHand(d)
  BY <1>1, <1>3, <1>4 DEF InHand
<1>6. \A d \in Conn : reader'[d] = "push" => cur'[d] \notin todo'[d]
  BY <1>1, <1>3 DEF RefInv, InHandInv
<1>7. /\ InHandInv' /\ Owed' = Owed \ {s}
      /\ s.msg.type \in NoticeType => s \in Owed
      /\ s.msg.type \notin NoticeType => Owed' = Owed
  BY <1>1, <1>4, <1>5, <1>6, OneLess
<1>8. Joined' = Joined
  BY <1>1 DEF Joined
<1>9. CASE HasRoom(r)
  <2>1. /\ sendq' = [sendq EXCEPT ![r] = Append(@, s.msg)]
        /\ dropped' = dropped
    BY <1>9 DEF SendPush
  <2>2. Unreliable' = Unreliable
    BY <1>1, <2>1 DEF Unreliable
  <2>3. Streams' = [Streams EXCEPT ![r] = Append(@, s.msg)]
    <3> HIDE DEF s, r
    <3>1. inbox[r] \in Seq(Message) /\ sendq[r] \in Seq(Message)
          /\ s.msg \in Message
      BY <1>2 DEF RefInv, TypeOK
    <3>2. inbox[r] \o Append(sendq[r], s.msg)
            = Append(inbox[r] \o sendq[r], s.msg)
      <4>1. PICK q \in Seq(Message), p \in Seq(Message), m \in Message :
              q = inbox[r] /\ p = sendq[r] /\ m = s.msg
        BY <3>1
      <4>2. q \o Append(p, m) = Append(q \o p, m)
        BY QueuedIsLast
      <4> QED
        BY <4>1, <4>2
    <3>3. \A d \in Conn : sendq'[d] = IF d = r THEN Append(sendq[r], s.msg)
                                               ELSE sendq[d]
      BY <1>2, <2>1 DEF RefInv, TypeOK
    <3>4. \A d \in Conn : Stream(d)' = IF d = r THEN Append(Stream(r), s.msg)
                                                ELSE Stream(d)
      BY <1>1, <3>2, <3>3 DEF Stream, s, r
    <3> QED
      BY <1>2, <3>4 DEF Streams
  <2>4. CASE s.msg.type \in NoticeType
    <3>1. Pres!Give(s)
      BY <1>1, <1>7, <1>8, <2>2, <2>3, <2>4 DEF Pres!Give, Pres!Put
    <3> QED
      BY <1>7, <2>4, <3>1 DEF Simulated, Pres!Next
  <2>5. CASE s.msg.type \in RelayedType
    <3>1. lock[c] = "read" /\ Mapped(r)
      BY <1>4, <2>5 DEF RefInv, InHandInv, NoticeType, RelayedType,
         PrivateType
    <3>2. \A d \in Conn : lock[d] # "write"
      BY <3>1 DEF RefInv, LockInv
    <3>3. \A d \in Conn : \A t \in InHand(d) : t.msg.type \notin NoticeType
      BY <3>2 DEF RefInv, InHandInv, NoticeType, RelayedType, PrivateType
    <3>4. Owed = {} /\ Owed' = Owed
      BY <1>7, <2>5, <3>3 DEF Owed, NoticeType, RelayedType
    <3>5. r \in Pres!Listed(senders) \cup Pres!Listed(receivers)
      BY <3>1 DEF Mapped, Senders, Receivers, Pres!Listed
    <3>6. Pres!Relay(r, s.msg) /\ s.msg \in Pres!Message
      BY <1>1, <1>2, <1>8, <2>2, <2>3, <2>5, <3>4, <3>5
         DEF Pres!Relay, Pres!Put, Pres!Message, Pres!Relayed, RelayedType
    <3> QED
      BY <1>2, <1>7, <3>6 DEF Simulated, Pres!Next
  <2>6. CASE s.msg.type \in PrivateType
    <3>1. Owed' = Owed
      BY <1>7, <2>6 DEF NoticeType, PrivateType
    <3>2. Pres!Tell(r, s.msg) /\ s.msg \in Pres!Message
      BY <1>1, <1>2, <1>8, <2>2, <2>3, <2>6, <3>1
         DEF Pres!Tell, Pres!Put, Pres!Message, Pres!Private, PrivateType
    <3> QED
      BY <1>2, <1>7, <3>2 DEF Simulated, Pres!Next
  <2> QED
    BY <1>4, <2>4, <2>5, <2>6 DEF RefInv, InHandInv
<1>10. CASE ~HasRoom(r)
  <2>1. sendq' = sendq /\ dropped' = [dropped EXCEPT ![r] = TRUE]
    BY <1>10 DEF SendPush
  <2>2. Unreliable' = Unreliable \cup {r}
    <3>1. \A d \in Conn : dropped'[d] <=> dropped[d] \/ d = r
      BY <2>1 DEF RefInv, TypeOK
    <3> QED
      BY <1>1, <1>2, <3>1 DEF Unreliable
  <2>3. Streams' = Streams
    BY <1>1, <2>1 DEF Streams, Stream
  <2>4. CASE s.msg.type \in NoticeType
    <3>1. Pres!Miss(s)
      BY <1>1, <1>7, <1>8, <2>2, <2>3, <2>4 DEF Pres!Miss
    <3> QED
      BY <1>7, <2>4, <3>1 DEF Simulated, Pres!Next
  <2>5. CASE s.msg.type \notin NoticeType
    <3>1. Pres!Break(r)
      BY <1>1, <1>7, <1>8, <2>2, <2>3, <2>5 DEF Pres!Break
    <3> QED
      BY <1>2, <1>7, <3>1 DEF Simulated, Pres!Next
  <2> QED
    BY <2>4, <2>5
<1> QED
  BY <1>9, <1>10

(* WritePump moves a message from the channel to the socket, or loses it   *)
(* when the peer has gone.                                                 *)
LEMMA WriteSimulated ==
  ASSUME RefInv, NEW c \in Conn, WriteMessage(c)
  PROVE  Simulated
<1>1. /\ UNCHANGED <<senders, receivers, registered, reader, lock, todo, cur,
                     closed, dropped, sock>>
      /\ sendq[c] # <<>> /\ sock[c] \in {"up", "lost"}
  BY DEF WriteMessage, registry, job
<1>2. InHandInv' /\ Owed' = Owed
  BY <1>1, SameInHand DEF RefInv
<1>3. Joined' = Joined /\ Unreliable' = Unreliable
  BY <1>1 DEF Joined, Unreliable
<1>4. \A d \in Conn : sendq'[d] = IF d = c THEN Tail(sendq[c]) ELSE sendq[d]
  BY DEF WriteMessage, RefInv, TypeOK
<1>5. PICK q \in Seq(Message), p \in Seq(Message) :
        q = inbox[c] /\ p = sendq[c]
  BY DEF RefInv, TypeOK
<1>6. CASE sock[c] = "up"
  <2>1. \A d \in Conn : inbox'[d] = IF d = c
                                   THEN Append(inbox[c], Head(sendq[c]))
                                   ELSE inbox[d]
    BY <1>6 DEF WriteMessage, RefInv, TypeOK
  <2>2. Append(q, Head(p)) \o Tail(p) = q \o p
    BY <1>1, <1>5, WrittenIsNext
  <2>3. Append(inbox[c], Head(sendq[c])) \o Tail(sendq[c])
          = inbox[c] \o sendq[c]
    BY <1>5, <2>2
  <2>4. \A d \in Conn : Stream(d)' = Stream(d)
    BY <1>4, <2>1, <2>3 DEF Stream
  <2>5. Streams' = Streams
    BY <2>4 DEF Streams
  <2> QED
    BY <1>1, <1>2, <1>3, <2>5 DEF Simulated, Pres!vars
<1>7. CASE sock[c] = "lost"
  <2>1. inbox' = inbox /\ c \in Unreliable
    BY <1>7 DEF WriteMessage, Unreliable
  <2>2. /\ Len(q) + 1 \in 1 .. Len(q \o p)
        /\ q \o Tail(p) = Pres!Without(q \o p, Len(q) + 1)
    BY <1>1, <1>5, LostIsWithout
  <2>3. /\ Len(inbox[c]) + 1 \in 1 .. Len(Stream(c))
        /\ inbox[c] \o Tail(sendq[c])
             = Pres!Without(Stream(c), Len(inbox[c]) + 1)
    BY <1>5, <2>2 DEF Stream
  <2>4. \A d \in Conn :
          Stream(d)' = IF d = c
                       THEN Pres!Without(Stream(c), Len(inbox[c]) + 1)
                       ELSE Stream(d)
    BY <1>4, <2>1, <2>3 DEF Stream
  <2>5. Streams' = [Streams EXCEPT ![c] =
                      Pres!Without(@, Len(inbox[c]) + 1)]
    BY <2>4 DEF Streams
  <2>6. Len(inbox[c]) + 1 \in 1 .. Len(Streams[c])
    BY <2>3 DEF Streams
  <2>7. Pres!Lose(c)
    BY <1>1, <1>2, <1>3, <2>1, <2>5, <2>6 DEF Pres!Lose
  <2> QED
    BY <1>2, <2>7 DEF Simulated, Pres!Next
<1> QED
  BY <1>1, <1>6, <1>7

(* The close frame goes to a closed client only. *)
LEMMA WriteCloseSimulated ==
  ASSUME HubAssumption, RefInv, NEW c \in Conn, WriteClose(c)
  PROVE  Simulated
<1>1. /\ UNCHANGED <<senders, receivers, registered, reader, lock, todo, cur,
                     closed, sendq, dropped, sock>>
      /\ sendq[c] = <<>> /\ c \in Unreliable
  BY DEF WriteClose, registry, job, chan, Unreliable
<1>2. InHandInv' /\ Owed' = Owed
  BY <1>1, SameInHand DEF RefInv
<1>3. Joined' = Joined /\ Unreliable' = Unreliable
  BY <1>1 DEF Joined, Unreliable
<1> DEFINE m == Msg("close_frame", IdOf[c])
<1>4. CASE sock[c] = "up"
  <2>1. m \in Pres!Message /\ m \in Message /\ m.type = "close_frame"
    BY DEF HubAssumption, Msg, Message, MsgType, Pres!Message, Pres!Notice,
       Pres!Relayed, Pres!Private
  <2> HIDE DEF m
  <2>2. \A d \in Conn : inbox'[d] = IF d = c THEN Append(inbox[c], m)
                                             ELSE inbox[d]
    BY <1>4 DEF WriteClose, RefInv, TypeOK, m
  <2>3. PICK q \in Seq(Message) : q = inbox[c]
    BY DEF RefInv, TypeOK
  <2>4. q \o <<>> = q /\ Append(q, m) \o <<>> = Append(q, m)
    BY <2>1
  <2>5. \A d \in Conn :
          Stream(d)' = IF d = c THEN Append(Stream(c), m) ELSE Stream(d)
    BY <1>1, <2>2, <2>3, <2>4 DEF Stream
  <2>6. Streams' = [Streams EXCEPT ![c] = Append(@, m)]
    BY <2>5 DEF Streams
  <2>7. Pres!Tell(c, m)
    BY <1>1, <1>2, <1>3, <2>1, <2>6 DEF Pres!Tell, Pres!Put
  <2> QED
    BY <1>2, <2>1, <2>7 DEF Simulated, Pres!Next
<1>5. CASE sock[c] # "up"
  <2>1. inbox' = inbox
    BY <1>5 DEF WriteClose
  <2> QED
    BY <1>1, <1>2, <1>3, <2>1, Stutter
<1> QED
  BY <1>4, <1>5

(* A connection that closes or breaks becomes unreliable. *)
LEMMA Breaks ==
  ASSUME RefInv, NEW c \in Conn,
         UNCHANGED <<senders, receivers, registered, lock, todo, cur, sendq,
                     dropped, inbox>>,
         \A d \in Conn : reader'[d] = "push" <=> reader[d] = "push",
         Unreliable' = Unreliable \cup {c}
  PROVE  Simulated
<1>1. InHandInv' /\ Owed' = Owed
  BY SameInHand DEF RefInv
<1>2. Joined' = Joined /\ Streams' = Streams
  BY DEF Joined, Streams, Stream
<1>3. Pres!Break(c)
  BY <1>1, <1>2 DEF Pres!Break
<1> QED
  BY <1>1, <1>3 DEF Simulated, Pres!Next

LEMMA CloseSimulated ==
  ASSUME RefInv, NEW c \in Conn,
         ReaderClose(c) \/ ReaderHangup(c) \/ WriterClose(c)
           \/ WriterHangup(c) \/ PeerGone(c)
  PROVE  Simulated
<1>1. UNCHANGED <<senders, receivers, registered, lock, todo, cur, sendq,
                  dropped>>
  BY DEF ReaderClose, ReaderHangup, WriterClose, WriterHangup, PeerGone,
     registry, job, chan
<1>2. inbox' = inbox
  BY DEF ReaderClose, ReaderHangup, WriterClose, WriterHangup, PeerGone, peer
<1>3. \A d \in Conn : reader'[d] = "push" <=> reader[d] = "push"
  BY DEF ReaderClose, ReaderHangup, WriterClose, WriterHangup, PeerGone,
     AfterCheck, RefInv, TypeOK
<1>4. \/ closed' = [closed EXCEPT ![c] = TRUE] /\ sock' = sock
      \/ sock' = [sock EXCEPT ![c] = "closed"] /\ closed' = closed
      \/ sock' = [sock EXCEPT ![c] = "lost"] /\ closed' = closed
  BY DEF ReaderClose, ReaderHangup, WriterClose, WriterHangup, PeerGone,
     CloseChannel, CloseSocket, chan, peer
<1>5. Unreliable' = Unreliable \cup {c}
  <2>1. \A d \in Conn \ {c} : closed'[d] = closed[d] /\ sock'[d] = sock[d]
    BY <1>4 DEF RefInv, TypeOK
  <2>2. closed'[c] \/ sock'[c] \in {"lost", "closed"}
    BY <1>4 DEF RefInv, TypeOK
  <2> QED
    BY <1>1, <2>1, <2>2 DEF Unreliable
<1> QED
  BY <1>1, <1>2, <1>3, <1>5, Breaks

(* Accepting a sender, a failing read or write, and the return of a hub    *)
(* operation change nothing the clients can see.                           *)
LEMMA QuietSimulated ==
  ASSUME RefInv, NEW c \in Conn,
         AcceptSender(c) \/ ReadError(c) \/ WriteError(c)
  PROVE  Simulated
<1>1. UNCHANGED <<senders, receivers, registered, lock, todo, cur, sendq,
                  closed, dropped, inbox>>
  BY DEF AcceptSender, ReadError, WriteError, registry, job, chan, peer
<1>2. \A d \in Conn : reader'[d] = "push" <=> reader[d] = "push"
  BY DEF AcceptSender, ReadError, WriteError, RefInv, TypeOK
<1>3. \A d \in Conn : sock'[d] \in {"lost", "closed"}
                       <=> sock[d] \in {"lost", "closed"}
  BY DEF AcceptSender, ReadError, WriteError, peer, RefInv, TypeOK, IdleInv
<1>4. Unreliable' = Unreliable
  BY <1>1, <1>3 DEF Unreliable
<1> QED
  BY <1>1, <1>2, <1>4, SameInHand, Stutter DEF RefInv

LEMMA FinishSimulated ==
  ASSUME RefInv, NEW c \in Conn, FinishOp(c)
  PROVE  Simulated
<1>1. /\ UNCHANGED <<senders, receivers, registered, todo, cur, sendq, closed,
                     dropped, inbox, sock>>
      /\ reader[c] = "send" /\ todo[c] = {}
  BY DEF FinishOp, registry, chan, peer
<1>2. /\ reader'[c] # "push" /\ \A d \in Conn \ {c} : reader'[d] = reader[d]
      /\ \A d \in Conn \ {c} : lock'[d] = lock[d]
  BY DEF FinishOp, RefInv, TypeOK
<1>3. \A d \in Conn : InHand(d)' = InHand(d)
  BY <1>1, <1>2 DEF InHand
<1>4. InHand(c) = {}
  BY <1>1 DEF InHand
<1>5. \A d \in Conn : Mapped(d)' <=> Mapped(d)
  BY <1>1, MappedByRegistry
<1>6. \A d \in Conn : \A t \in InHand(d) : t.to \in Conn
  BY DEF RefInv, TypeOK, InHand, Delivery
<1>7. InHandInv'
  BY <1>1, <1>2, <1>3, <1>4, <1>5, <1>6 DEF RefInv, InHandInv
<1>8. Owed' = Owed /\ Unreliable' = Unreliable
  BY <1>1, <1>3 DEF Owed, Unreliable
<1> QED
  BY <1>1, <1>7, <1>8, Stutter

(* Both ways to register are joins of a connection that has not joined. *)
LEMMA RegisterSimulated ==
  ASSUME HubAssumption, RefInv, NEW c \in Conn,
         AcceptReceiver(c) \/ ReadRegister(c)
  PROVE  Simulated
<1>1. CASE AcceptReceiver(c)
  <2>1. /\ ~registered[c] /\ sock[c] = "none" /\ RegisterClient(c, "start")
        /\ UNCHANGED <<inbox, sendq, closed, dropped>>
        /\ sock' = [sock EXCEPT ![c] = "up"]
    BY <1>1 DEF AcceptReceiver, RefInv, IdleInv, chan
  <2>2. Unreliable' = Unreliable
    BY <2>1 DEF Unreliable, RefInv, TypeOK
  <2> QED
    BY <2>1, <2>2, RegisterJoins
<1>2. CASE ReadRegister(c)
  <2>1. /\ RegisterClient(c, "read")
        /\ UNCHANGED <<inbox, sendq, closed, dropped, sock>>
    BY <1>2 DEF ReadRegister, chan, peer
  <2>2. Unreliable' = Unreliable
    BY <2>1 DEF Unreliable
  <2>3. ~registered[c]
    BY <1>2 DEF ReadRegister, PeerMessages, Msg
  <2> QED
    BY <2>1, <2>2, <2>3, RegisterJoins
<1> QED
  BY <1>1, <1>2

LEMMA StepSimulated ==
  ASSUME HubAssumption, RefInv, [Next]_vars
  PROVE  Simulated
<1>1. ASSUME NEW c \in Conn, ReaderStep(c) PROVE Simulated
  BY <1>1, RegisterSimulated, ReadStutters, QuietSimulated, UnregisterLeaves,
     CheckSimulated, PushSimulated, FinishSimulated, CloseSimulated
     DEF ReaderStep
<1>2. ASSUME NEW c \in Conn, WriterStep(c) PROVE Simulated
  BY <1>2, WriteSimulated, QuietSimulated, WriteCloseSimulated,
     CloseSimulated DEF WriterStep
<1>3. ASSUME NEW c \in Conn,
             AcceptReceiver(c) \/ AcceptSender(c) \/ PeerGone(c)
      PROVE  Simulated
  BY <1>3, RegisterSimulated, QuietSimulated, CloseSimulated
<1>4. CASE UNCHANGED vars
  <2>1. UNCHANGED <<senders, receivers, registered, reader, lock, todo, cur,
                    sendq, closed, dropped, inbox, sock>>
    BY <1>4 DEF vars
  <2>2. Unreliable' = Unreliable
    BY <2>1 DEF Unreliable
  <2> QED
    BY <2>1, <2>2, SameInHand, Stutter DEF RefInv
<1> QED
  BY <1>1, <1>2, <1>3, <1>4 DEF Next, AllDone

(* The hub starts as Presence does. *)
LEMMA InitSimulated ==
  ASSUME HubAssumption, Init
  PROVE  InHandInv /\ IdleInv /\ Pres!Init
<1>1. \A c \in Conn : InHand(c) = {}
  BY DEF Init, InHand
<1>2. InHandInv
  BY <1>1 DEF Init, InHandInv
<1>3. IdleInv
  BY DEF Init, IdleInv
<1>4. Owed = {} /\ Joined = {} /\ Unreliable = {}
  BY <1>1 DEF Init, Owed, Joined, Unreliable
<1>5. Streams = [c \in Conn |-> <<>>]
  BY DEF Init, Streams, Stream
<1> QED
  BY <1>2, <1>3, <1>4, <1>5 DEF Init, Pres!Init

(* The hub implements Presence: whatever its goroutines interleave, joins  *)
(* and leaves happen one at a time with all their notices, and nothing is  *)
(* relayed in between (hub.go:76-155, 158-270).                            *)
THEOREM HubImplementsPresence ==
  ASSUME HubAssumption PROVE Spec => ImplementsPresence
<1>1. Init => InHandInv /\ IdleInv /\ Pres!Init
  BY InitSimulated
<1>2. TypeOK /\ LockInv /\ InHandInv /\ IdleInv /\ [Next]_vars
        => InHandInv' /\ IdleInv' /\ [Pres!Next]_(Pres!vars)
  BY StepSimulated, IdleStep DEF RefInv, Simulated
<1>3. Spec => []TypeOK
  BY TypeCorrect
<1>4. Spec => []LockInv
  BY LockCorrect
<1> QED
  BY <1>1, <1>2, <1>3, <1>4, PTL DEF Spec, ImplementsPresence, Pres!Spec

-----------------------------------------------------------------------------
PresView == INSTANCE PresenceProofs
              WITH joined <- Joined, owed <- Owed, stream <- Streams,
                   broken <- Unreliable

(* What Presence guarantees, the hub does: between two changes of the      *)
(* registry every listed client that is not broken has been told the truth *)
(* about the others (hub.go:76-155).                                       *)
THEOREM ViewIsTrue == ASSUME HubAssumption PROVE Spec => []PresenceView
<1>1. PresView!PresenceAssumption
  BY DEF HubAssumption, PresView!PresenceAssumption
<1>2. PresView!Spec => []PresView!View
  BY <1>1, PresView!ViewCorrect
<1>3. Spec => Pres!Spec
  BY HubImplementsPresence DEF ImplementsPresence
<1>4. Pres!Init <=> PresView!Init
  BY DEF Pres!Init, PresView!Init
<1>5. [Pres!Next]_(Pres!vars) <=> [PresView!Next]_(PresView!vars)
  <2>1. /\ Pres!Message = PresView!Message
        /\ Pres!Notice = PresView!Notice
        /\ Pres!Relayed = PresView!Relayed
        /\ Pres!Private = PresView!Private
        /\ Pres!vars = PresView!vars
    BY DEF Pres!Message, PresView!Message, Pres!Notice, PresView!Notice,
       Pres!Relayed, PresView!Relayed, Pres!Private, PresView!Private,
       Pres!vars, PresView!vars
  <2>2. \A c \in Conn : /\ Pres!Join(c) <=> PresView!Join(c)
                        /\ Pres!Leave(c) <=> PresView!Leave(c)
    BY DEF Pres!Join, PresView!Join, Pres!Leave, PresView!Leave,
       Pres!ToEach, PresView!ToEach, Pres!Listed, PresView!Listed,
       Pres!Msg, PresView!Msg
  <2>3. \A c \in Conn : /\ Pres!Break(c) <=> PresView!Break(c)
                        /\ Pres!Lose(c) <=> PresView!Lose(c)
    BY DEF Pres!Break, PresView!Break, Pres!Lose, PresView!Lose,
       Pres!Without, PresView!Without
  <2>4. \A d \in Owed : /\ Pres!Give(d) <=> PresView!Give(d)
                        /\ Pres!Miss(d) <=> PresView!Miss(d)
    BY DEF Pres!Give, PresView!Give, Pres!Miss, PresView!Miss, Pres!Put,
       PresView!Put
  <2>5. \A c \in Conn, m \in Pres!Message :
          /\ Pres!Relay(c, m) <=> PresView!Relay(c, m)
          /\ Pres!Tell(c, m) <=> PresView!Tell(c, m)
    BY <2>1 DEF Pres!Relay, PresView!Relay, Pres!Tell, PresView!Tell,
       Pres!Put, PresView!Put, Pres!Listed, PresView!Listed
  <2>6. Pres!Next <=> PresView!Next
    BY <2>1, <2>2, <2>3, <2>4, <2>5 DEF Pres!Next, PresView!Next
  <2>7. UNCHANGED Pres!vars <=> UNCHANGED PresView!vars
    BY DEF Pres!vars, PresView!vars
  <2> QED
    BY <2>6, <2>7
<1>6. Pres!View => PresenceView
  BY DEF PresenceView
<1>7. PresView!View => Pres!View
  BY DEF Pres!View, PresView!View, Pres!LastIs, PresView!LastIs, Pres!Msg,
     PresView!Msg
<1> QED
  BY <1>2, <1>3, <1>4, <1>5, <1>6, <1>7, PTL DEF Pres!Spec, PresView!Spec

-----------------------------------------------------------------------------
(* Offers.  The stream of a receiver that lost nothing tells it of a       *)
(* sender before any of that sender's offers.                              *)

ToldAt(q, k) ==
  \E j \in 1 .. k : /\ q[j] = Msg("sender_joined", q[k].id)
                    /\ \A l \in j + 1 .. k : q[l] # Msg("sender_left", q[k].id)

Told(q) == \A k \in 1 .. Len(q) : q[k].type = "offer" => ToldAt(q, k)

(* A prefix decides what was told at a message. *)
LEMMA SamePrefix ==
  ASSUME NEW q, NEW p, NEW k \in Nat, \A j \in 1 .. k : p[j] = q[j], k >= 1
  PROVE  ToldAt(p, k) <=> ToldAt(q, k)
<1>1. \A j \in 1 .. k : \A l \in j + 1 .. k : l \in 1 .. k
  OBVIOUS
<1>2. k \in 1 .. k
  OBVIOUS
<1> QED
  BY <1>1, <1>2 DEF ToldAt

LEMMA AppendTold ==
  ASSUME NEW q \in Seq(Message), NEW m \in Message, Told(q),
         m.type = "offer" => ToldAt(Append(q, m), Len(q) + 1)
  PROVE  Told(Append(q, m))
<1> DEFINE p == Append(q, m)
<1>1. /\ Len(q) \in Nat /\ Len(p) = Len(q) + 1 /\ p[Len(q) + 1] = m
      /\ \A j \in 1 .. Len(q) : p[j] = q[j]
  BY AppendProperties, LenProperties
<1> SUFFICES ASSUME NEW k \in 1 .. Len(q) + 1, p[k].type = "offer"
             PROVE  ToldAt(p, k)
  BY <1>1 DEF Told
<1>2. CASE k = Len(q) + 1
  BY <1>1, <1>2
<1>3. CASE k \in 1 .. Len(q)
  <2>1. q[k].type = "offer" /\ ToldAt(q, k)
    BY <1>1, <1>3 DEF Told
  <2>2. k \in Nat /\ k >= 1 /\ \A j \in 1 .. k : p[j] = q[j]
    BY <1>1, <1>3
  <2> HIDE DEF p
  <2> QED
    BY <2>1, <2>2, SamePrefix
<1> QED
  BY <1>1, <1>2, <1>3

LEMMA PrefixTold ==
  ASSUME NEW q \in Seq(Message), NEW p \in Seq(Message), Told(q \o p)
  PROVE  Told(q)
<1> DEFINE w == q \o p
<1>1. /\ Len(q) \in Nat /\ Len(p) \in Nat /\ Len(w) = Len(q) + Len(p)
      /\ \A j \in 1 .. Len(q) : w[j] = q[j]
  <2>1. /\ Len(q) \in Nat /\ Len(p) \in Nat
    BY LenProperties
  <2>2. /\ Len(w) = Len(q) + Len(p)
        /\ \A j \in 1 .. Len(q) + Len(p) :
             w[j] = IF j <= Len(q) THEN q[j] ELSE p[j - Len(q)]
    BY ConcatProperties
  <2> HIDE DEF w
  <2> QED
    BY <2>1, <2>2
<1> SUFFICES ASSUME NEW k \in 1 .. Len(q), q[k].type = "offer"
             PROVE  ToldAt(q, k)
  BY DEF Told
<1> HIDE DEF w
<1>2. k \in 1 .. Len(w) /\ w[k].type = "offer"
  BY <1>1
<1>3. ToldAt(w, k)
  BY <1>2 DEF Told, w
<1>4. k \in Nat /\ k >= 1 /\ \A j \in 1 .. k : q[j] = w[j]
  BY <1>1
<1> QED
  BY <1>3, <1>4, SamePrefix

(* What Presence says of the whole stream, it says at the next message. *)
LEMMA LastIsTold ==
  ASSUME NEW q \in Seq(Message), NEW m \in Message, m.type = "offer",
         Pres!LastIs(q, m.id, "sender_joined", "sender_left")
  PROVE  ToldAt(Append(q, m), Len(q) + 1)
<1> DEFINE p == Append(q, m)
           n == Len(q)
<1>1. /\ n \in Nat /\ p[n + 1] = m /\ DOMAIN q = 1 .. n
      /\ \A j \in 1 .. n : p[j] = q[j]
  BY AppendProperties, LenProperties
<1>2. PICK k \in 1 .. n : /\ q[k] = Msg("sender_joined", m.id)
                          /\ \A j \in k + 1 .. n : q[j] # Msg("sender_left", m.id)
  BY <1>1 DEF Pres!LastIs, Pres!Msg, Msg
<1>3. m # Msg("sender_left", m.id)
  BY DEF Msg
<1> HIDE DEF p, n
<1>4. k \in 1 .. n + 1 /\ p[k] = Msg("sender_joined", p[n + 1].id)
  BY <1>1, <1>2
<1>5. ASSUME NEW l \in k + 1 .. n + 1
      PROVE  p[l] # Msg("sender_left", p[n + 1].id)
  <2>1. CASE l = n + 1
    BY <1>1, <1>3, <2>1
  <2>2. CASE l # n + 1
    <3>1. l \in k + 1 .. n /\ l \in 1 .. n
      BY <1>1, <2>2
    <3> QED
      BY <1>1, <1>2, <3>1
  <2> QED
    BY <2>1, <2>2
<1>6. ToldAt(p, n + 1)
  BY <1>4, <1>5 DEF ToldAt
<1> QED
  BY <1>6 DEF p, n

LEMMA ToldIsLast ==
  ASSUME NEW q \in Seq(Message), NEW k \in DOMAIN q, ToldAt(q, k)
  PROVE  Pres!LastIs(SubSeq(q, 1, k), q[k].id, "sender_joined", "sender_left")
<1> DEFINE s == SubSeq(q, 1, k)
<1>1. Len(q) \in Nat /\ DOMAIN q = 1 .. Len(q) /\ k \in 1 .. Len(q)
  BY LenProperties
<1>2. \A i \in 1 .. k : q[i] \in Message
  BY <1>1
<1>3. /\ s \in Seq(Message) /\ Len(s) = IF 1 <= k THEN k - 1 + 1 ELSE 0
      /\ \A i \in 1 .. k - 1 + 1 : s[i] = q[1 + i - 1]
  BY <1>1, <1>2, SubSeqProperties
<1>4. DOMAIN s = 1 .. Len(s)
  BY <1>3, LenProperties
<1> HIDE DEF s
<1>5. Len(s) = k /\ DOMAIN s = 1 .. k /\ \A i \in 1 .. k : s[i] = q[i]
  BY <1>1, <1>3, <1>4
<1>6. PICK j \in 1 .. k :
        /\ q[j] = Msg("sender_joined", q[k].id)
        /\ \A l \in j + 1 .. k : q[l] # Msg("sender_left", q[k].id)
  BY DEF ToldAt
<1>7. \A l \in j + 1 .. k : l \in 1 .. k
  BY <1>1
<1>8. Pres!LastIs(s, q[k].id, "sender_joined", "sender_left")
  BY <1>5, <1>6, <1>7 DEF Pres!LastIs, Pres!Msg, Msg
<1> QED
  BY <1>8 DEF s

(* An offer in hand is that of a sender in session. *)
OfferInHand(c, hand) ==
  \A s \in hand : s.msg.type = "offer" =>
    /\ RoleOf[c] = "sender" /\ s.msg.id = IdOf[c]
    /\ registered[c] /\ ret[c] = "read"

OfferHandInv == \A c \in Conn : OfferInHand(c, InHand(c))

LEMMA FewerInHand ==
  ASSUME TypeOK, OfferHandInv,
         \A d \in Conn : /\ InHand(d)' \subseteq InHand(d)
                         /\ registered[d] => registered'[d]
                         /\ ret'[d] = ret[d] \/ InHand(d)' = {}
  PROVE  OfferHandInv'
BY DEF OfferHandInv, OfferInHand

(* A new hub operation: what the others have in hand stays. *)
LEMMA StartOffers ==
  ASSUME TypeOK, OfferHandInv, NEW c \in Conn, NEW mode, NEW sends, NEW back,
         StartOp(c, mode, sends, back),
         \A d \in Conn : registered[d] => registered'[d],
         \A s \in sends : s.msg.type = "offer" =>
           /\ RoleOf[c] = "sender" /\ s.msg.id = IdOf[c]
           /\ registered'[c] /\ back = "read"
  PROVE  OfferHandInv'
<1>1. /\ reader'[c] = "send" /\ todo'[c] = sends /\ ret'[c] = back
      /\ \A d \in Conn \ {c} : /\ reader'[d] = reader[d] /\ todo'[d] = todo[d]
                               /\ ret'[d] = ret[d] /\ cur'[d] = cur[d]
  BY DEF StartOp, TypeOK
<1>2. InHand(c)' = sends
  BY <1>1 DEF InHand
<1>3. \A d \in Conn \ {c} : InHand(d)' = InHand(d)
  BY <1>1 DEF InHand
<1>4. \A d \in Conn \ {c} : OfferInHand(d, InHand(d))'
  BY <1>1, <1>3 DEF OfferHandInv, OfferInHand
<1>5. OfferInHand(c, InHand(c))'
  BY <1>1, <1>2 DEF OfferInHand
<1> QED
  BY <1>4, <1>5 DEF OfferHandInv

LEMMA OfferHandStep ==
  ASSUME HubAssumption, TypeOK, OfferHandInv, [Next]_vars
  PROVE  OfferHandInv'
<1>1. ASSUME NEW c \in Conn, NEW back, RegisterClient(c, back)
      PROVE  OfferHandInv'
  <2>1. /\ StartOp(c, "write", JoinNotices(c), back)
        /\ registered' = [registered EXCEPT ![c] = TRUE]
    BY <1>1 DEF RegisterClient
  <2>2. \A d \in Conn : registered[d] => registered'[d]
    BY <2>1 DEF TypeOK
  <2>3. \A s \in JoinNotices(c) : s.msg.type # "offer"
    BY NoticesInHand DEF NoticeType
  <2> QED
    BY <2>1, <2>2, <2>3, StartOffers
<1>2. ASSUME NEW c \in Conn, UnregisterClient(c)
      PROVE  OfferHandInv'
  <2>1. /\ StartOp(c, "write", LeaveNotices(c), "exit")
        /\ registered' = registered
    BY <1>2 DEF UnregisterClient
  <2>2. \A s \in LeaveNotices(c) : s.msg.type # "offer"
    BY NoticesInHand DEF NoticeType
  <2> QED
    BY <2>1, <2>2, StartOffers
<1>3. ASSUME NEW c \in Conn, ReadMessage(c)
      PROVE  OfferHandInv'
  <2>1. PICK m \in PeerMessages(c) :
          /\ m.type # "register"
          /\ StartOp(c, RouteLock(m), Route(c, m), "read")
    BY <1>3 DEF ReadMessage
  <2>2. registered' = registered
    BY <1>3 DEF ReadMessage, registry
  <2>3. ASSUME NEW s \in Route(c, m), s.msg.type = "offer"
        PROVE  RoleOf[c] = "sender" /\ s.msg.id = IdOf[c] /\ registered[c]
    <3>1. s.msg = m
      BY <2>3 DEF Route, ToEach, Msg
    <3>2. m.type = "offer"
      BY <2>3, <3>1
    <3>3. RoleOf[c] = "sender" /\ registered[c] /\ m.id = IdOf[c]
      BY <2>1, <3>2 DEF PeerMessages, Msg
    <3> QED
      BY <3>1, <3>3
  <2> QED
    BY <2>1, <2>2, <2>3, StartOffers
<1>4. ASSUME NEW c \in Conn, SendCheck(c)
      PROVE  OfferHandInv'
  <2>1. PICK s \in todo[c] :
          /\ todo' = [todo EXCEPT ![c] = @ \ {s}]
          /\ IF closed[s.to]
             THEN UNCHANGED <<reader, cur>>
             ELSE /\ reader' = [reader EXCEPT ![c] = "push"]
                  /\ cur' = [cur EXCEPT ![c] = s]
    BY <1>4 DEF SendCheck, NextSends
  <2>2. reader[c] = "send" /\ registered' = registered /\ ret' = ret
    BY <1>4 DEF SendCheck, registry
  <2>3. /\ \A d \in Conn \ {c} : /\ todo'[d] = todo[d] /\ reader'[d] = reader[d]
                                 /\ cur'[d] = cur[d]
        /\ todo'[c] = todo[c] \ {s}
        /\ reader'[c] = "push" => cur'[c] = s
    BY <2>1, <2>2 DEF TypeOK
  <2>4. \A d \in Conn \ {c} : InHand(d)' = InHand(d)
    BY <2>3 DEF InHand
  <2>5. InHand(c)' \subseteq InHand(c)
    BY <2>3 DEF InHand
  <2> QED
    BY <2>2, <2>4, <2>5, FewerInHand
<1>5. ASSUME NEW c \in Conn, SendPush(c)
      PROVE  OfferHandInv'
  <2>1. /\ reader' = [reader EXCEPT ![c] = "send"]
        /\ cur' = [cur EXCEPT ![c] = NoSend(c)]
        /\ UNCHANGED <<registered, todo, ret>>
    BY <1>5 DEF SendPush, registry
  <2>2. /\ reader'[c] = "send"
        /\ \A d \in Conn \ {c} : reader'[d] = reader[d] /\ cur'[d] = cur[d]
    BY <2>1 DEF TypeOK
  <2>3. \A d \in Conn \ {c} : InHand(d)' = InHand(d)
    BY <2>1, <2>2 DEF InHand
  <2>4. InHand(c)' \subseteq InHand(c)
    BY <2>1, <2>2 DEF InHand
  <2> QED
    BY <2>1, <2>3, <2>4, FewerInHand
<1>6. ASSUME NEW c \in Conn, FinishOp(c)
      PROVE  OfferHandInv'
  <2>1. /\ todo[c] = {} /\ todo' = todo /\ cur' = cur
        /\ registered' = registered
        /\ reader' = [reader EXCEPT ![c] = IF ret[c] = "exit" THEN "exit"
                                                              ELSE "read"]
        /\ ret' = [ret EXCEPT ![c] = "read"]
    BY <1>6 DEF FinishOp, registry
  <2>2. /\ reader'[c] # "push" /\ \A d \in Conn \ {c} : /\ reader'[d] = reader[d]
                                                        /\ ret'[d] = ret[d]
    BY <2>1 DEF TypeOK
  <2>3. \A d \in Conn \ {c} : InHand(d)' = InHand(d)
    BY <2>1, <2>2 DEF InHand
  <2>4. InHand(c)' = {}
    BY <2>1, <2>2 DEF InHand
  <2> QED
    BY <2>1, <2>2, <2>3, <2>4, FewerInHand
<1>7. CASE /\ UNCHANGED <<registered, todo, cur, ret>>
           /\ \A d \in Conn : reader'[d] = "push" => reader[d] = "push"
  <2>1. \A d \in Conn : InHand(d)' \subseteq InHand(d)
    BY <1>7 DEF InHand
  <2> QED
    BY <1>7, <2>1, FewerInHand
<1>8. ASSUME NEW c \in Conn,
             \/ AcceptSender(c) \/ ReadError(c) \/ ReaderClose(c)
             \/ ReaderHangup(c) \/ WriterStep(c) \/ PeerGone(c)
      PROVE  OfferHandInv'
  <2>1. UNCHANGED <<registered, todo, cur, ret>>
    BY <1>8 DEF AcceptSender, ReadError, ReaderClose, ReaderHangup,
       WriterStep, WriteMessage, WriteError, WriteClose, WriterClose,
       WriterHangup, PeerGone, registry, job
  <2>2. \A d \in Conn : reader'[d] = "push" => reader[d] = "push"
    BY <1>8 DEF AcceptSender, ReadError, ReaderClose, ReaderHangup,
       WriterStep, WriteMessage, WriteError, WriteClose, WriterClose,
       WriterHangup, PeerGone, AfterCheck, TypeOK
  <2> QED
    BY <1>7, <2>1, <2>2
<1>9. CASE UNCHANGED vars
  BY <1>7, <1>9 DEF vars, registry, job
<1> QED
  BY <1>1, <1>2, <1>3, <1>4, <1>5, <1>6, <1>8, <1>9
     DEF Next, ReaderStep, AcceptReceiver, ReadRegister, AllDone

(* What a receiver that was dropped nothing has read is in order, and, as  *)
(* long as its socket is up, so is what it will read.                      *)
Connected(c) == sock[c] \in {"none", "up"}

OfferStreamInv ==
  \A c \in Conn : RoleOf[c] = "receiver" /\ ~dropped[c] =>
    /\ Told(inbox[c])
    /\ Connected(c) => Told(Stream(c))

(* What the push of an offer to a client that is all right needs. *)
LEMMA PushedOffer ==
  ASSUME HubAssumption, RefInv, OfferHandInv, NoSendOnClosedChannel,
         NoStaleEntry, SessionIsListed, PresenceView,
         NEW c \in Conn, reader[c] = "push", cur[c].msg.type = "offer",
         NEW r, r = cur[c].to, RoleOf[r] = "receiver", ~dropped[r], Connected(r)
  PROVE  Pres!LastIs(Stream(r), cur[c].msg.id, "sender_joined", "sender_left")
<1> DEFINE s == cur[c]
<1>1. s \in InHand(c) /\ s \in Delivery /\ r \in Conn /\ s.msg.id \in Ident
  BY DEF InHand, RefInv, TypeOK, Delivery, Message
<1>2. lock[c] = "read" /\ Mapped(r)
  BY <1>1 DEF RefInv, InHandInv, NoticeType, RelayedType, PrivateType
<1>3. Owed = {}
  <2>1. \A d \in Conn : lock[d] # "write"
    BY <1>2 DEF RefInv, LockInv
  <2>2. \A d \in Conn : \A x \in InHand(d) : x.msg.type \notin NoticeType
    BY <2>1 DEF RefInv, InHandInv, NoticeType, RelayedType, PrivateType
  <2> QED
    BY <2>2 DEF Owed, NoticeType
<1>4. PICK i \in Ident : receivers[i] = r
  <2>1. r \notin Senders
    BY DEF Senders, NoStaleEntry
  <2> QED
    BY <1>2, <2>1 DEF Mapped, Receivers
<1>5. r # NoConn /\ r \notin Unreliable
  BY <1>1 DEF HubAssumption, Unreliable, Connected, NoSendOnClosedChannel
<1>6. RoleOf[c] = "sender" /\ s.msg.id = IdOf[c] /\ registered[c] /\ ret[c] = "read"
  BY <1>1 DEF OfferHandInv, OfferInHand
<1>7. senders[s.msg.id] # NoConn
  <2>1. InSession(c)
    BY <1>6 DEF InSession
  <2> QED
    BY <1>6, <2>1 DEF SessionIsListed
<1>8. Pres!LastIs(Streams[r], s.msg.id, "sender_joined", "sender_left")
  BY <1>1, <1>3, <1>4, <1>5, <1>7 DEF PresenceView, Pres!View
<1> QED
  BY <1>1, <1>8 DEF Streams

LEMMA SameStreams ==
  ASSUME OfferStreamInv, UNCHANGED <<inbox, sendq, dropped>>,
         \A c \in Conn : Connected(c)' => Connected(c)
  PROVE  OfferStreamInv'
BY DEF OfferStreamInv, Stream

LEMMA OfferStreamStep ==
  ASSUME HubAssumption, RefInv, OfferHandInv, NoSendOnClosedChannel,
         NoStaleEntry, SessionIsListed, PresenceView, OfferStreamInv,
         [Next]_vars
  PROVE  OfferStreamInv'
<1>1. \A d \in Conn : inbox[d] \in Seq(Message) /\ sendq[d] \in Seq(Message)
  BY DEF RefInv, TypeOK
<1>2. ASSUME NEW c \in Conn, SendPush(c)
      PROVE  OfferStreamInv'
  <2>0. PICK m \in Message, r \in Conn : m = cur[c].msg /\ r = cur[c].to
    BY DEF RefInv, TypeOK, Delivery
  <2>1. reader[c] = "push" /\ inbox' = inbox /\ sock' = sock
    BY <1>2 DEF SendPush, peer
  <2>2. CASE HasRoom(r)
    <3>1. sendq' = [sendq EXCEPT ![r] = Append(@, m)] /\ dropped' = dropped
      BY <1>2, <2>0, <2>2 DEF SendPush
    <3>2. \A d \in Conn : sendq'[d] = IF d = r THEN Append(sendq[r], m)
                                               ELSE sendq[d]
      BY <2>1, <3>1 DEF RefInv, TypeOK
    <3>3. Stream(r)' = Append(Stream(r), m)
      <4>1. PICK q \in Seq(Message), p \in Seq(Message), x \in Message :
              q = inbox[r] /\ p = sendq[r] /\ x = m
        BY <1>1, <2>1
      <4>2. q \o Append(p, x) = Append(q \o p, x)
        BY QueuedIsLast
      <4> QED
        BY <2>1, <3>2, <4>1, <4>2 DEF Stream
    <3>4. ASSUME RoleOf[r] = "receiver", ~dropped[r], Connected(r)
          PROVE  Told(Stream(r)')
      <4>1. Stream(r) \in Seq(Message)
        BY <1>1, <2>1, ConcatProperties DEF Stream
      <4>2. Told(Stream(r))
        BY <2>1, <3>4 DEF OfferStreamInv
      <4>3. m.type = "offer"
              => Pres!LastIs(Stream(r), m.id, "sender_joined", "sender_left")
        BY <2>0, <2>1, <3>4, PushedOffer
      <4>4. m.type = "offer" => ToldAt(Append(Stream(r), m), Len(Stream(r)) + 1)
        BY <2>1, <4>1, <4>3, LastIsTold
      <4>5. Told(Append(Stream(r), m))
        BY <2>1, <4>1, <4>2, <4>4, AppendTold
      <4> QED
        BY <3>3, <4>5
    <3>5. \A d \in Conn : d # r => Stream(d)' = Stream(d)
      BY <2>1, <3>2 DEF Stream
    <3>6. \A d \in Conn : Connected(d)' <=> Connected(d)
      BY <2>1 DEF Connected
    <3> QED
      BY <2>1, <3>1, <3>4, <3>5, <3>6 DEF OfferStreamInv
  <2>3. CASE ~HasRoom(r)
    <3>1. sendq' = sendq /\ dropped' = [dropped EXCEPT ![r] = TRUE]
      BY <1>2, <2>0, <2>3 DEF SendPush
    <3>2. \A d \in Conn : ~dropped'[d] => ~dropped[d]
      BY <3>1 DEF RefInv, TypeOK
    <3> QED
      BY <2>1, <3>1, <3>2 DEF OfferStreamInv, Stream, Connected
  <2> QED
    BY <2>2, <2>3
<1>3. ASSUME NEW c \in Conn, WriteMessage(c)
      PROVE  OfferStreamInv'
  <2>1. /\ dropped' = dropped /\ sock' = sock
        /\ sendq[c] # <<>> /\ sock[c] \in {"up", "lost"}
        /\ \A d \in Conn : sendq'[d] = IF d = c THEN Tail(sendq[c])
                                                ELSE sendq[d]
    BY <1>3 DEF WriteMessage, RefInv, TypeOK
  <2>2. CASE sock[c] = "lost"
    <3>1. inbox' = inbox
      BY <1>3, <2>2 DEF WriteMessage
    <3>2. \A d \in Conn \ {c} : Stream(d)' = Stream(d)
      BY <2>1, <3>1 DEF Stream
    <3> QED
      BY <2>1, <2>2, <3>1, <3>2 DEF OfferStreamInv, Connected
  <2>3. CASE sock[c] = "up"
    <3>1. \A d \in Conn : inbox'[d] = IF d = c
                                     THEN Append(inbox[c], Head(sendq[c]))
                                     ELSE inbox[d]
      BY <1>3, <2>3 DEF WriteMessage, RefInv, TypeOK
    <3>2. PICK q \in Seq(Message), p \in Seq(Message) :
            q = inbox[c] /\ p = sendq[c]
      BY <1>1
    <3>3. Append(q, Head(p)) \o Tail(p) = q \o p
      <4>1. p # <<>>
        BY <2>1, <3>2
      <4> QED
        BY <4>1, WrittenIsNext
    <3>4. /\ Stream(c)' = Stream(c)
          /\ Stream(c)' = inbox'[c] \o sendq'[c]
      BY <2>1, <3>1, <3>2, <3>3 DEF Stream
    <3>5. inbox'[c] \in Seq(Message) /\ sendq'[c] \in Seq(Message)
      <4>1. Head(p) \in Message /\ Tail(p) \in Seq(Message)
        BY <2>1, <3>2, HeadTailProperties
      <4>2. Append(q, Head(p)) \in Seq(Message)
        BY <4>1, AppendProperties
      <4> QED
        BY <2>1, <3>1, <3>2, <4>1, <4>2
    <3>6. ASSUME RoleOf[c] = "receiver", ~dropped[c]
          PROVE  Told(inbox'[c]) /\ Told(Stream(c)')
      <4>1. Told(Stream(c))
        BY <2>3, <3>6 DEF OfferStreamInv, Connected
      <4>2. Told(inbox'[c] \o sendq'[c])
        BY <3>4, <4>1
      <4>3. Told(inbox'[c])
        BY <3>5, <4>2, PrefixTold
      <4> QED
        BY <3>4, <4>1, <4>3
    <3>7. \A d \in Conn : d # c => Stream(d)' = Stream(d)
      BY <2>1, <3>1 DEF Stream
    <3> QED
      BY <2>1, <3>1, <3>6, <3>7 DEF OfferStreamInv, Connected
  <2> QED
    BY <2>1, <2>2, <2>3
<1>4. ASSUME NEW c \in Conn, WriteClose(c)
      PROVE  OfferStreamInv'
  <2> DEFINE m == Msg("close_frame", IdOf[c])
  <2>1. UNCHANGED <<sendq, dropped, sock>> /\ sendq[c] = <<>>
    BY <1>4 DEF WriteClose, chan
  <2>2. CASE sock[c] # "up"
    <3>1. inbox' = inbox
      BY <1>4, <2>2 DEF WriteClose
    <3> QED
      BY <2>1, <3>1, SameStreams DEF Connected
  <2>3. CASE sock[c] = "up"
    <3>1. m \in Message /\ m.type # "offer"
      BY DEF HubAssumption, Msg, Message, MsgType
    <3> HIDE DEF m
    <3>2. \A d \in Conn : inbox'[d] = IF d = c THEN Append(inbox[c], m)
                                               ELSE inbox[d]
      BY <1>4, <2>3 DEF WriteClose, RefInv, TypeOK, m
    <3>3. PICK q \in Seq(Message) : q = inbox[c]
      BY <1>1
    <3>4. Append(q, m) \o <<>> = Append(q, m)
      BY <3>1
    <3>5. Stream(c)' = Append(inbox[c], m)
      BY <2>1, <3>2, <3>3, <3>4 DEF Stream
    <3>6. ASSUME RoleOf[c] = "receiver", ~dropped[c]
          PROVE  Told(Append(inbox[c], m))
      <4>1. Told(q)
        BY <3>3, <3>6 DEF OfferStreamInv
      <4>2. Told(Append(q, m))
        BY <3>1, <4>1, AppendTold
      <4> QED
        BY <3>3, <4>2
    <3>7. \A d \in Conn : d # c => Stream(d)' = Stream(d)
      BY <2>1, <3>2 DEF Stream
    <3> QED
      BY <2>1, <3>2, <3>5, <3>6, <3>7 DEF OfferStreamInv, Connected
  <2> QED
    BY <2>2, <2>3
<1>5. ASSUME NEW c \in Conn, AcceptReceiver(c) \/ AcceptSender(c)
      PROVE  OfferStreamInv'
  <2>1. /\ UNCHANGED <<inbox, sendq, dropped>>
        /\ reader[c] = "idle" /\ sock' = [sock EXCEPT ![c] = "up"]
    BY <1>5 DEF AcceptReceiver, AcceptSender, chan
  <2>2. \A d \in Conn : Connected(d)' => Connected(d)
    BY <2>1 DEF Connected, RefInv, IdleInv, TypeOK
  <2> QED
    BY <2>1, <2>2, SameStreams
<1>6. ASSUME NEW c \in Conn,
             \/ ReaderHangup(c) \/ WriterHangup(c) \/ PeerGone(c)
      PROVE  OfferStreamInv'
  <2>1. /\ UNCHANGED <<inbox, sendq, dropped>>
        /\ \E x \in {"closed", "lost"} : sock' = [sock EXCEPT ![c] = x]
    BY <1>6 DEF ReaderHangup, WriterHangup, PeerGone, CloseSocket, chan
  <2>2. \A d \in Conn : Connected(d)' => Connected(d)
    BY <2>1 DEF Connected, RefInv, TypeOK
  <2> QED
    BY <2>1, <2>2, SameStreams
<1>7. CASE UNCHANGED <<inbox, sendq, dropped, sock>>
  BY <1>7, SameStreams DEF Connected
<1>8. ASSUME NEW c \in Conn,
             \/ ReadRegister(c) \/ ReadMessage(c) \/ ReadError(c)
             \/ UnregisterClient(c) \/ SendCheck(c) \/ FinishOp(c)
             \/ ReaderClose(c) \/ WriteError(c) \/ WriterClose(c)
      PROVE  OfferStreamInv'
  <2>1. UNCHANGED <<inbox, sendq, dropped, sock>>
    BY <1>8 DEF ReadRegister, ReadMessage, ReadError, UnregisterClient,
       SendCheck, FinishOp, ReaderClose, WriteError, WriterClose, chan, peer
  <2> QED
    BY <1>7, <2>1
<1>9. CASE UNCHANGED vars
  BY <1>7, <1>9 DEF vars
<1> QED
  BY <1>2, <1>3, <1>4, <1>5, <1>6, <1>8, <1>9
     DEF Next, ReaderStep, WriterStep, AllDone

(* While no connection leaves with another one of its role and id in       *)
(* session, an offer reaches a receiver only while, as far as it was told, *)
(* the offer's sender is there (hub.go:76-155, 158-203).  It needs the true view (PresenceView) at the *)
(* moment of the push, and that the sender in session is listed then.      *)
THEOREM OffersAfterJoin ==
  ASSUME HubAssumption PROVE Spec /\ []LeavesAlone => []OffersInSession
<1>1. Init => InHandInv /\ IdleInv /\ OfferHandInv /\ OfferStreamInv
  <2>1. Init => OfferHandInv
    BY DEF Init, OfferHandInv, OfferInHand, InHand
  <2>2. Init => OfferStreamInv
    <3>1. \A q : q = <<>> => Told(q)
      BY DEF Told
    <3>2. Init => \A c \in Conn : inbox[c] = <<>> /\ Stream(c) = <<>>
      BY DEF Init, Stream
    <3> QED
      BY <3>1, <3>2 DEF OfferStreamInv
  <2> QED
    BY <2>1, <2>2, InitSimulated
<1>2. TypeOK /\ LockInv /\ InHandInv /\ IdleInv /\ [Next]_vars
        => InHandInv' /\ IdleInv'
  BY StepSimulated, IdleStep DEF RefInv, Simulated
<1>3. TypeOK /\ OfferHandInv /\ [Next]_vars => OfferHandInv'
  BY OfferHandStep
<1>4. /\ TypeOK /\ LockInv /\ InHandInv /\ IdleInv /\ OfferHandInv
      /\ NoSendOnClosedChannel /\ NoStaleEntry /\ SessionIsListed
      /\ PresenceView /\ OfferStreamInv /\ [Next]_vars
      => OfferStreamInv'
  BY OfferStreamStep DEF RefInv
<1>5. TypeOK /\ OfferStreamInv => OffersInSession
  <2> SUFFICES ASSUME TypeOK, OfferStreamInv, NEW c \in Conn,
                      RoleOf[c] = "receiver", ~dropped[c],
                      NEW k \in DOMAIN inbox[c], inbox[c][k].type = "offer"
               PROVE  Pres!LastIs(SubSeq(inbox[c], 1, k), inbox[c][k].id,
                                  "sender_joined", "sender_left")
    BY DEF OffersInSession
  <2>1. inbox[c] \in Seq(Message) /\ k \in 1 .. Len(inbox[c])
    BY DEF TypeOK
  <2>2. ToldAt(inbox[c], k)
    BY <2>1 DEF OfferStreamInv, Told
  <2> QED
    BY <2>1, <2>2, ToldIsLast
<1>6. Spec /\ []LeavesAlone
        => /\ []TypeOK /\ []LockInv /\ []NoSendOnClosedChannel
           /\ []NoStaleEntry /\ []PresenceView /\ []SessionIsListed
  BY TypeCorrect, LockCorrect, NoPanic, ListedInSession, ViewIsTrue,
     EverySessionListed
<1> QED
  BY <1>1, <1>2, <1>3, <1>4, <1>5, <1>6, PTL DEF Spec
=============================================================================
