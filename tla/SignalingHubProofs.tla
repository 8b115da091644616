------------------------- MODULE SignalingHubProofs -------------------------
(* Proofs about SignalingHub, for any set of connections, any ids, any     *)
(* channel capacity and any bounds.                                        *)
EXTENDS SignalingHub, TLAPS

-----------------------------------------------------------------------------
(* Type correctness.                                                       *)

(* The two maps hold connections. *)
LEMMA SendersReceivers ==
  ASSUME TypeOK
  PROVE  Senders \subseteq Conn /\ Receivers \subseteq Conn
BY DEF TypeOK, Senders, Receivers

(* A message built from a type and an id is a message. *)
LEMMA MsgTyped ==
  ASSUME NEW type \in MsgType, NEW i \in Ident
  PROVE  Msg(type, i) \in Message
BY DEF Msg, Message

(* A broadcast is a set of deliveries. *)
LEMMA ToEachTyped ==
  ASSUME NEW C \in SUBSET Conn, NEW m \in Message
  PROVE  ToEach(C, m) \in SUBSET Delivery
BY DEF ToEach, Delivery

(* The notices of a join and of a leave are well typed. *)
LEMMA NoticesTyped ==
  ASSUME HubAssumption, TypeOK, NEW c \in Conn
  PROVE  /\ JoinNotices(c) \in SUBSET Delivery
         /\ LeaveNotices(c) \in SUBSET Delivery
<1>1. IdOf[c] \in Ident
  BY DEF HubAssumption
<1>2. \A i \in Ident : /\ Msg("sender_joined", i) \in Message
                       /\ Msg("sender_left", i) \in Message
                       /\ Msg("receiver_joined", i) \in Message
                       /\ Msg("receiver_left", i) \in Message
  BY DEF Msg, Message, MsgType
<1>3. \A i \in Ident : [to |-> c, msg |-> Msg("sender_joined", i)] \in Delivery
  BY <1>2 DEF Delivery
<1>4. /\ ToEach(Receivers, Msg("sender_joined", IdOf[c])) \in SUBSET Delivery
      /\ ToEach(Receivers, Msg("sender_left", IdOf[c])) \in SUBSET Delivery
      /\ ToEach(Senders, Msg("receiver_joined", IdOf[c])) \in SUBSET Delivery
      /\ ToEach(Senders, Msg("receiver_left", IdOf[c])) \in SUBSET Delivery
  BY <1>1, <1>2, ToEachTyped, SendersReceivers
<1> QED
  BY <1>3, <1>4 DEF JoinNotices, LeaveNotices

(* What a peer may send is a message, and so is what it leads to. *)
LEMMA PeerMessagesTyped ==
  ASSUME HubAssumption, TypeOK, NEW c \in Conn, NEW m \in PeerMessages(c)
  PROVE  m \in Message
<1>1. IdOf[c] \in Ident
  BY DEF HubAssumption
<1>2. \A k \in DOMAIN inbox[c] : inbox[c][k] \in Message
  BY DEF TypeOK
<1>3. \A k \in DOMAIN inbox[c] : inbox[c][k].id \in Ident
  BY <1>2 DEF Message
<1> QED
  BY <1>1, <1>3 DEF PeerMessages, Msg, Message, MsgType

(* What RouteMessage sends is well typed, and it never takes the write     *)
(* lock (hub.go:159-203).                                                  *)
LEMMA RouteTyped ==
  ASSUME HubAssumption, TypeOK, NEW c \in Conn, NEW m \in Message
  PROVE  /\ Route(c, m) \in SUBSET Delivery
         /\ RouteLock(m) \in {"none", "read"}
<1>1. m.id \in Ident /\ IdOf[c] \in Ident
  BY DEF Message, HubAssumption
<1>2. {senders[m.id]} \ {NoConn} \in SUBSET Conn
  BY <1>1 DEF TypeOK
<1>3. /\ Msg("clock_sync_response", IdOf[c]) \in Message
      /\ Msg("clock_sync_browser_response", IdOf[c]) \in Message
  BY <1>1 DEF Msg, Message, MsgType
<1>4. /\ ToEach(Receivers, m) \in SUBSET Delivery
      /\ ToEach({senders[m.id]} \ {NoConn}, m) \in SUBSET Delivery
      /\ ToEach({c}, Msg("clock_sync_response", IdOf[c])) \in SUBSET Delivery
      /\ ToEach({c}, Msg("clock_sync_browser_response", IdOf[c]))
           \in SUBSET Delivery
  BY <1>2, <1>3, ToEachTyped, SendersReceivers
<1>5. Route(c, m) \in SUBSET Delivery
  BY <1>4 DEF Route
<1> QED
  BY <1>5 DEF RouteLock

(* The resting value of cur is a delivery. *)
LEMMA NoSendTyped ==
  ASSUME HubAssumption, NEW c \in Conn
  PROVE  NoSend(c) \in Delivery
BY DEF HubAssumption, NoSend, Delivery, Msg, Message, MsgType

(* Registering keeps the types of the maps and of the goroutine. *)
LEMMA RegisterTyped ==
  ASSUME HubAssumption, TypeOK, NEW c \in Conn, NEW back \in {"start", "read"},
         RegisterClient(c, back)
  PROVE  /\ senders' \in [Ident -> Conn \cup {NoConn}]
         /\ receivers' \in [Ident -> Conn \cup {NoConn}]
         /\ registered' \in [Conn -> BOOLEAN]
         /\ reader' \in [Conn -> {"idle", "read", "send", "push", "leave",
                                  "exit", "hangup", "done"}]
         /\ lock' \in [Conn -> {"none", "read", "write"}]
         /\ todo' \in [Conn -> SUBSET Delivery]
         /\ ret' \in [Conn -> {"start", "read", "exit"}]
         /\ cur' = cur
<1>1. IdOf[c] \in Ident
  BY DEF HubAssumption
<1>2. JoinNotices(c) \in SUBSET Delivery
  BY NoticesTyped
<1>3. /\ senders \in [Ident -> Conn \cup {NoConn}]
      /\ receivers \in [Ident -> Conn \cup {NoConn}]
      /\ registered \in [Conn -> BOOLEAN]
      /\ reader \in [Conn -> {"idle", "read", "send", "push", "leave",
                              "exit", "hangup", "done"}]
      /\ lock \in [Conn -> {"none", "read", "write"}]
      /\ todo \in [Conn -> SUBSET Delivery]
      /\ ret \in [Conn -> {"start", "read", "exit"}]
  BY DEF TypeOK
<1>4. /\ reader' = [reader EXCEPT ![c] = "send"]
      /\ lock' = [lock EXCEPT ![c] = "write"]
      /\ todo' = [todo EXCEPT ![c] = JoinNotices(c)]
      /\ ret' = [ret EXCEPT ![c] = back]
      /\ cur' = cur
      /\ registered' = [registered EXCEPT ![c] = TRUE]
  BY DEF RegisterClient, StartOp
<1>5. /\ senders' \in [Ident -> Conn \cup {NoConn}]
      /\ receivers' \in [Ident -> Conn \cup {NoConn}]
  BY <1>1, <1>3 DEF RegisterClient
<1> QED
  BY <1>2, <1>3, <1>4, <1>5

(* TypeOK, the capacity of every send channel included, holds in every     *)
(* reachable state (client.go:46-57).                                      *)
THEOREM TypeCorrect == ASSUME HubAssumption PROVE Spec => []TypeOK
<1>1. Init => TypeOK
  <2> SUFFICES ASSUME Init PROVE TypeOK
    OBVIOUS
  <2>1. cur \in [Conn -> Delivery]
    BY NoSendTyped DEF Init
  <2>2. \A c \in Conn : Len(sendq[c]) <= SendCap
    BY DEF Init, HubAssumption
  <2> QED
    BY <2>1, <2>2 DEF Init, TypeOK
<1>2. TypeOK /\ [Next]_vars => TypeOK'
  <2> SUFFICES ASSUME TypeOK, [Next]_vars PROVE TypeOK'
    OBVIOUS
  <2> USE HubAssumption
  <2>1. ASSUME NEW c \in Conn, AcceptReceiver(c) PROVE TypeOK'
    BY <2>1, RegisterTyped DEF AcceptReceiver, TypeOK, chan
  <2>2. ASSUME NEW c \in Conn, AcceptSender(c) PROVE TypeOK'
    BY <2>2 DEF AcceptSender, TypeOK, registry, job, chan
  <2>3. ASSUME NEW c \in Conn, ReadRegister(c) PROVE TypeOK'
    BY <2>3, RegisterTyped DEF ReadRegister, TypeOK, chan, peer
  <2>4. ASSUME NEW c \in Conn, ReadMessage(c) PROVE TypeOK'
    <3>1. PICK m \in PeerMessages(c) :
           StartOp(c, RouteLock(m), Route(c, m), "read")
      BY <2>4 DEF ReadMessage
    <3>2. /\ Route(c, m) \in SUBSET Delivery
          /\ RouteLock(m) \in {"none", "read"}
      BY <3>1, PeerMessagesTyped, RouteTyped
    <3> QED
      BY <2>4, <3>1, <3>2 DEF ReadMessage, StartOp, TypeOK, registry, chan
  <2>5. ASSUME NEW c \in Conn, ReadError(c) PROVE TypeOK'
    BY <2>5 DEF ReadError, TypeOK, registry, job, chan, peer
  <2>6. ASSUME NEW c \in Conn, UnregisterClient(c) PROVE TypeOK'
    <3>1. LeaveNotices(c) \in SUBSET Delivery
      BY NoticesTyped
    <3>2. IdOf[c] \in Ident
      BY DEF HubAssumption
    <3>3. /\ senders' \in [Ident -> Conn \cup {NoConn}]
          /\ receivers' \in [Ident -> Conn \cup {NoConn}]
      BY <2>6, <3>2 DEF UnregisterClient, DeleteEntry, TypeOK
    <3> QED
      BY <2>6, <3>1, <3>3 DEF UnregisterClient, StartOp, TypeOK, chan, peer
  <2>7. ASSUME NEW c \in Conn, SendCheck(c) PROVE TypeOK'
    <3>1. PICK s \in todo[c] :
            /\ todo' = [todo EXCEPT ![c] = @ \ {s}]
            /\ IF closed[s.to]
               THEN UNCHANGED <<reader, cur>>
               ELSE /\ reader' = [reader EXCEPT ![c] = "push"]
                    /\ cur' = [cur EXCEPT ![c] = s]
      BY <2>7 DEF SendCheck, NextSends
    <3>2. s \in Delivery /\ todo[c] \ {s} \in SUBSET Delivery
      BY DEF TypeOK
    <3>3. /\ reader' \in [Conn -> {"idle", "read", "send", "push", "leave",
                                   "exit", "hangup", "done"}]
          /\ cur' \in [Conn -> Delivery]
          /\ todo' \in [Conn -> SUBSET Delivery]
      <4>1. todo' \in [Conn -> SUBSET Delivery]
        BY <3>1, <3>2 DEF TypeOK
      <4>2. CASE closed[s.to]
        BY <3>1, <4>1, <4>2 DEF TypeOK
      <4>3. CASE ~closed[s.to]
        <5>1. /\ reader' = [reader EXCEPT ![c] = "push"]
              /\ cur' = [cur EXCEPT ![c] = s]
          BY <3>1, <4>3
        <5>2. cur' \in [Conn -> Delivery]
          BY <3>2, <5>1 DEF TypeOK
        <5> QED
          BY <4>1, <5>1, <5>2 DEF TypeOK
      <4> QED
        BY <4>2, <4>3
    <3> QED
      BY <2>7, <3>3 DEF SendCheck, TypeOK, registry, chan, peer
  <2>8. ASSUME NEW c \in Conn, SendPush(c) PROVE TypeOK'
    <3>1. cur[c].to \in Conn /\ cur[c].msg \in Message
      BY DEF TypeOK, Delivery
    <3>2. /\ sendq' \in [Conn -> Seq(Message)]
          /\ \A d \in Conn : Len(sendq'[d]) <= SendCap
          /\ dropped' \in [Conn -> BOOLEAN]
      <4>1. CASE HasRoom(cur[c].to)
        <5> DEFINE r == cur[c].to
        <5>1. /\ sendq' = [sendq EXCEPT ![r] = Append(@, cur[c].msg)]
              /\ dropped' = dropped
          BY <2>8, <4>1 DEF SendPush
        <5>2. sendq[r] \in Seq(Message) /\ Len(sendq[r]) < SendCap
          BY <3>1, <4>1 DEF HasRoom, TypeOK
        <5>3. /\ Append(sendq[r], cur[c].msg) \in Seq(Message)
              /\ Len(Append(sendq[r], cur[c].msg)) = Len(sendq[r]) + 1
              /\ Len(sendq[r]) \in Nat
          BY <3>1, <5>2
        <5>4. Len(Append(sendq[r], cur[c].msg)) <= SendCap
          BY <5>2, <5>3 DEF HubAssumption
        <5> HIDE DEF r
        <5> QED
          BY <5>1, <5>3, <5>4 DEF TypeOK
      <4>2. CASE ~HasRoom(cur[c].to)
        BY <2>8, <3>1, <4>2 DEF SendPush, TypeOK
      <4> QED
        BY <4>1, <4>2
    <3>3. cur' \in [Conn -> Delivery]
      BY <2>8, NoSendTyped DEF SendPush, TypeOK
    <3> QED
      BY <2>8, <3>2, <3>3 DEF SendPush, TypeOK, registry, peer
  <2>9. ASSUME NEW c \in Conn, FinishOp(c) PROVE TypeOK'
    BY <2>9 DEF FinishOp, TypeOK, registry, chan, peer
  <2>10. ASSUME NEW c \in Conn, ReaderClose(c) PROVE TypeOK'
    BY <2>10 DEF ReaderClose, CloseChannel, AfterCheck, TypeOK,
       registry, job, peer
  <2>11. ASSUME NEW c \in Conn, ReaderHangup(c) PROVE TypeOK'
    BY <2>11 DEF ReaderHangup, CloseSocket, TypeOK, registry, job, chan
  <2>12. ASSUME NEW c \in Conn, WriteMessage(c) PROVE TypeOK'
    BY <2>12 DEF WriteMessage, TypeOK, registry, job
  <2>13. ASSUME NEW c \in Conn, WriteError(c) PROVE TypeOK'
    BY <2>13 DEF WriteError, TypeOK, registry, job, chan, peer
  <2>14. ASSUME NEW c \in Conn, WriteClose(c) PROVE TypeOK'
    <3>1. Msg("close_frame", IdOf[c]) \in Message
      BY DEF HubAssumption, Msg, Message, MsgType
    <3>2. inbox' \in [Conn -> Seq(Message)]
      BY <2>14, <3>1 DEF WriteClose, TypeOK
    <3> QED
      BY <2>14, <3>2 DEF WriteClose, TypeOK, registry, job, chan
  <2>15. ASSUME NEW c \in Conn, WriterClose(c) PROVE TypeOK'
    BY <2>15 DEF WriterClose, CloseChannel, AfterCheck, TypeOK,
       registry, job, peer
  <2>16. ASSUME NEW c \in Conn, WriterHangup(c) PROVE TypeOK'
    BY <2>16 DEF WriterHangup, CloseSocket, TypeOK, registry, job, chan
  <2>17. ASSUME NEW c \in Conn, PeerGone(c) PROVE TypeOK'
    BY <2>17 DEF PeerGone, TypeOK, registry, job, chan
  <2>18. CASE UNCHANGED vars
    BY <2>18 DEF TypeOK, vars
  <2> QED
    BY <2>1, <2>2, <2>3, <2>4, <2>5, <2>6, <2>7, <2>8, <2>9, <2>10, <2>11,
       <2>12, <2>13, <2>14, <2>15, <2>16, <2>17, <2>18
       DEF Next, ReaderStep, WriterStep, AllDone
<1> QED
  BY <1>1, <1>2, PTL DEF Spec

-----------------------------------------------------------------------------
(* No send on a closed channel: the mutex of the recipient is held from    *)
(* the look at closed to the push, and Close needs it.                     *)

(* Every step keeps a goroutine that is about to push on a channel from    *)
(* finding it closed.                                                      *)
LEMMA NoSendOnClosedStep ==
  ASSUME TypeOK, NoSendOnClosedChannel, [Next]_vars
  PROVE  NoSendOnClosedChannel'
<1>1. ASSUME NEW c \in Conn, AcceptReceiver(c) PROVE NoSendOnClosedChannel'
  BY <1>1 DEF AcceptReceiver, RegisterClient, StartOp,
     NoSendOnClosedChannel, TypeOK, registry, job, chan, peer
<1>2. ASSUME NEW c \in Conn, AcceptSender(c) PROVE NoSendOnClosedChannel'
  BY <1>2 DEF AcceptSender, NoSendOnClosedChannel, TypeOK, registry, job,
     chan, peer
<1>3. ASSUME NEW c \in Conn, ReadRegister(c) PROVE NoSendOnClosedChannel'
  BY <1>3 DEF ReadRegister, RegisterClient, StartOp,
     NoSendOnClosedChannel, TypeOK, registry, job, chan, peer
<1>4. ASSUME NEW c \in Conn, ReadMessage(c) PROVE NoSendOnClosedChannel'
  BY <1>4 DEF ReadMessage, StartOp, NoSendOnClosedChannel, TypeOK,
     registry, job, chan, peer
<1>5. ASSUME NEW c \in Conn, ReadError(c) PROVE NoSendOnClosedChannel'
  BY <1>5 DEF ReadError, NoSendOnClosedChannel, TypeOK, registry, job,
     chan, peer
<1>6. ASSUME NEW c \in Conn, UnregisterClient(c) PROVE NoSendOnClosedChannel'
  BY <1>6 DEF UnregisterClient, StartOp, NoSendOnClosedChannel, TypeOK,
     registry, job, chan, peer
<1>7. ASSUME NEW c \in Conn, SendCheck(c) PROVE NoSendOnClosedChannel'
  BY <1>7 DEF SendCheck, NoSendOnClosedChannel, TypeOK, registry, job,
     chan, peer
<1>8. ASSUME NEW c \in Conn, SendPush(c) PROVE NoSendOnClosedChannel'
  BY <1>8 DEF SendPush, NoSendOnClosedChannel, TypeOK, registry, job,
     chan, peer
<1>9. ASSUME NEW c \in Conn, FinishOp(c) PROVE NoSendOnClosedChannel'
  BY <1>9 DEF FinishOp, NoSendOnClosedChannel, TypeOK, registry, job,
     chan, peer
<1>10. ASSUME NEW c \in Conn, ReaderClose(c) PROVE NoSendOnClosedChannel'
  BY <1>10 DEF ReaderClose, CloseChannel, AfterCheck, MuFree,
     NoSendOnClosedChannel, TypeOK, registry, job, chan, peer
<1>11. ASSUME NEW c \in Conn, ReaderHangup(c) PROVE NoSendOnClosedChannel'
  BY <1>11 DEF ReaderHangup, NoSendOnClosedChannel, TypeOK, registry, job,
     chan, peer
<1>12. ASSUME NEW c \in Conn, WriteMessage(c) PROVE NoSendOnClosedChannel'
  BY <1>12 DEF WriteMessage, NoSendOnClosedChannel, TypeOK, registry, job,
     chan, peer
<1>13. ASSUME NEW c \in Conn, WriteError(c) PROVE NoSendOnClosedChannel'
  BY <1>13 DEF WriteError, NoSendOnClosedChannel, TypeOK, registry, job,
     chan, peer
<1>14. ASSUME NEW c \in Conn, WriteClose(c) PROVE NoSendOnClosedChannel'
  BY <1>14 DEF WriteClose, NoSendOnClosedChannel, TypeOK, registry, job,
     chan, peer
<1>15. ASSUME NEW c \in Conn, WriterClose(c) PROVE NoSendOnClosedChannel'
  BY <1>15 DEF WriterClose, CloseChannel, AfterCheck, MuFree,
     NoSendOnClosedChannel, TypeOK, registry, job, chan, peer
<1>16. ASSUME NEW c \in Conn, WriterHangup(c) PROVE NoSendOnClosedChannel'
  BY <1>16 DEF WriterHangup, NoSendOnClosedChannel, TypeOK, registry, job,
     chan, peer
<1>17. ASSUME NEW c \in Conn, PeerGone(c) PROVE NoSendOnClosedChannel'
  BY <1>17 DEF PeerGone, NoSendOnClosedChannel, TypeOK, registry, job,
     chan, peer
<1>18. CASE UNCHANGED vars
  BY <1>18 DEF NoSendOnClosedChannel, TypeOK, vars
<1> QED
  BY <1>1, <1>2, <1>3, <1>4, <1>5, <1>6, <1>7, <1>8, <1>9, <1>10,
     <1>11, <1>12, <1>13, <1>14, <1>15, <1>16, <1>17, <1>18
     DEF Next, ReaderStep, WriterStep, AllDone

(* No goroutine ever pushes on a closed channel, which would panic and     *)
(* take the server down (client.go:46-57, 118-127).                        *)
THEOREM NoPanic == ASSUME HubAssumption PROVE Spec => []NoSendOnClosedChannel
<1>1. Init => NoSendOnClosedChannel
  BY DEF Init, NoSendOnClosedChannel
<1> QED
  BY <1>1, NoSendOnClosedStep, TypeCorrect, PTL DEF Spec

-----------------------------------------------------------------------------
(* The read-write lock excludes, and only hub operations hold it.          *)

LockInv ==
  /\ \A c, d \in Conn : c # d /\ lock[c] = "write" => lock[d] = "none"
  /\ \A c \in Conn : lock[c] # "none" => reader[c] \in {"send", "push"}

(* Every step keeps the discipline of h.mu: only the two kinds of hub      *)
(* operation hold it, and a writer alone.                                  *)
LEMMA LockStep ==
  ASSUME TypeOK, LockInv, [Next]_vars
  PROVE  LockInv'
<1>1. ASSUME NEW c \in Conn, AcceptReceiver(c) PROVE LockInv'
  BY <1>1 DEF AcceptReceiver, RegisterClient, StartOp, WriteLockFree,
     LockInv, TypeOK, registry, job, chan, peer
<1>2. ASSUME NEW c \in Conn, AcceptSender(c) PROVE LockInv'
  BY <1>2 DEF AcceptSender, LockInv, TypeOK, registry, job, chan, peer
<1>3. ASSUME NEW c \in Conn, ReadRegister(c) PROVE LockInv'
  BY <1>3 DEF ReadRegister, RegisterClient, StartOp, WriteLockFree,
     LockInv, TypeOK, registry, job, chan, peer
<1>4. ASSUME NEW c \in Conn, ReadMessage(c) PROVE LockInv'
  BY <1>4 DEF ReadMessage, StartOp, RouteLock, ReadLockFree, LockInv,
     TypeOK, registry, job, chan, peer
<1>5. ASSUME NEW c \in Conn, ReadError(c) PROVE LockInv'
  BY <1>5 DEF ReadError, LockInv, TypeOK, registry, job, chan, peer
<1>6. ASSUME NEW c \in Conn, UnregisterClient(c) PROVE LockInv'
  BY <1>6 DEF UnregisterClient, StartOp, WriteLockFree, LockInv, TypeOK,
     registry, job, chan, peer
<1>7. ASSUME NEW c \in Conn, SendCheck(c) PROVE LockInv'
  <2>1. lock' = lock
    BY <1>7 DEF SendCheck
  <2>2. \A d \in Conn : reader[d] \in {"send", "push"}
                          => reader'[d] \in {"send", "push"}
    BY <1>7 DEF SendCheck, TypeOK
  <2> QED
    BY <2>1, <2>2 DEF LockInv
<1>8. ASSUME NEW c \in Conn, SendPush(c) PROVE LockInv'
  BY <1>8 DEF SendPush, LockInv, TypeOK, registry, job, chan, peer
<1>9. ASSUME NEW c \in Conn, FinishOp(c) PROVE LockInv'
  BY <1>9 DEF FinishOp, LockInv, TypeOK, registry, job, chan, peer
<1>10. ASSUME NEW c \in Conn, ReaderClose(c) PROVE LockInv'
  BY <1>10 DEF ReaderClose, CloseChannel, AfterCheck, LockInv, TypeOK,
     registry, job, chan, peer
<1>11. ASSUME NEW c \in Conn, ReaderHangup(c) PROVE LockInv'
  BY <1>11 DEF ReaderHangup, LockInv, TypeOK, registry, job, chan, peer
<1>12. ASSUME NEW c \in Conn, WriteMessage(c) PROVE LockInv'
  BY <1>12 DEF WriteMessage, LockInv, TypeOK, registry, job, chan, peer
<1>13. ASSUME NEW c \in Conn, WriteError(c) PROVE LockInv'
  BY <1>13 DEF WriteError, LockInv, TypeOK, registry, job, chan, peer
<1>14. ASSUME NEW c \in Conn, WriteClose(c) PROVE LockInv'
  BY <1>14 DEF WriteClose, LockInv, TypeOK, registry, job, chan, peer
<1>15. ASSUME NEW c \in Conn, WriterClose(c) PROVE LockInv'
  BY <1>15 DEF WriterClose, CloseChannel, AfterCheck, LockInv, TypeOK,
     registry, job, chan, peer
<1>16. ASSUME NEW c \in Conn, WriterHangup(c) PROVE LockInv'
  BY <1>16 DEF WriterHangup, LockInv, TypeOK, registry, job, chan, peer
<1>17. ASSUME NEW c \in Conn, PeerGone(c) PROVE LockInv'
  BY <1>17 DEF PeerGone, LockInv, TypeOK, registry, job, chan, peer
<1>18. CASE UNCHANGED vars
  BY <1>18 DEF LockInv, TypeOK, vars
<1> QED
  BY <1>1, <1>2, <1>3, <1>4, <1>5, <1>6, <1>7, <1>8, <1>9, <1>10,
     <1>11, <1>12, <1>13, <1>14, <1>15, <1>16, <1>17, <1>18
     DEF Next, ReaderStep, WriterStep, AllDone

(* h.mu is only held inside a hub operation, by one writer or by readers   *)
(* (hub.go:77-203).                                                        *)
THEOREM LockCorrect == ASSUME HubAssumption PROVE Spec => []LockInv
<1>1. Init => LockInv
  BY DEF Init, LockInv
<1> QED
  BY <1>1, LockStep, TypeCorrect, PTL DEF Spec

-----------------------------------------------------------------------------
(* What is listed is in session.                                           *)

(* Registering puts a connection in session into the map of its role. *)
LEMMA RegisterListsSession ==
  ASSUME HubAssumption, TypeOK, NoStaleEntry, NEW c \in Conn,
         NEW back \in {"start", "read"}, RegisterClient(c, back)
  PROVE  NoStaleEntry'
<1>1. \A d \in Conn : d = c \/ InSession(d) => InSession(d)'
  BY DEF RegisterClient, StartOp, InSession, TypeOK
<1>2. IdOf[c] \in Ident /\ NoConn \notin Conn
  BY DEF HubAssumption
<1>3. CASE RoleOf[c] = "sender"
  <2>1. senders' = [senders EXCEPT ![IdOf[c]] = c] /\ receivers' = receivers
    BY <1>3 DEF RegisterClient
  <2> QED
    BY <1>1, <1>2, <1>3, <2>1 DEF NoStaleEntry, TypeOK
<1>4. CASE RoleOf[c] # "sender"
  <2>1. receivers' = [receivers EXCEPT ![IdOf[c]] = c] /\ senders' = senders
    BY <1>4 DEF RegisterClient
  <2>2. RoleOf[c] = "receiver"
    BY <1>4 DEF HubAssumption
  <2> QED
    BY <1>1, <1>2, <2>1, <2>2 DEF NoStaleEntry, TypeOK
<1> QED
  BY <1>3, <1>4

(* Unregistering takes out the entry under the id of the leaving client,   *)
(* so that no entry is left for it.                                        *)
LEMMA UnregisterListsSession ==
  ASSUME HubAssumption, TypeOK, NoStaleEntry, NEW c \in Conn,
         UnregisterClient(c)
  PROVE  NoStaleEntry'
<1>1. \A d \in Conn : d # c /\ InSession(d) => InSession(d)'
  BY DEF UnregisterClient, StartOp, InSession, TypeOK
<1>2. IdOf[c] \in Ident /\ NoConn \notin Conn
  BY DEF HubAssumption
<1>3. \A i \in Ident :
        /\ senders'[i] # NoConn =>
             senders'[i] = senders[i] /\ senders[i] # c
        /\ receivers'[i] # NoConn =>
             receivers'[i] = receivers[i] /\ receivers[i] # c
  <2>1. CASE RoleOf[c] = "sender"
    <3>1. /\ senders' = [senders EXCEPT ![IdOf[c]] = NoConn]
          /\ receivers' = receivers
      BY <2>1 DEF UnregisterClient, DeleteEntry
    <3> QED
      BY <1>2, <2>1, <3>1 DEF NoStaleEntry, TypeOK
  <2>2. CASE RoleOf[c] # "sender"
    <3>1. /\ receivers' = [receivers EXCEPT ![IdOf[c]] = NoConn]
          /\ senders' = senders
      BY <2>2 DEF UnregisterClient, DeleteEntry
    <3> QED
      BY <1>2, <2>2, <3>1 DEF NoStaleEntry, TypeOK
  <2> QED
    BY <2>1, <2>2
<1>4. ASSUME NEW i \in Ident, senders'[i] # NoConn
      PROVE  /\ IdOf[senders'[i]] = i
             /\ RoleOf[senders'[i]] = "sender"
             /\ InSession(senders[i])'
  <2>1. senders[i] \in Conn \ {c} /\ senders'[i] = senders[i]
    <3>1. senders[i] \in Conn \cup {NoConn}
      BY DEF TypeOK
    <3>2. senders'[i] = senders[i] /\ senders[i] # c
      BY <1>3, <1>4
    <3> QED
      BY <1>4, <3>1, <3>2
  <2>2. InSession(senders[i]) /\ IdOf[senders[i]] = i
          /\ RoleOf[senders[i]] = "sender"
    BY <1>4, <2>1 DEF NoStaleEntry
  <2>3. InSession(senders[i])'
    BY <1>1, <2>1, <2>2
  <2> QED
    BY <2>1, <2>2, <2>3
<1>5. ASSUME NEW i \in Ident, receivers'[i] # NoConn
      PROVE  /\ IdOf[receivers'[i]] = i
             /\ RoleOf[receivers'[i]] = "receiver"
             /\ InSession(receivers[i])'
  <2>1. receivers[i] \in Conn \ {c} /\ receivers'[i] = receivers[i]
    <3>1. receivers[i] \in Conn \cup {NoConn}
      BY DEF TypeOK
    <3>2. receivers'[i] = receivers[i] /\ receivers[i] # c
      BY <1>3, <1>5
    <3> QED
      BY <1>5, <3>1, <3>2
  <2>2. InSession(receivers[i]) /\ IdOf[receivers[i]] = i
          /\ RoleOf[receivers[i]] = "receiver"
    BY <1>5, <2>1 DEF NoStaleEntry
  <2>3. InSession(receivers[i])'
    BY <1>1, <2>1, <2>2
  <2> QED
    BY <2>1, <2>2, <2>3
<1> QED
  BY <1>4, <1>5 DEF NoStaleEntry

(* Every step keeps the entries of the maps real. *)
LEMMA NoStaleEntryStep ==
  ASSUME HubAssumption, TypeOK, NoStaleEntry, [Next]_vars
  PROVE  NoStaleEntry'
<1>1. ASSUME NEW c \in Conn, AcceptReceiver(c) PROVE NoStaleEntry'
  BY <1>1, RegisterListsSession DEF AcceptReceiver
<1>2. ASSUME NEW c \in Conn, AcceptSender(c) PROVE NoStaleEntry'
  BY <1>2 DEF AcceptSender, NoStaleEntry, InSession, TypeOK,
     HubAssumption, registry, job, chan, peer
<1>3. ASSUME NEW c \in Conn, ReadRegister(c) PROVE NoStaleEntry'
  BY <1>3, RegisterListsSession DEF ReadRegister
<1>4. ASSUME NEW c \in Conn, ReadMessage(c) PROVE NoStaleEntry'
  BY <1>4 DEF ReadMessage, StartOp, NoStaleEntry, InSession, TypeOK,
     HubAssumption, registry, job, chan, peer
<1>5. ASSUME NEW c \in Conn, ReadError(c) PROVE NoStaleEntry'
  BY <1>5 DEF ReadError, NoStaleEntry, InSession, TypeOK, HubAssumption,
     registry, job, chan, peer
<1>6. ASSUME NEW c \in Conn, UnregisterClient(c) PROVE NoStaleEntry'
  BY <1>6, UnregisterListsSession
<1>7. ASSUME NEW c \in Conn, SendCheck(c) PROVE NoStaleEntry'
  BY <1>7 DEF SendCheck, NoStaleEntry, InSession, TypeOK, HubAssumption,
     registry, job, chan, peer
<1>8. ASSUME NEW c \in Conn, SendPush(c) PROVE NoStaleEntry'
  BY <1>8 DEF SendPush, NoStaleEntry, InSession, TypeOK, HubAssumption,
     registry, job, chan, peer
<1>9. ASSUME NEW c \in Conn, FinishOp(c) PROVE NoStaleEntry'
  BY <1>9 DEF FinishOp, NoStaleEntry, InSession, TypeOK, HubAssumption,
     registry, job, chan, peer
<1>10. ASSUME NEW c \in Conn, ReaderClose(c) PROVE NoStaleEntry'
  BY <1>10 DEF ReaderClose, CloseChannel, AfterCheck, NoStaleEntry,
     InSession, TypeOK, HubAssumption, registry, job, chan, peer
<1>11. ASSUME NEW c \in Conn, ReaderHangup(c) PROVE NoStaleEntry'
  BY <1>11 DEF ReaderHangup, NoStaleEntry, InSession, TypeOK,
     HubAssumption, registry, job, chan, peer
<1>12. ASSUME NEW c \in Conn, WriteMessage(c) PROVE NoStaleEntry'
  BY <1>12 DEF WriteMessage, NoStaleEntry, InSession, TypeOK,
     HubAssumption, registry, job, chan, peer
<1>13. ASSUME NEW c \in Conn, WriteError(c) PROVE NoStaleEntry'
  BY <1>13 DEF WriteError, NoStaleEntry, InSession, TypeOK, HubAssumption,
     registry, job, chan, peer
<1>14. ASSUME NEW c \in Conn, WriteClose(c) PROVE NoStaleEntry'
  BY <1>14 DEF WriteClose, NoStaleEntry, InSession, TypeOK, HubAssumption,
     registry, job, chan, peer
<1>15. ASSUME NEW c \in Conn, WriterClose(c) PROVE NoStaleEntry'
  BY <1>15 DEF WriterClose, CloseChannel, AfterCheck, NoStaleEntry,
     InSession, TypeOK, HubAssumption, registry, job, chan, peer
<1>16. ASSUME NEW c \in Conn, WriterHangup(c) PROVE NoStaleEntry'
  BY <1>16 DEF WriterHangup, NoStaleEntry, InSession, TypeOK,
     HubAssumption, registry, job, chan, peer
<1>17. ASSUME NEW c \in Conn, PeerGone(c) PROVE NoStaleEntry'
  BY <1>17 DEF PeerGone, NoStaleEntry, InSession, TypeOK, HubAssumption,
     registry, job, chan, peer
<1>18. CASE UNCHANGED vars
  BY <1>18 DEF NoStaleEntry, InSession, TypeOK, HubAssumption, vars
<1> QED
  BY <1>1, <1>2, <1>3, <1>4, <1>5, <1>6, <1>7, <1>8, <1>9, <1>10,
     <1>11, <1>12, <1>13, <1>14, <1>15, <1>16, <1>17, <1>18
     DEF Next, ReaderStep, WriterStep, AllDone

(* Every entry of the hub's maps is a registered connection whose ReadPump *)
(* still runs (hub.go:77-156, client.go:60-83).                            *)
THEOREM ListedInSession == ASSUME HubAssumption PROVE Spec => []NoStaleEntry
<1>1. Init => NoStaleEntry
  BY DEF Init, NoStaleEntry
<1> QED
  BY <1>1, NoStaleEntryStep, TypeCorrect, PTL DEF Spec

-----------------------------------------------------------------------------
(* A broadcast under h.mu reaches clients of one registry.                 *)

(* Which connections are listed depends on the two maps only. *)
LEMMA MappedByRegistry ==
  ASSUME UNCHANGED <<senders, receivers>>
  PROVE  \A d \in Conn : Mapped(d)' <=> Mapped(d)
BY DEF Mapped, Senders, Receivers

(* The notices of a join or leave go to listed clients. *)
LEMMA RegisterBroadcast ==
  ASSUME HubAssumption, TypeOK, BroadcastSeesOneRegistry, NEW c \in Conn,
         NEW back \in {"start", "read"}, RegisterClient(c, back)
  PROVE  BroadcastSeesOneRegistry'
<1>1. \A d \in Conn : d # c => lock'[d] = "none"
  BY DEF RegisterClient, StartOp, WriteLockFree, TypeOK
<1>2. todo'[c] = JoinNotices(c) /\ reader'[c] = "send"
  BY DEF RegisterClient, StartOp, TypeOK
<1>3. RoleOf[c] = "sender" => Receivers' = Receivers
  BY DEF RegisterClient, Receivers
<1>4. RoleOf[c] # "sender" => Senders' = Senders
  BY DEF RegisterClient, Senders
<1>5. \A s \in JoinNotices(c) : Mapped(s.to)' \/ s.to = c
  BY <1>3, <1>4 DEF JoinNotices, ToEach, Mapped
<1> QED
  BY <1>1, <1>2, <1>5 DEF BroadcastSeesOneRegistry

(* What a leave sends goes to clients that are still listed. *)
LEMMA UnregisterBroadcast ==
  ASSUME HubAssumption, TypeOK, BroadcastSeesOneRegistry, NEW c \in Conn,
         UnregisterClient(c)
  PROVE  BroadcastSeesOneRegistry'
<1>1. \A d \in Conn : d # c => lock'[d] = "none"
  BY DEF UnregisterClient, StartOp, WriteLockFree, TypeOK
<1>2. todo'[c] = LeaveNotices(c) /\ reader'[c] = "send"
  BY DEF UnregisterClient, StartOp, TypeOK
<1>3. RoleOf[c] = "sender" => Receivers' = Receivers
  BY DEF UnregisterClient, DeleteEntry, Receivers
<1>4. RoleOf[c] # "sender" => Senders' = Senders
  BY DEF UnregisterClient, DeleteEntry, Senders
<1>5. \A s \in LeaveNotices(c) : Mapped(s.to)' \/ s.to = c
  BY <1>3, <1>4 DEF LeaveNotices, ToEach, Mapped
<1> QED
  BY <1>1, <1>2, <1>5 DEF BroadcastSeesOneRegistry

(* A routed message goes to listed clients too. *)
LEMMA RouteBroadcast ==
  ASSUME HubAssumption, TypeOK, BroadcastSeesOneRegistry, NEW c \in Conn,
         ReadMessage(c)
  PROVE  BroadcastSeesOneRegistry'
<1>1. PICK m \in PeerMessages(c) :
       StartOp(c, RouteLock(m), Route(c, m), "read")
  BY DEF ReadMessage
<1>2. m \in Message
  BY PeerMessagesTyped
<1>3. m.id \in Ident
  BY <1>2 DEF Message
<1>4. \A s \in Route(c, m) : Mapped(s.to) \/ s.to = c
  BY <1>3 DEF Route, ToEach, Mapped, Senders
<1>5. \A d \in Conn : Mapped(d)' <=> Mapped(d)
  BY MappedByRegistry DEF ReadMessage, registry
<1>6. Route(c, m) \in SUBSET Delivery
  BY <1>2, RouteTyped
<1>7. /\ todo' = [todo EXCEPT ![c] = Route(c, m)]
      /\ reader' = [reader EXCEPT ![c] = "send"]
      /\ lock' = [lock EXCEPT ![c] = RouteLock(m)]
      /\ cur' = cur
  BY <1>1 DEF StartOp
<1> QED
  BY <1>4, <1>5, <1>6, <1>7 DEF BroadcastSeesOneRegistry, TypeOK, Delivery

(* Every step keeps the Sends still to be made addressed to listed clients. *)
LEMMA BroadcastStep ==
  ASSUME HubAssumption, TypeOK, LockInv, BroadcastSeesOneRegistry, [Next]_vars
  PROVE  BroadcastSeesOneRegistry'
<1>1. ASSUME NEW c \in Conn, AcceptReceiver(c) PROVE BroadcastSeesOneRegistry'
  BY <1>1, RegisterBroadcast DEF AcceptReceiver
<1>2. ASSUME NEW c \in Conn, AcceptSender(c) PROVE BroadcastSeesOneRegistry'
  BY <1>2, MappedByRegistry DEF AcceptSender, BroadcastSeesOneRegistry,
     LockInv, TypeOK, Delivery, registry, job, chan, peer
<1>3. ASSUME NEW c \in Conn, ReadRegister(c) PROVE BroadcastSeesOneRegistry'
  BY <1>3, RegisterBroadcast DEF ReadRegister
<1>4. ASSUME NEW c \in Conn, ReadMessage(c) PROVE BroadcastSeesOneRegistry'
  BY <1>4, RouteBroadcast
<1>5. ASSUME NEW c \in Conn, ReadError(c) PROVE BroadcastSeesOneRegistry'
  BY <1>5, MappedByRegistry DEF ReadError, BroadcastSeesOneRegistry,
     LockInv, TypeOK, Delivery, registry, job, chan, peer
<1>6. ASSUME NEW c \in Conn, UnregisterClient(c)
      PROVE BroadcastSeesOneRegistry'
  BY <1>6, UnregisterBroadcast
<1>7. ASSUME NEW c \in Conn, SendCheck(c) PROVE BroadcastSeesOneRegistry'
  <2>1. PICK s \in todo[c] :
          /\ todo' = [todo EXCEPT ![c] = todo[c] \ {s}]
          /\ IF closed[s.to]
             THEN UNCHANGED <<reader, cur>>
             ELSE /\ reader' = [reader EXCEPT ![c] = "push"]
                  /\ cur' = [cur EXCEPT ![c] = s]
    BY <1>7 DEF SendCheck, NextSends
  <2>2. UNCHANGED <<senders, receivers, lock>> /\ reader[c] = "send"
    BY <1>7 DEF SendCheck, registry
  <2>3. \A d \in Conn : todo'[d] \subseteq todo[d]
    BY <2>1 DEF TypeOK
  <2>4. \A d \in Conn : reader'[d] = "push" =>
          cur'[d] \in todo[d] \/ (reader[d] = "push" /\ cur'[d] = cur[d])
    <3>1. CASE closed[s.to]
      BY <2>1, <3>1
    <3>2. CASE ~closed[s.to]
      BY <2>1, <3>2 DEF TypeOK
    <3> QED
      BY <3>1, <3>2
  <2>5. \A d \in Conn : \A t \in todo[d] : t.to \in Conn
    BY DEF TypeOK, Delivery
  <2>6. \A d \in Conn : cur[d].to \in Conn
    BY DEF TypeOK, Delivery
  <2> QED
    BY <2>2, <2>3, <2>4, <2>5, <2>6, MappedByRegistry
       DEF BroadcastSeesOneRegistry
<1>8. ASSUME NEW c \in Conn, SendPush(c) PROVE BroadcastSeesOneRegistry'
  BY <1>8, MappedByRegistry DEF SendPush, BroadcastSeesOneRegistry,
     LockInv, TypeOK, Delivery, registry, job, chan, peer
<1>9. ASSUME NEW c \in Conn, FinishOp(c) PROVE BroadcastSeesOneRegistry'
  BY <1>9, MappedByRegistry DEF FinishOp, BroadcastSeesOneRegistry,
     LockInv, TypeOK, Delivery, registry, job, chan, peer
<1>10. ASSUME NEW c \in Conn, ReaderClose(c) PROVE BroadcastSeesOneRegistry'
  BY <1>10, MappedByRegistry DEF ReaderClose, CloseChannel, AfterCheck,
     BroadcastSeesOneRegistry, LockInv, TypeOK, Delivery, registry, job,
     chan, peer
<1>11. ASSUME NEW c \in Conn, ReaderHangup(c) PROVE BroadcastSeesOneRegistry'
  BY <1>11, MappedByRegistry DEF ReaderHangup, BroadcastSeesOneRegistry,
     LockInv, TypeOK, Delivery, registry, job, chan, peer
<1>12. ASSUME NEW c \in Conn, WriteMessage(c) PROVE BroadcastSeesOneRegistry'
  BY <1>12, MappedByRegistry DEF WriteMessage, BroadcastSeesOneRegistry,
     LockInv, TypeOK, Delivery, registry, job, chan, peer
<1>13. ASSUME NEW c \in Conn, WriteError(c) PROVE BroadcastSeesOneRegistry'
  BY <1>13, MappedByRegistry DEF WriteError, BroadcastSeesOneRegistry,
     LockInv, TypeOK, Delivery, registry, job, chan, peer
<1>14. ASSUME NEW c \in Conn, WriteClose(c) PROVE BroadcastSeesOneRegistry'
  BY <1>14, MappedByRegistry DEF WriteClose, BroadcastSeesOneRegistry,
     LockInv, TypeOK, Delivery, registry, job, chan, peer
<1>15. ASSUME NEW c \in Conn, WriterClose(c) PROVE BroadcastSeesOneRegistry'
  BY <1>15, MappedByRegistry DEF WriterClose, CloseChannel, AfterCheck,
     BroadcastSeesOneRegistry, LockInv, TypeOK, Delivery, registry, job,
     chan, peer
<1>16. ASSUME NEW c \in Conn, WriterHangup(c) PROVE BroadcastSeesOneRegistry'
  BY <1>16, MappedByRegistry DEF WriterHangup, BroadcastSeesOneRegistry,
     LockInv, TypeOK, Delivery, registry, job, chan, peer
<1>17. ASSUME NEW c \in Conn, PeerGone(c) PROVE BroadcastSeesOneRegistry'
  BY <1>17, MappedByRegistry DEF PeerGone, BroadcastSeesOneRegistry,
     LockInv, TypeOK, Delivery, registry, job, chan, peer
<1>18. CASE UNCHANGED vars
  BY <1>18, MappedByRegistry DEF BroadcastSeesOneRegistry, LockInv,
     TypeOK, Delivery, vars
<1> QED
  BY <1>1, <1>2, <1>3, <1>4, <1>5, <1>6, <1>7, <1>8, <1>9, <1>10,
     <1>11, <1>12, <1>13, <1>14, <1>15, <1>16, <1>17, <1>18
     DEF Next, ReaderStep, WriterStep, AllDone

(* While h.mu is held the recipients of a broadcast stay listed: no join   *)
(* or leave gets between the Sends of one hub operation (hub.go:77-255).   *)
THEOREM BroadcastConsistent ==
  ASSUME HubAssumption PROVE Spec => []BroadcastSeesOneRegistry
<1>1. Init => BroadcastSeesOneRegistry
  BY DEF Init, BroadcastSeesOneRegistry
<1> QED
  BY <1>1, BroadcastStep, LockCorrect, TypeCorrect, PTL DEF Spec

-----------------------------------------------------------------------------
(* As long as no connection leaves while another one is in session under   *)
(* its role and id, every client in session is listed.  Ids may be used    *)
(* again: a client that comes back has to do so after its old connection   *)
(* was taken out.  One that leaves counts even if it never registered.     *)

LeavesAlone ==
  \A c, d \in Conn :
    reader[c] = "leave" /\ InSession(d)
      /\ RoleOf[c] = RoleOf[d] /\ IdOf[c] = IdOf[d] => c = d

(* Registration comes after the connection is accepted. *)
RegInv == \A c \in Conn : reader[c] = "idle" => ~registered[c]

(* Every step keeps unaccepted connections unregistered. *)
LEMMA RegStep ==
  ASSUME TypeOK, RegInv, [Next]_vars
  PROVE  RegInv'
<1>1. ASSUME NEW c \in Conn, AcceptReceiver(c) PROVE RegInv'
  BY <1>1 DEF AcceptReceiver, RegisterClient, StartOp, RegInv, TypeOK,
     registry, job, chan, peer
<1>2. ASSUME NEW c \in Conn, AcceptSender(c) PROVE RegInv'
  BY <1>2 DEF AcceptSender, RegInv, TypeOK, registry, job, chan, peer
<1>3. ASSUME NEW c \in Conn, ReadRegister(c) PROVE RegInv'
  BY <1>3 DEF ReadRegister, RegisterClient, StartOp, RegInv, TypeOK,
     registry, job, chan, peer
<1>4. ASSUME NEW c \in Conn, ReadMessage(c) PROVE RegInv'
  BY <1>4 DEF ReadMessage, StartOp, RegInv, TypeOK, registry, job, chan,
     peer
<1>5. ASSUME NEW c \in Conn, ReadError(c) PROVE RegInv'
  BY <1>5 DEF ReadError, RegInv, TypeOK, registry, job, chan, peer
<1>6. ASSUME NEW c \in Conn, UnregisterClient(c) PROVE RegInv'
  BY <1>6 DEF UnregisterClient, StartOp, RegInv, TypeOK, registry, job,
     chan, peer
<1>7. ASSUME NEW c \in Conn, SendCheck(c) PROVE RegInv'
  BY <1>7 DEF SendCheck, RegInv, TypeOK, registry, job, chan, peer
<1>8. ASSUME NEW c \in Conn, SendPush(c) PROVE RegInv'
  BY <1>8 DEF SendPush, RegInv, TypeOK, registry, job, chan, peer
<1>9. ASSUME NEW c \in Conn, FinishOp(c) PROVE RegInv'
  BY <1>9 DEF FinishOp, RegInv, TypeOK, registry, job, chan, peer
<1>10. ASSUME NEW c \in Conn, ReaderClose(c) PROVE RegInv'
  BY <1>10 DEF ReaderClose, CloseChannel, AfterCheck, RegInv, TypeOK,
     registry, job, chan, peer
<1>11. ASSUME NEW c \in Conn, ReaderHangup(c) PROVE RegInv'
  BY <1>11 DEF ReaderHangup, RegInv, TypeOK, registry, job, chan, peer
<1>12. ASSUME NEW c \in Conn, WriteMessage(c) PROVE RegInv'
  BY <1>12 DEF WriteMessage, RegInv, TypeOK, registry, job, chan, peer
<1>13. ASSUME NEW c \in Conn, WriteError(c) PROVE RegInv'
  BY <1>13 DEF WriteError, RegInv, TypeOK, registry, job, chan, peer
<1>14. ASSUME NEW c \in Conn, WriteClose(c) PROVE RegInv'
  BY <1>14 DEF WriteClose, RegInv, TypeOK, registry, job, chan, peer
<1>15. ASSUME NEW c \in Conn, WriterClose(c) PROVE RegInv'
  BY <1>15 DEF WriterClose, CloseChannel, AfterCheck, RegInv, TypeOK,
     registry, job, chan, peer
<1>16. ASSUME NEW c \in Conn, WriterHangup(c) PROVE RegInv'
  BY <1>16 DEF WriterHangup, RegInv, TypeOK, registry, job, chan, peer
<1>17. ASSUME NEW c \in Conn, PeerGone(c) PROVE RegInv'
  BY <1>17 DEF PeerGone, RegInv, TypeOK, registry, job, chan, peer
<1>18. CASE UNCHANGED vars
  BY <1>18 DEF RegInv, TypeOK, vars
<1> QED
  BY <1>1, <1>2, <1>3, <1>4, <1>5, <1>6, <1>7, <1>8, <1>9, <1>10,
     <1>11, <1>12, <1>13, <1>14, <1>15, <1>16, <1>17, <1>18
     DEF Next, ReaderStep, WriterStep, AllDone

(* Registering lists the new session and drops no other id's entry. *)
LEMMA RegisterSession ==
  ASSUME HubAssumption, TypeOK, SessionIsListed, NEW c \in Conn,
         NEW back \in {"start", "read"}, RegisterClient(c, back)
  PROVE  SessionIsListed'
<1>1. \A d \in Conn : d # c /\ InSession(d)' => InSession(d)
  BY DEF RegisterClient, StartOp, InSession, TypeOK
<1>2. /\ IdOf \in [Conn -> Ident]
      /\ NoConn \notin Conn
  BY DEF HubAssumption
<1>3. \A i \in Ident :
        /\ senders[i] # NoConn => senders'[i] # NoConn
        /\ receivers[i] # NoConn => receivers'[i] # NoConn
  BY <1>2 DEF RegisterClient, TypeOK
<1>4. IF RoleOf[c] = "sender" THEN senders'[IdOf[c]] # NoConn
                              ELSE receivers'[IdOf[c]] # NoConn
  BY <1>2 DEF RegisterClient, TypeOK
<1> QED
  BY <1>1, <1>2, <1>3, <1>4 DEF SessionIsListed

(* A client that leaves alone takes out no entry that a session needs. *)
LEMMA UnregisterSession ==
  ASSUME HubAssumption, LeavesAlone, TypeOK, SessionIsListed, NEW c \in Conn,
         UnregisterClient(c)
  PROVE  SessionIsListed'
<1>1. \A d \in Conn : InSession(d)' => d # c /\ InSession(d)
  BY DEF UnregisterClient, StartOp, InSession, TypeOK
<1>2. /\ IdOf \in [Conn -> Ident]
      /\ RoleOf \in [Conn -> {"sender", "receiver"}]
  BY DEF HubAssumption
<1>3. \A i \in Ident :
        /\ i # IdOf[c] \/ RoleOf[c] # "sender" => senders'[i] = senders[i]
        /\ i # IdOf[c] \/ RoleOf[c] = "sender" => receivers'[i] = receivers[i]
  BY <1>2 DEF UnregisterClient, DeleteEntry, TypeOK
<1>4. \A d \in Conn : InSession(d)' /\ RoleOf[d] = RoleOf[c] => IdOf[d] # IdOf[c]
  BY <1>1 DEF LeavesAlone, UnregisterClient
<1> QED
  BY <1>1, <1>2, <1>3, <1>4 DEF SessionIsListed

(* Every step keeps every session listed. *)
LEMMA SessionStep ==
  ASSUME HubAssumption, LeavesAlone, TypeOK, RegInv, SessionIsListed,
         [Next]_vars
  PROVE  SessionIsListed'
<1>1. ASSUME NEW c \in Conn, AcceptReceiver(c) PROVE SessionIsListed'
  BY <1>1, RegisterSession DEF AcceptReceiver
<1>2. ASSUME NEW c \in Conn, AcceptSender(c) PROVE SessionIsListed'
  BY <1>2 DEF AcceptSender, SessionIsListed, InSession, RegInv, TypeOK,
     registry, job, chan, peer
<1>3. ASSUME NEW c \in Conn, ReadRegister(c) PROVE SessionIsListed'
  BY <1>3, RegisterSession DEF ReadRegister
<1>4. ASSUME NEW c \in Conn, ReadMessage(c) PROVE SessionIsListed'
  BY <1>4 DEF ReadMessage, StartOp, SessionIsListed, InSession, RegInv,
     TypeOK, registry, job, chan, peer
<1>5. ASSUME NEW c \in Conn, ReadError(c) PROVE SessionIsListed'
  BY <1>5 DEF ReadError, SessionIsListed, InSession, RegInv, TypeOK,
     registry, job, chan, peer
<1>6. ASSUME NEW c \in Conn, UnregisterClient(c) PROVE SessionIsListed'
  BY <1>6, UnregisterSession
<1>7. ASSUME NEW c \in Conn, SendCheck(c) PROVE SessionIsListed'
  BY <1>7 DEF SendCheck, SessionIsListed, InSession, RegInv, TypeOK,
     registry, job, chan, peer
<1>8. ASSUME NEW c \in Conn, SendPush(c) PROVE SessionIsListed'
  BY <1>8 DEF SendPush, SessionIsListed, InSession, RegInv, TypeOK,
     registry, job, chan, peer
<1>9. ASSUME NEW c \in Conn, FinishOp(c) PROVE SessionIsListed'
  BY <1>9 DEF FinishOp, SessionIsListed, InSession, RegInv, TypeOK,
     registry, job, chan, peer
<1>10. ASSUME NEW c \in Conn, ReaderClose(c) PROVE SessionIsListed'
  BY <1>10 DEF ReaderClose, CloseChannel, AfterCheck, SessionIsListed,
     InSession, RegInv, TypeOK, registry, job, chan, peer
<1>11. ASSUME NEW c \in Conn, ReaderHangup(c) PROVE SessionIsListed'
  BY <1>11 DEF ReaderHangup, SessionIsListed, InSession, RegInv, TypeOK,
     registry, job, chan, peer
<1>12. ASSUME NEW c \in Conn, WriteMessage(c) PROVE SessionIsListed'
  BY <1>12 DEF WriteMessage, SessionIsListed, InSession, RegInv, TypeOK,
     registry, job, chan, peer
<1>13. ASSUME NEW c \in Conn, WriteError(c) PROVE SessionIsListed'
  BY <1>13 DEF WriteError, SessionIsListed, InSession, RegInv, TypeOK,
     registry, job, chan, peer
<1>14. ASSUME NEW c \in Conn, WriteClose(c) PROVE SessionIsListed'
  BY <1>14 DEF WriteClose, SessionIsListed, InSession, RegInv, TypeOK,
     registry, job, chan, peer
<1>15. ASSUME NEW c \in Conn, WriterClose(c) PROVE SessionIsListed'
  BY <1>15 DEF WriterClose, CloseChannel, AfterCheck, SessionIsListed,
     InSession, RegInv, TypeOK, registry, job, chan, peer
<1>16. ASSUME NEW c \in Conn, WriterHangup(c) PROVE SessionIsListed'
  BY <1>16 DEF WriterHangup, SessionIsListed, InSession, RegInv, TypeOK,
     registry, job, chan, peer
<1>17. ASSUME NEW c \in Conn, PeerGone(c) PROVE SessionIsListed'
  BY <1>17 DEF PeerGone, SessionIsListed, InSession, RegInv, TypeOK,
     registry, job, chan, peer
<1>18. CASE UNCHANGED vars
  BY <1>18 DEF SessionIsListed, InSession, RegInv, TypeOK, vars
<1> QED
  BY <1>1, <1>2, <1>3, <1>4, <1>5, <1>6, <1>7, <1>8, <1>9, <1>10,
     <1>11, <1>12, <1>13, <1>14, <1>15, <1>16, <1>17, <1>18
     DEF Next, ReaderStep, WriterStep, AllDone

(* While no connection leaves with another one of its role and id in       *)
(* session, every client in session is listed: what UnregisterClient       *)
(* promises (hub.go:124-156), and what the run with a shared id shows to   *)
(* fail for a client that comes back before its old connection has gone.   *)
THEOREM EverySessionListed ==
  ASSUME HubAssumption PROVE Spec /\ []LeavesAlone => []SessionIsListed
<1>1. Init => RegInv /\ SessionIsListed
  BY DEF Init, RegInv, SessionIsListed, InSession
<1>2. TypeOK /\ RegInv /\ [Next]_vars => RegInv'
  BY RegStep
<1>3. TypeOK /\ RegInv /\ LeavesAlone /\ SessionIsListed /\ [Next]_vars
        => SessionIsListed'
  BY SessionStep
<1> QED
  BY <1>1, <1>2, <1>3, TypeCorrect, PTL DEF Spec

-----------------------------------------------------------------------------
(* How a connection ends: what the liveness of BrokenIsReaped rests on.    *)

(* Whoever closed the channel has closed the socket or is about to; a pump *)
(* that is past Close has closed the channel, and both pumps were started  *)
(* before either could end.                                                *)
TeardownInv ==
  \A c \in Conn :
    /\ closed[c] => \/ sock[c] = "closed"
                    \/ reader[c] = "hangup" \/ writer[c] = "hangup"
    /\ reader[c] \in {"hangup", "done"} \/ writer[c] \in {"hangup", "done"}
         => closed[c]
    /\ reader[c] = "idle" => writer[c] = "idle" /\ ~closed[c]
    /\ ret[c] = "start" => reader[c] \in {"send", "push"} /\ writer[c] = "idle"
    /\ writer[c] = "idle" => reader[c] = "idle" \/ ret[c] = "start"

(* Every step keeps the order in which a connection is torn down. *)
LEMMA TeardownStep ==
  ASSUME TypeOK, TeardownInv, [Next]_vars
  PROVE  TeardownInv'
<1>1. ASSUME NEW c \in Conn, AcceptReceiver(c) PROVE TeardownInv'
  BY <1>1 DEF AcceptReceiver, RegisterClient, StartOp, TeardownInv, TypeOK,
     registry, job, chan, peer
<1>2. ASSUME NEW c \in Conn, AcceptSender(c) PROVE TeardownInv'
  BY <1>2 DEF AcceptSender, TeardownInv, TypeOK,
     registry, job, chan, peer
<1>3. ASSUME NEW c \in Conn, ReadRegister(c) PROVE TeardownInv'
  BY <1>3 DEF ReadRegister, RegisterClient, StartOp, TeardownInv, TypeOK,
     registry, job, chan, peer
<1>4. ASSUME NEW c \in Conn, ReadMessage(c) PROVE TeardownInv'
  BY <1>4 DEF ReadMessage, StartOp, TeardownInv, TypeOK,
     registry, job, chan, peer
<1>5. ASSUME NEW c \in Conn, ReadError(c) PROVE TeardownInv'
  BY <1>5 DEF ReadError, TeardownInv, TypeOK,
     registry, job, chan, peer
<1>6. ASSUME NEW c \in Conn, UnregisterClient(c) PROVE TeardownInv'
  BY <1>6 DEF UnregisterClient, StartOp, TeardownInv, TypeOK,
     registry, job, chan, peer
<1>7. ASSUME NEW c \in Conn, SendCheck(c) PROVE TeardownInv'
  BY <1>7 DEF SendCheck, TeardownInv, TypeOK,
     registry, job, chan, peer
<1>8. ASSUME NEW c \in Conn, SendPush(c) PROVE TeardownInv'
  BY <1>8 DEF SendPush, TeardownInv, TypeOK,
     registry, job, chan, peer
<1>9. ASSUME NEW c \in Conn, FinishOp(c) PROVE TeardownInv'
  <2>1. /\ closed' = closed /\ sock' = sock
        /\ \A d \in Conn \ {c} : /\ reader'[d] = reader[d] /\ ret'[d] = ret[d]
                                 /\ writer'[d] = writer[d]
    BY <1>9 DEF FinishOp, TypeOK, chan, peer
  <2>2. /\ reader[c] = "send" /\ reader'[c] \in {"exit", "read"}
        /\ ret'[c] = "read"
        /\ writer'[c] = IF ret[c] = "start" THEN "run" ELSE writer[c]
    BY <1>9 DEF FinishOp, TypeOK
  <2> QED
    BY <2>1, <2>2 DEF TeardownInv
<1>10. ASSUME NEW c \in Conn, ReaderClose(c) PROVE TeardownInv'
  BY <1>10 DEF ReaderClose, CloseChannel, AfterCheck, TeardownInv, TypeOK,
     registry, job, chan, peer
<1>11. ASSUME NEW c \in Conn, ReaderHangup(c) PROVE TeardownInv'
  BY <1>11 DEF ReaderHangup, CloseSocket, TeardownInv, TypeOK,
     registry, job, chan, peer
<1>12. ASSUME NEW c \in Conn, WriteMessage(c) PROVE TeardownInv'
  BY <1>12 DEF WriteMessage, TeardownInv, TypeOK,
     registry, job, chan, peer
<1>13. ASSUME NEW c \in Conn, WriteError(c) PROVE TeardownInv'
  BY <1>13 DEF WriteError, TeardownInv, TypeOK,
     registry, job, chan, peer
<1>14. ASSUME NEW c \in Conn, WriteClose(c) PROVE TeardownInv'
  BY <1>14 DEF WriteClose, TeardownInv, TypeOK,
     registry, job, chan, peer
<1>15. ASSUME NEW c \in Conn, WriterClose(c) PROVE TeardownInv'
  BY <1>15 DEF WriterClose, CloseChannel, AfterCheck, TeardownInv, TypeOK,
     registry, job, chan, peer
<1>16. ASSUME NEW c \in Conn, WriterHangup(c) PROVE TeardownInv'
  BY <1>16 DEF WriterHangup, CloseSocket, TeardownInv, TypeOK,
     registry, job, chan, peer
<1>17. ASSUME NEW c \in Conn, PeerGone(c) PROVE TeardownInv'
  BY <1>17 DEF PeerGone, TeardownInv, TypeOK,
     registry, job, chan, peer
<1>18. CASE UNCHANGED vars
  BY <1>18 DEF TeardownInv, TypeOK, vars
<1> QED
  BY <1>1, <1>2, <1>3, <1>4, <1>5, <1>6, <1>7, <1>8, <1>9, <1>10,
     <1>11, <1>12, <1>13, <1>14, <1>15, <1>16, <1>17, <1>18
     DEF Next, ReaderStep, WriterStep, AllDone

(* When one pump of a connection has ended, the other one is there and will *)
(* find out: the channel is closed, and the socket is closed or the other   *)
(* pump is just closing it.  A connection whose ReadPump has ended is in    *)
(* neither map (client.go:60-83, 85-127).                                  *)
PumpsEndTogether ==
  \A c \in Conn :
    /\ reader[c] = "done" => writer[c] # "idle" /\ ~Mapped(c)
    /\ reader[c] = "done" \/ writer[c] = "done" =>
         /\ closed[c]
         /\ sock[c] = "closed" \/ reader[c] = "hangup" \/ writer[c] = "hangup"

(* PumpsEndTogether always holds: neither pump outlives the other without  *)
(* a signal that stops it, whichever ended first.                          *)
THEOREM PumpsStopEachOther ==
  ASSUME HubAssumption PROVE Spec => []PumpsEndTogether
<1>1. Init => TeardownInv
  BY DEF Init, TeardownInv
<1>2. TypeOK /\ TeardownInv /\ [Next]_vars => TeardownInv'
  BY TeardownStep
<1>3. TypeOK /\ TeardownInv /\ NoStaleEntry => PumpsEndTogether
  <2> SUFFICES ASSUME TypeOK, TeardownInv, NoStaleEntry, NEW c \in Conn
               PROVE  /\ reader[c] = "done" => writer[c] # "idle" /\ ~Mapped(c)
                      /\ reader[c] = "done" \/ writer[c] = "done" =>
                           /\ closed[c]
                           /\ \/ sock[c] = "closed"
                              \/ reader[c] = "hangup" \/ writer[c] = "hangup"
    BY DEF PumpsEndTogether
  <2>1. Mapped(c) => InSession(c)
    BY DEF NoStaleEntry, Mapped, Senders, Receivers
  <2> QED
    BY <2>1 DEF TeardownInv, InSession
<1> QED
  BY <1>1, <1>2, <1>3, TypeCorrect, ListedInSession, PTL DEF Spec

-----------------------------------------------------------------------------
(* A client's mutex excludes.                                              *)

(* At most one goroutine is between taking c.mu and releasing it: one that *)
(* pushes on the channel of c, or a pump of c that closes the socket       *)
(* (client.go:46-57, 118-127).                                             *)
MutexInv ==
  /\ \A c, d \in Conn :
       reader[c] = "push" /\ reader[d] = "push" /\ cur[c].to = cur[d].to => c = d
  /\ \A c \in Conn : reader[c] = "push" =>
       reader[cur[c].to] # "hangup" /\ writer[cur[c].to] # "hangup"
  /\ \A c \in Conn : ~(reader[c] = "hangup" /\ writer[c] = "hangup")

(* Every step keeps the clients' mutexes exclusive. *)
LEMMA MutexStep ==
  ASSUME TypeOK, TeardownInv, MutexInv, [Next]_vars
  PROVE  MutexInv'
<1>1. ASSUME NEW c \in Conn, AcceptReceiver(c) PROVE MutexInv'
  BY <1>1 DEF AcceptReceiver, RegisterClient, StartOp, MutexInv, TypeOK, Delivery,
     registry, job, chan, peer
<1>2. ASSUME NEW c \in Conn, AcceptSender(c) PROVE MutexInv'
  BY <1>2 DEF AcceptSender, MutexInv, TypeOK, Delivery,
     registry, job, chan, peer
<1>3. ASSUME NEW c \in Conn, ReadRegister(c) PROVE MutexInv'
  BY <1>3 DEF ReadRegister, RegisterClient, StartOp, MutexInv, TypeOK, Delivery,
     registry, job, chan, peer
<1>4. ASSUME NEW c \in Conn, ReadMessage(c) PROVE MutexInv'
  BY <1>4 DEF ReadMessage, StartOp, MutexInv, TypeOK, Delivery,
     registry, job, chan, peer
<1>5. ASSUME NEW c \in Conn, ReadError(c) PROVE MutexInv'
  BY <1>5 DEF ReadError, MutexInv, TypeOK, Delivery,
     registry, job, chan, peer
<1>6. ASSUME NEW c \in Conn, UnregisterClient(c) PROVE MutexInv'
  BY <1>6 DEF UnregisterClient, StartOp, MutexInv, TypeOK, Delivery,
     registry, job, chan, peer
<1>7. ASSUME NEW c \in Conn, SendCheck(c) PROVE MutexInv'
  <2>1. PICK s \in NextSends(c) :
          /\ MuFree(s.to)
          /\ IF closed[s.to]
             THEN UNCHANGED <<reader, cur>>
             ELSE /\ reader' = [reader EXCEPT ![c] = "push"]
                  /\ cur' = [cur EXCEPT ![c] = s]
    BY <1>7 DEF SendCheck
  <2>2. writer' = writer /\ s.to \in Conn /\ reader[c] = "send"
    BY <1>7 DEF SendCheck, NextSends, TypeOK, Delivery
  <2>3. CASE closed[s.to]
    BY <2>1, <2>2, <2>3 DEF MutexInv
  <2>4. CASE ~closed[s.to]
    <3>1. /\ reader'[c] = "push" /\ cur'[c] = s
          /\ \A d \in Conn \ {c} : reader'[d] = reader[d] /\ cur'[d] = cur[d]
      BY <2>1, <2>4 DEF TypeOK
    <3>2. /\ \A d \in Conn : reader[d] = "push" => cur[d].to # s.to
          /\ reader[s.to] # "hangup" /\ writer[s.to] # "hangup"
      BY <2>1 DEF MuFree
    <3>3. \A d \in Conn : cur[d].to \in Conn
      BY DEF TypeOK, Delivery
    <3> QED
      BY <2>2, <3>1, <3>2, <3>3 DEF MutexInv
  <2> QED
    BY <2>3, <2>4
<1>8. ASSUME NEW c \in Conn, SendPush(c) PROVE MutexInv'
  BY <1>8 DEF SendPush, MutexInv, TypeOK, Delivery,
     registry, job, chan, peer
<1>9. ASSUME NEW c \in Conn, FinishOp(c) PROVE MutexInv'
  BY <1>9 DEF FinishOp, MutexInv, TypeOK, Delivery,
     registry, job, chan, peer
<1>10. ASSUME NEW c \in Conn, ReaderClose(c) PROVE MutexInv'
  BY <1>10 DEF ReaderClose, CloseChannel, AfterCheck, MuFree, TeardownInv, MutexInv, TypeOK, Delivery,
     registry, job, chan, peer
<1>11. ASSUME NEW c \in Conn, ReaderHangup(c) PROVE MutexInv'
  BY <1>11 DEF ReaderHangup, CloseSocket, MutexInv, TypeOK, Delivery,
     registry, job, chan, peer
<1>12. ASSUME NEW c \in Conn, WriteMessage(c) PROVE MutexInv'
  BY <1>12 DEF WriteMessage, MutexInv, TypeOK, Delivery,
     registry, job, chan, peer
<1>13. ASSUME NEW c \in Conn, WriteError(c) PROVE MutexInv'
  BY <1>13 DEF WriteError, MutexInv, TypeOK, Delivery,
     registry, job, chan, peer
<1>14. ASSUME NEW c \in Conn, WriteClose(c) PROVE MutexInv'
  BY <1>14 DEF WriteClose, MutexInv, TypeOK, Delivery,
     registry, job, chan, peer
<1>15. ASSUME NEW c \in Conn, WriterClose(c) PROVE MutexInv'
  BY <1>15 DEF WriterClose, CloseChannel, AfterCheck, MuFree, TeardownInv, MutexInv, TypeOK, Delivery,
     registry, job, chan, peer
<1>16. ASSUME NEW c \in Conn, WriterHangup(c) PROVE MutexInv'
  BY <1>16 DEF WriterHangup, CloseSocket, MutexInv, TypeOK, Delivery,
     registry, job, chan, peer
<1>17. ASSUME NEW c \in Conn, PeerGone(c) PROVE MutexInv'
  BY <1>17 DEF PeerGone, MutexInv, TypeOK, Delivery,
     registry, job, chan, peer
<1>18. CASE UNCHANGED vars
  BY <1>18 DEF MutexInv, TypeOK, Delivery, vars
<1> QED
  BY <1>1, <1>2, <1>3, <1>4, <1>5, <1>6, <1>7, <1>8, <1>9, <1>10,
     <1>11, <1>12, <1>13, <1>14, <1>15, <1>16, <1>17, <1>18
     DEF Next, ReaderStep, WriterStep, AllDone

(* MutexInv always holds: no two threads write a socket or close a channel *)
(* at once (client.go:43-57, 103-127).                                     *)
THEOREM ClientMutexExcludes ==
  ASSUME HubAssumption PROVE Spec => []MutexInv
<1>1. Init => TeardownInv /\ MutexInv
  BY DEF Init, TeardownInv, MutexInv
<1>2. TypeOK /\ TeardownInv /\ [Next]_vars => TeardownInv'
  BY TeardownStep
<1>3. TypeOK /\ TeardownInv /\ MutexInv /\ [Next]_vars => MutexInv'
  BY MutexStep
<1> QED
  BY <1>1, <1>2, <1>3, TypeCorrect, PTL DEF Spec

=============================================================================
