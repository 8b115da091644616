------------------------------ MODULE Presence ------------------------------
(***************************************************************************)
(* What the signaling server promises its clients about each other, with   *)
(* no goroutine, lock, channel or socket: a registry of the clients that   *)
(* are there, and a stream of messages to each connection.  Whoever        *)
(* changes the registry owes notices, and nobody else changes it, and no   *)
(* offer, answer or candidate is relayed, before they have been given.     *)
(* Only a connection that is broken is not given one.  SignalingHub        *)
(* implements this specification.                                          *)
(***************************************************************************)
EXTENDS Naturals, Sequences

CONSTANTS Conn, Ident, NoConn, IdOf, RoleOf

VARIABLES
  senders, receivers, \* who is there: id -> connection, or NoConn
  joined,             \* connections that have joined
  owed,               \* notices not yet given
  stream,             \* what each connection was sent
  broken              \* connections that may miss messages

vars == <<senders, receivers, joined, owed, stream, broken>>

PresenceAssumption ==
  /\ IdOf \in [Conn -> Ident]
  /\ RoleOf \in [Conn -> {"sender", "receiver"}]
  /\ NoConn \notin Conn

Notice == {"sender_joined", "sender_left", "receiver_joined", "receiver_left"}
Relayed == {"offer", "answer", "ice_candidate"}
Private == {"clock_sync_response", "clock_sync_browser_response"}

Message ==
  [type : Notice \cup Relayed \cup Private \cup {"close_frame"}, id : Ident]

Msg(type, id) == [type |-> type, id |-> id]

Listed(map) == {map[i] : i \in Ident} \ {NoConn}

ToEach(C, m) == {[to |-> c, msg |-> m] : c \in C}

-----------------------------------------------------------------------------
Init ==
  /\ senders = [i \in Ident |-> NoConn]
  /\ receivers = [i \in Ident |-> NoConn]
  /\ joined = {}
  /\ owed = {}
  /\ stream = [c \in Conn |-> <<>>]
  /\ broken = {}

(* A connection joins once, and takes the place of one with its id. *)
Join(c) ==
  /\ c \notin joined
  /\ owed = {}
  /\ joined' = joined \cup {c}
  /\ \/ /\ RoleOf[c] = "sender"
        /\ senders' = [senders EXCEPT ![IdOf[c]] = c]
        /\ owed' = ToEach(Listed(receivers), Msg("sender_joined", IdOf[c]))
        /\ UNCHANGED receivers
     \/ /\ RoleOf[c] = "receiver"
        /\ receivers' = [receivers EXCEPT ![IdOf[c]] = c]
        /\ owed' = ToEach(Listed(senders), Msg("receiver_joined", IdOf[c]))
                     \cup {[to |-> c, msg |-> Msg("sender_joined", i)] :
                             i \in {j \in Ident : senders[j] # NoConn}}
        /\ UNCHANGED senders
  /\ UNCHANGED <<stream, broken>>

(* The id of a connection leaves, whoever has it by then. *)
Leave(c) ==
  /\ owed = {}
  /\ \/ /\ RoleOf[c] = "sender"
        /\ senders' = [senders EXCEPT ![IdOf[c]] = NoConn]
        /\ owed' = ToEach(Listed(receivers), Msg("sender_left", IdOf[c]))
        /\ UNCHANGED receivers
     \/ /\ RoleOf[c] = "receiver"
        /\ receivers' = [receivers EXCEPT ![IdOf[c]] = NoConn]
        /\ owed' = ToEach(Listed(senders), Msg("receiver_left", IdOf[c]))
        /\ UNCHANGED senders
  /\ UNCHANGED <<joined, stream, broken>>

Put(c, m) == stream' = [stream EXCEPT ![c] = Append(@, m)]

Give(d) ==
  /\ d \in owed
  /\ owed' = owed \ {d}
  /\ Put(d.to, d.msg)
  /\ UNCHANGED <<senders, receivers, joined, broken>>

(* A notice is not given to a connection that is, or is then, broken. *)
Miss(d) ==
  /\ d \in owed
  /\ owed' = owed \ {d}
  /\ broken' = broken \cup {d.to}
  /\ UNCHANGED <<senders, receivers, joined, stream>>

Relay(c, m) ==
  /\ owed = {}
  /\ c \in Listed(senders) \cup Listed(receivers)
  /\ m.type \in Relayed
  /\ Put(c, m)
  /\ UNCHANGED <<senders, receivers, joined, owed, broken>>

(* Clock sync answers depend on nobody else; a broken connection may be    *)
(* sent a close frame.                                                     *)
Tell(c, m) ==
  /\ m.type \in Private \/ (m.type = "close_frame" /\ c \in broken)
  /\ Put(c, m)
  /\ UNCHANGED <<senders, receivers, joined, owed, broken>>

Break(c) ==
  /\ broken' = broken \cup {c}
  /\ UNCHANGED <<senders, receivers, joined, owed, stream>>

(* Messages to a broken connection may be lost. *)
Without(q, k) ==
  [i \in 1 .. Len(q) - 1 |-> IF i < k THEN q[i] ELSE q[i + 1]]

Lose(c) ==
  /\ c \in broken
  /\ \E k \in 1 .. Len(stream[c]) :
       stream' = [stream EXCEPT ![c] = Without(@, k)]
  /\ UNCHANGED <<senders, receivers, joined, owed, broken>>

Next ==
  \/ \E c \in Conn : Join(c) \/ Leave(c) \/ Break(c) \/ Lose(c)
  \/ \E d \in owed : Give(d) \/ Miss(d)
  \/ \E c \in Conn, m \in Message : Relay(c, m) \/ Tell(c, m)

Spec == Init /\ [][Next]_vars

-----------------------------------------------------------------------------
(* The last message of a stream with one of two types about id i.          *)
LastIs(q, i, came, went) ==
  \E k \in DOMAIN q :
    /\ q[k] = Msg(came, i)
    /\ \A j \in k + 1 .. Len(q) : q[j] # Msg(went, i)

(* When no notice is owed, every listed receiver was told of every sender  *)
(* id exactly what is true of it, whatever joined, left and came back; no  *)
(* listed sender believes in a receiver whose id is gone.  Excepted are    *)
(* connections that are broken.                                            *)
View ==
  owed = {} =>
    /\ \A i \in Ident :
         receivers[i] # NoConn /\ receivers[i] \notin broken =>
           \A j \in Ident :
             LastIs(stream[receivers[i]], j, "sender_joined", "sender_left")
               <=> senders[j] # NoConn
    /\ \A j \in Ident :
         senders[j] # NoConn /\ senders[j] \notin broken =>
           \A i \in Ident :
             LastIs(stream[senders[j]], i, "receiver_joined", "receiver_left")
               => receivers[i] # NoConn
=============================================================================
