--------------------------- MODULE PresenceProofs ---------------------------
(* Proof that a server that keeps the promise of Presence gives every      *)
(* client a true view of the others, for any connections and ids.          *)
EXTENDS Presence, TLAPS

Delivery == [to : Conn, msg : Message]

SJoined(c, i) == [to |-> c, msg |-> Msg("sender_joined", i)]
SLeft(c, i) == [to |-> c, msg |-> Msg("sender_left", i)]
RJoined(c, i) == [to |-> c, msg |-> Msg("receiver_joined", i)]
RLeft(c, i) == [to |-> c, msg |-> Msg("receiver_left", i)]

(* Every variable has its type. *)
TypeOK ==
  /\ senders \in [Ident -> Conn \cup {NoConn}]
  /\ receivers \in [Ident -> Conn \cup {NoConn}]
  /\ joined \in SUBSET Conn
  /\ owed \in SUBSET Delivery
  /\ stream \in [Conn -> Seq(Message)]
  /\ broken \in SUBSET Conn

(* An entry of the registry is a connection of that id that has joined. *)
ListedJoined ==
  \A i \in Ident :
    /\ senders[i] # NoConn => IdOf[senders[i]] = i /\ senders[i] \in joined
    /\ receivers[i] # NoConn =>
         IdOf[receivers[i]] = i /\ receivers[i] \in joined

(* A notice that is owed is true, and owed to a connection that joined. *)
OwedIsTrue ==
  \A d \in owed :
    /\ d.to \in joined
    /\ \/ d.msg.type = "sender_joined" /\ senders[d.msg.id] # NoConn
       \/ d.msg.type = "sender_left" /\ senders[d.msg.id] = NoConn
       \/ d.msg.type = "receiver_joined" /\ receivers[d.msg.id] # NoConn
       \/ d.msg.type = "receiver_left" /\ receivers[d.msg.id] = NoConn

(* Before it joins, a connection is given no notice. *)
NoNotice(q) == \A k \in DOMAIN q : q[k].type \notin Notice

QuietBefore == \A c \in Conn \ (joined \cup broken) : NoNotice(stream[c])

(* What each client was told is true, but for what it is still owed. *)
ToldOfSenders ==
  \A i, j \in Ident :
    receivers[i] # NoConn /\ receivers[i] \notin broken
      /\ SJoined(receivers[i], j) \notin owed
      /\ SLeft(receivers[i], j) \notin owed
    => (LastIs(stream[receivers[i]], j, "sender_joined", "sender_left")
          <=> senders[j] # NoConn)

ToldOfReceivers ==
  \A i, j \in Ident :
    senders[j] # NoConn /\ senders[j] \notin broken
      /\ RLeft(senders[j], i) \notin owed
      /\ LastIs(stream[senders[j]], i, "receiver_joined", "receiver_left")
    => receivers[i] # NoConn

Inv ==
  /\ TypeOK /\ ListedJoined /\ OwedIsTrue /\ QuietBefore
  /\ ToldOfSenders /\ ToldOfReceivers

-----------------------------------------------------------------------------
(* One more message decides, if it is of one of the two types. *)
LEMMA LastIsAppend ==
  ASSUME NEW S, NEW q \in Seq(S), NEW m \in S, NEW i, NEW a, NEW b,
         Msg(a, i) # Msg(b, i)
  PROVE  LastIs(Append(q, m), i, a, b)
           <=> m = Msg(a, i) \/ (m # Msg(b, i) /\ LastIs(q, i, a, b))
<1> DEFINE p == Append(q, m)
           n == Len(q)
<1>1. /\ p \in Seq(S) /\ Len(p) = n + 1 /\ n \in Nat
      /\ p[n + 1] = m
      /\ \A k \in 1 .. n : p[k] = q[k]
  OBVIOUS
<1>2. DOMAIN p = 1 .. n + 1 /\ DOMAIN q = 1 .. n
  BY <1>1
<1> HIDE DEF p, n
<1>3. ASSUME m = Msg(a, i)
      PROVE  LastIs(p, i, a, b)
  <2>1. n + 1 \in DOMAIN p /\ \A j \in (n + 1) + 1 .. Len(p) : FALSE
    BY <1>1, <1>2
  <2> QED
    BY <2>1, <1>1, <1>3 DEF LastIs
<1>4. ASSUME m # Msg(b, i), LastIs(q, i, a, b)
      PROVE  LastIs(p, i, a, b)
  <2>1. PICK k \in 1 .. n : /\ q[k] = Msg(a, i)
                            /\ \A j \in k + 1 .. n : q[j] # Msg(b, i)
    BY <1>2, <1>4 DEF LastIs, n
  <2>2. k \in DOMAIN p /\ p[k] = Msg(a, i)
    BY <1>1, <1>2, <2>1
  <2>3. ASSUME NEW j \in k + 1 .. n + 1
        PROVE  p[j] # Msg(b, i)
    <3>1. CASE j = n + 1
      BY <3>1, <1>1, <1>4
    <3>2. CASE j # n + 1
      <4>1. j \in k + 1 .. n /\ j \in 1 .. n
        BY <3>2, <1>1
      <4> QED
        BY <4>1, <1>1, <2>1
    <3> QED
      BY <3>1, <3>2
  <2> QED
    BY <2>2, <2>3, <1>1 DEF LastIs
<1>5. ASSUME LastIs(p, i, a, b), m # Msg(a, i)
      PROVE  m # Msg(b, i) /\ LastIs(q, i, a, b)
  <2>1. PICK k \in 1 .. n + 1 :
          /\ p[k] = Msg(a, i)
          /\ \A j \in k + 1 .. n + 1 : p[j] # Msg(b, i)
    BY <1>1, <1>2, <1>5 DEF LastIs
  <2>2. k # n + 1
    BY <1>1, <1>5, <2>1
  <2>3. k \in 1 .. n /\ n + 1 \in k + 1 .. n + 1
    BY <1>1, <2>2
  <2>4. m # Msg(b, i)
    BY <1>1, <2>1, <2>3
  <2>5. q[k] = Msg(a, i)
    BY <1>1, <2>1, <2>3
  <2>6. ASSUME NEW j \in k + 1 .. n
        PROVE  q[j] # Msg(b, i)
    <3>1. j \in 1 .. n /\ j \in k + 1 .. n + 1
      BY <1>1, <2>3
    <3> QED
      BY <3>1, <1>1, <2>1
  <2> QED
    BY <1>2, <2>3, <2>4, <2>5, <2>6 DEF LastIs, n
<1> QED
  BY <1>3, <1>4, <1>5 DEF p

(* Where no notice is, none is the last. *)
LEMMA QuietNotLast ==
  ASSUME NEW q, NoNotice(q), NEW i, NEW a \in Notice, NEW b
  PROVE  ~LastIs(q, i, a, b)
BY DEF NoNotice, LastIs, Msg

(* The four kinds of notices differ. *)
LEMMA NoticesDiffer ==
  ASSUME NEW i, NEW j
  PROVE  /\ Msg("sender_joined", i) # Msg("sender_left", j)
         /\ Msg("receiver_joined", i) # Msg("receiver_left", j)
         /\ Msg("sender_joined", i) # Msg("receiver_joined", j)
         /\ Msg("sender_joined", i) # Msg("receiver_left", j)
         /\ Msg("sender_left", i) # Msg("receiver_joined", j)
         /\ Msg("sender_left", i) # Msg("receiver_left", j)
<1> DEFINE sj(k) == Msg("sender_joined", k)
           sl(k) == Msg("sender_left", k)
           rj(k) == Msg("receiver_joined", k)
           rl(k) == Msg("receiver_left", k)
<1>1. /\ sj(i).type = "sender_joined" /\ sl(j).type = "sender_left"
      /\ rj(i).type = "receiver_joined" /\ rl(j).type = "receiver_left"
      /\ rj(j).type = "receiver_joined" /\ sl(i).type = "sender_left"
  BY DEF Msg
<1> QED
  BY <1>1

-----------------------------------------------------------------------------
(* What a join and a leave leave true.                                     *)

LEMMA JoinStep ==
  ASSUME PresenceAssumption, Inv, NEW c \in Conn, Join(c)
  PROVE  Inv'
<1> USE DEF Inv
<1>1. /\ owed = {} /\ c \notin joined /\ joined' = joined \cup {c}
      /\ stream' = stream /\ broken' = broken
      /\ IdOf[c] \in Ident /\ c # NoConn /\ NoConn \notin Conn
  BY DEF Join, PresenceAssumption
<1>2. Listed(senders) \subseteq joined /\ Listed(receivers) \subseteq joined
  BY DEF Listed, ListedJoined
<1>3. QuietBefore'
  BY <1>1 DEF QuietBefore
<1>4. \A i \in Ident : \A t \in Notice : Msg(t, i) \in Message
  BY DEF Msg, Message
<1>5. CASE RoleOf[c] = "sender"
  <2>1. /\ senders' = [senders EXCEPT ![IdOf[c]] = c]
        /\ receivers' = receivers
        /\ owed' = ToEach(Listed(receivers), Msg("sender_joined", IdOf[c]))
    BY <1>5 DEF Join
  <2>2. \A i \in Ident : senders'[i] = IF i = IdOf[c] THEN c ELSE senders[i]
    BY <2>1 DEF TypeOK
  <2>3. \A d \in owed' : /\ d.to \in Listed(receivers)
                         /\ d.msg = Msg("sender_joined", IdOf[c])
    BY <2>1 DEF ToEach
  <2>4. \A r \in Listed(receivers) : SJoined(r, IdOf[c]) \in owed'
    BY <2>1 DEF ToEach, SJoined
  <2>5. TypeOK'
    <3>1. Listed(receivers) \subseteq Conn
      BY <1>2 DEF TypeOK
    <3>2. owed' \in SUBSET Delivery
      BY <3>1, <2>1, <1>1, <1>4 DEF ToEach, Delivery, Notice
    <3> QED
      BY <3>2, <1>1, <2>1 DEF TypeOK
  <2>6. ListedJoined'
    BY <1>1, <2>1, <2>2 DEF ListedJoined
  <2>7. OwedIsTrue'
    <3> SUFFICES ASSUME NEW d \in owed'
                 PROVE  /\ d.to \in joined'
                        /\ d.msg.type = "sender_joined"
                        /\ senders'[d.msg.id] # NoConn
      BY DEF OwedIsTrue
    <3>1. d.to \in joined' /\ d.msg = Msg("sender_joined", IdOf[c])
      BY <1>1, <1>2, <2>3
    <3>2. d.msg.type = "sender_joined" /\ d.msg.id = IdOf[c]
      BY <3>1 DEF Msg
    <3> QED
      BY <1>1, <2>2, <3>1, <3>2
  <2>8. ToldOfSenders'
    <3> SUFFICES ASSUME NEW i \in Ident, NEW j \in Ident,
                        receivers[i] # NoConn, receivers[i] \notin broken,
                        SJoined(receivers[i], j) \notin owed'
                 PROVE  LastIs(stream[receivers[i]], j, "sender_joined",
                               "sender_left") <=> senders'[j] # NoConn
      BY <1>1, <2>1 DEF ToldOfSenders
    <3>1. receivers[i] \in Listed(receivers)
      BY DEF Listed
    <3>2. j # IdOf[c]
      BY <2>4, <3>1
    <3>3. senders'[j] = senders[j]
      BY <2>2, <3>2
    <3> QED
      BY <1>1, <3>3 DEF ToldOfSenders
  <2>9. ToldOfReceivers'
    <3> SUFFICES ASSUME NEW i \in Ident, NEW j \in Ident,
                        senders'[j] # NoConn, senders'[j] \notin broken,
                        LastIs(stream[senders'[j]], i, "receiver_joined",
                               "receiver_left")
                 PROVE  receivers[i] # NoConn
      BY <1>1, <2>1 DEF ToldOfReceivers
    <3>1. CASE j = IdOf[c]
      <4>1. senders'[j] = c
        BY <3>1, <2>2
      <4>2. NoNotice(stream[c])
        BY <4>1, <1>1 DEF QuietBefore
      <4> QED
        BY <4>1, <4>2, QuietNotLast DEF Notice
    <3>2. CASE j # IdOf[c]
      BY <3>2, <1>1, <2>2 DEF ToldOfReceivers
    <3> QED
      BY <3>1, <3>2
  <2> QED
    BY <1>3, <2>5, <2>6, <2>7, <2>8, <2>9
<1>6. CASE RoleOf[c] = "receiver"
  <2> DEFINE there == {j \in Ident : senders[j] # NoConn}
  <2>1. /\ receivers' = [receivers EXCEPT ![IdOf[c]] = c]
        /\ senders' = senders
        /\ owed' = ToEach(Listed(senders), Msg("receiver_joined", IdOf[c]))
                     \cup {SJoined(c, i) : i \in there}
    BY <1>6 DEF Join, SJoined
  <2>2. \A i \in Ident :
          receivers'[i] = IF i = IdOf[c] THEN c ELSE receivers[i]
    BY <2>1 DEF TypeOK
  <2>3. \A d \in owed' :
          \/ d.to \in Listed(senders) /\ d.msg = Msg("receiver_joined", IdOf[c])
          \/ \E i \in there : d = SJoined(c, i)
    BY <2>1 DEF ToEach
  <2>5. TypeOK'
    <3>1. Listed(senders) \subseteq Conn
      BY <1>2 DEF TypeOK
    <3>2. ToEach(Listed(senders), Msg("receiver_joined", IdOf[c]))
            \in SUBSET Delivery
      BY <3>1, <1>1, <1>4 DEF ToEach, Delivery, Notice
    <3>3. \A i \in there : SJoined(c, i) \in Delivery
      BY <1>4 DEF SJoined, Delivery, Notice
    <3>4. owed' \in SUBSET Delivery
      BY <2>1, <3>2, <3>3
    <3> QED
      BY <3>4, <1>1, <2>1 DEF TypeOK
  <2>6. ListedJoined'
    BY <1>1, <2>1, <2>2 DEF ListedJoined
  <2>7. OwedIsTrue'
    <3> SUFFICES ASSUME NEW d \in owed'
                 PROVE  /\ d.to \in joined'
                        /\ \/ /\ d.msg.type = "sender_joined"
                              /\ senders'[d.msg.id] # NoConn
                           \/ /\ d.msg.type = "receiver_joined"
                              /\ receivers'[d.msg.id] # NoConn
      BY DEF OwedIsTrue
    <3>1. CASE /\ d.to \in Listed(senders)
               /\ d.msg = Msg("receiver_joined", IdOf[c])
      <4>1. d.msg.type = "receiver_joined" /\ d.msg.id = IdOf[c]
        BY <3>1 DEF Msg
      <4> QED
        BY <3>1, <4>1, <1>1, <1>2, <2>2
    <3>2. CASE \E i \in there : d = SJoined(c, i)
      <4>1. PICK i \in there : d = SJoined(c, i)
        BY <3>2
      <4>2. d.to = c /\ d.msg.type = "sender_joined" /\ d.msg.id = i
        BY <4>1 DEF SJoined, Msg
      <4> QED
        BY <4>2, <1>1, <2>1
    <3> QED
      BY <2>3, <3>1, <3>2
  <2>8. ToldOfSenders'
    <3> SUFFICES ASSUME NEW i \in Ident, NEW j \in Ident,
                        receivers'[i] # NoConn, receivers'[i] \notin broken,
                        SJoined(receivers'[i], j) \notin owed'
                 PROVE  LastIs(stream[receivers'[i]], j, "sender_joined",
                               "sender_left") <=> senders[j] # NoConn
      BY <1>1, <2>1 DEF ToldOfSenders
    <3>1. CASE i = IdOf[c]
      <4>1. receivers'[i] = c
        BY <3>1, <2>2
      <4>2. NoNotice(stream[c])
        BY <4>1, <1>1 DEF QuietBefore
      <4>3. senders[j] = NoConn
        BY <4>1, <2>1
      <4> QED
        BY <4>1, <4>2, <4>3, QuietNotLast DEF Notice
    <3>2. CASE i # IdOf[c]
      BY <3>2, <1>1, <2>2 DEF ToldOfSenders
    <3> QED
      BY <3>1, <3>2
  <2>9. ToldOfReceivers'
    BY <1>1, <2>1, <2>2 DEF ToldOfReceivers
  <2> QED
    BY <1>3, <2>5, <2>6, <2>7, <2>8, <2>9
<1> QED
  BY <1>5, <1>6 DEF Join

LEMMA LeaveStep ==
  ASSUME PresenceAssumption, Inv, NEW c \in Conn, Leave(c)
  PROVE  Inv'
<1> USE DEF Inv
<1>1. /\ owed = {} /\ joined' = joined
      /\ stream' = stream /\ broken' = broken
      /\ IdOf[c] \in Ident
  BY DEF Leave, PresenceAssumption
<1>2. Listed(senders) \subseteq joined /\ Listed(receivers) \subseteq joined
  BY DEF Listed, ListedJoined
<1>3. QuietBefore'
  BY <1>1 DEF QuietBefore
<1>4. \A i \in Ident : \A t \in Notice : Msg(t, i) \in Message
  BY DEF Msg, Message
<1>5. Listed(senders) \subseteq Conn /\ Listed(receivers) \subseteq Conn
  BY <1>2 DEF TypeOK
<1>6. CASE RoleOf[c] = "sender"
  <2>1. /\ senders' = [senders EXCEPT ![IdOf[c]] = NoConn]
        /\ receivers' = receivers
        /\ owed' = ToEach(Listed(receivers), Msg("sender_left", IdOf[c]))
    BY <1>6 DEF Leave
  <2>2. \A i \in Ident :
          senders'[i] = IF i = IdOf[c] THEN NoConn ELSE senders[i]
    BY <2>1 DEF TypeOK
  <2>3. \A r \in Listed(receivers) : SLeft(r, IdOf[c]) \in owed'
    BY <2>1 DEF ToEach, SLeft
  <2>4. TypeOK'
    <3>1. owed' \in SUBSET Delivery
      BY <1>5, <2>1, <1>1, <1>4 DEF ToEach, Delivery, Notice
    <3> QED
      BY <3>1, <1>1, <2>1 DEF TypeOK
  <2>5. ListedJoined'
    BY <1>1, <2>1, <2>2 DEF ListedJoined
  <2>6. OwedIsTrue'
    <3> SUFFICES ASSUME NEW d \in owed'
                 PROVE  /\ d.to \in joined'
                        /\ d.msg.type = "sender_left"
                        /\ senders'[d.msg.id] = NoConn
      BY DEF OwedIsTrue
    <3>1. d.to \in Listed(receivers) /\ d.msg = Msg("sender_left", IdOf[c])
      BY <2>1 DEF ToEach
    <3>2. d.msg.type = "sender_left" /\ d.msg.id = IdOf[c]
      BY <3>1 DEF Msg
    <3> QED
      BY <1>1, <1>2, <2>2, <3>1, <3>2
  <2>7. ToldOfSenders'
    <3> SUFFICES ASSUME NEW i \in Ident, NEW j \in Ident,
                        receivers[i] # NoConn, receivers[i] \notin broken,
                        SLeft(receivers[i], j) \notin owed'
                 PROVE  LastIs(stream[receivers[i]], j, "sender_joined",
                               "sender_left") <=> senders'[j] # NoConn
      BY <1>1, <2>1 DEF ToldOfSenders
    <3>1. j # IdOf[c]
      BY <2>3 DEF Listed
    <3> QED
      BY <1>1, <2>2, <3>1 DEF ToldOfSenders
  <2>8. ToldOfReceivers'
    BY <1>1, <2>1, <2>2 DEF ToldOfReceivers
  <2> QED
    BY <1>3, <2>4, <2>5, <2>6, <2>7, <2>8
<1>7. CASE RoleOf[c] = "receiver"
  <2>1. /\ receivers' = [receivers EXCEPT ![IdOf[c]] = NoConn]
        /\ senders' = senders
        /\ owed' = ToEach(Listed(senders), Msg("receiver_left", IdOf[c]))
    BY <1>7 DEF Leave
  <2>2. \A i \in Ident :
          receivers'[i] = IF i = IdOf[c] THEN NoConn ELSE receivers[i]
    BY <2>1 DEF TypeOK
  <2>3. \A r \in Listed(senders) : RLeft(r, IdOf[c]) \in owed'
    BY <2>1 DEF ToEach, RLeft
  <2>4. TypeOK'
    <3>1. owed' \in SUBSET Delivery
      BY <1>5, <2>1, <1>1, <1>4 DEF ToEach, Delivery, Notice
    <3> QED
      BY <3>1, <1>1, <2>1 DEF TypeOK
  <2>5. ListedJoined'
    BY <1>1, <2>1, <2>2 DEF ListedJoined
  <2>6. OwedIsTrue'
    <3> SUFFICES ASSUME NEW d \in owed'
                 PROVE  /\ d.to \in joined'
                        /\ d.msg.type = "receiver_left"
                        /\ receivers'[d.msg.id] = NoConn
      BY DEF OwedIsTrue
    <3>1. d.to \in Listed(senders) /\ d.msg = Msg("receiver_left", IdOf[c])
      BY <2>1 DEF ToEach
    <3>2. d.msg.type = "receiver_left" /\ d.msg.id = IdOf[c]
      BY <3>1 DEF Msg
    <3> QED
      BY <1>1, <1>2, <2>2, <3>1, <3>2
  <2>7. ToldOfSenders'
    BY <1>1, <2>1, <2>2 DEF ToldOfSenders
  <2>8. ToldOfReceivers'
    <3> SUFFICES ASSUME NEW i \in Ident, NEW j \in Ident,
                        senders[j] # NoConn, senders[j] \notin broken,
                        RLeft(senders[j], i) \notin owed',
                        LastIs(stream[senders[j]], i, "receiver_joined",
                               "receiver_left")
                 PROVE  receivers'[i] # NoConn
      BY <1>1, <2>1 DEF ToldOfReceivers
    <3>1. i # IdOf[c]
      BY <2>3 DEF Listed
    <3> QED
      BY <1>1, <2>2, <3>1 DEF ToldOfReceivers
  <2> QED
    BY <1>3, <2>4, <2>5, <2>6, <2>7, <2>8
<1> QED
  BY <1>6, <1>7 DEF Leave

-----------------------------------------------------------------------------
(* A notice that is given makes true what its receiver believes. *)
LEMMA GiveStep ==
  ASSUME PresenceAssumption, Inv, NEW d \in owed, Give(d)
  PROVE  Inv'
<1> USE DEF Inv
<1>1. /\ senders' = senders /\ receivers' = receivers /\ joined' = joined
      /\ broken' = broken /\ owed' = owed \ {d}
      /\ stream' = [stream EXCEPT ![d.to] = Append(@, d.msg)]
  BY DEF Give, Put
<1>2. /\ d.to \in Conn /\ d.msg \in Message /\ d.to \in joined
      /\ d.msg.id \in Ident
      /\ d = [to |-> d.to, msg |-> d.msg]
      /\ d.msg = Msg(d.msg.type, d.msg.id)
  BY DEF TypeOK, Delivery, Message, OwedIsTrue, Msg
<1>3. \A c \in Conn : stream'[c] = IF c = d.to THEN Append(stream[c], d.msg)
                                               ELSE stream[c]
  BY <1>1, <1>2 DEF TypeOK
<1>4. TypeOK'
  BY <1>1, <1>2 DEF TypeOK
<1>5. ListedJoined' /\ OwedIsTrue'
  BY <1>1 DEF ListedJoined, OwedIsTrue
<1>6. QuietBefore'
  BY <1>1, <1>2, <1>3 DEF QuietBefore
<1>7. ToldOfSenders'
  <2> SUFFICES ASSUME NEW i \in Ident, NEW j \in Ident,
                      receivers[i] # NoConn, receivers[i] \notin broken,
                      SJoined(receivers[i], j) \notin owed',
                      SLeft(receivers[i], j) \notin owed'
               PROVE  LastIs(stream'[receivers[i]], j, "sender_joined",
                             "sender_left") <=> senders[j] # NoConn
    BY <1>1 DEF ToldOfSenders
  <2> DEFINE r == receivers[i]
  <2>1. r \in Conn /\ stream[r] \in Seq(Message)
    BY DEF TypeOK
  <2>2. CASE d = SJoined(r, j)
    <3>1. /\ d.to = r /\ d.msg = Msg("sender_joined", j)
          /\ d.msg.type = "sender_joined" /\ d.msg.id = j
      BY <2>2 DEF SJoined, Msg
    <3>2. senders[j] # NoConn
      BY <3>1 DEF OwedIsTrue
    <3>3. LastIs(Append(stream[r], d.msg), j, "sender_joined", "sender_left")
      BY <1>2, <2>1, <3>1, LastIsAppend, NoticesDiffer
    <3> QED
      BY <1>3, <2>1, <3>1, <3>2, <3>3
  <2>3. CASE d = SLeft(r, j)
    <3>1. /\ d.to = r /\ d.msg = Msg("sender_left", j)
          /\ d.msg.type = "sender_left" /\ d.msg.id = j
      BY <2>3 DEF SLeft, Msg
    <3>2. senders[j] = NoConn
      BY <3>1 DEF OwedIsTrue
    <3>3. ~LastIs(Append(stream[r], d.msg), j, "sender_joined", "sender_left")
      BY <1>2, <2>1, <3>1, LastIsAppend, NoticesDiffer
    <3> QED
      BY <1>3, <2>1, <3>1, <3>2, <3>3
  <2>4. CASE d # SJoined(r, j) /\ d # SLeft(r, j)
    <3>1. SJoined(r, j) \notin owed /\ SLeft(r, j) \notin owed
      BY <1>1, <2>4
    <3>2. LastIs(stream[r], j, "sender_joined", "sender_left")
            <=> senders[j] # NoConn
      BY <3>1 DEF ToldOfSenders
    <3>3. CASE d.to = r
      <4>1. d.msg # Msg("sender_joined", j) /\ d.msg # Msg("sender_left", j)
        BY <1>2, <2>4, <3>3 DEF SJoined, SLeft
      <4>2. LastIs(Append(stream[r], d.msg), j, "sender_joined", "sender_left")
              <=> LastIs(stream[r], j, "sender_joined", "sender_left")
        BY <1>2, <2>1, <4>1, LastIsAppend, NoticesDiffer
      <4> QED
        BY <1>3, <2>1, <3>2, <3>3, <4>2
    <3>4. CASE d.to # r
      BY <1>3, <2>1, <3>2, <3>4
    <3> QED
      BY <3>3, <3>4
  <2> QED
    BY <2>2, <2>3, <2>4
<1>8. ToldOfReceivers'
  <2> SUFFICES ASSUME NEW i \in Ident, NEW j \in Ident,
                      senders[j] # NoConn, senders[j] \notin broken,
                      RLeft(senders[j], i) \notin owed',
                      LastIs(stream'[senders[j]], i, "receiver_joined",
                             "receiver_left")
               PROVE  receivers[i] # NoConn
    BY <1>1 DEF ToldOfReceivers
  <2> DEFINE r == senders[j]
  <2>1. r \in Conn /\ stream[r] \in Seq(Message)
    BY DEF TypeOK
  <2>2. CASE d = RJoined(r, i)
    <3>1. d.msg.type = "receiver_joined" /\ d.msg.id = i
      BY <2>2 DEF RJoined, Msg
    <3> QED
      BY <3>1 DEF OwedIsTrue
  <2>3. CASE d = RLeft(r, i)
    <3>1. d.to = r /\ d.msg = Msg("receiver_left", i)
      BY <2>3 DEF RLeft
    <3>2. ~LastIs(Append(stream[r], d.msg), i, "receiver_joined",
                  "receiver_left")
      BY <1>2, <2>1, <3>1, LastIsAppend, NoticesDiffer
    <3> QED
      BY <1>3, <2>1, <3>1, <3>2
  <2>4. CASE d # RJoined(r, i) /\ d # RLeft(r, i)
    <3>1. RLeft(r, i) \notin owed
      BY <1>1, <2>4
    <3>2. LastIs(stream[r], i, "receiver_joined", "receiver_left")
      <4>1. CASE d.to = r
        <5>1. d.msg # Msg("receiver_joined", i) /\ d.msg # Msg("receiver_left", i)
          BY <1>2, <2>4, <4>1 DEF RJoined, RLeft
        <5> QED
          BY <1>2, <1>3, <2>1, <4>1, <5>1, LastIsAppend, NoticesDiffer
      <4>2. CASE d.to # r
        BY <1>3, <2>1, <4>2
      <4> QED
        BY <4>1, <4>2
    <3> QED
      BY <3>1, <3>2 DEF ToldOfReceivers
  <2> QED
    BY <2>2, <2>3, <2>4
<1> QED
  BY <1>4, <1>5, <1>6, <1>7, <1>8

(* Other messages change nobody's view. *)
LEMMA OtherMessageStep ==
  ASSUME PresenceAssumption, Inv, NEW c \in Conn, NEW m \in Message,
         m.type \notin Notice, Put(c, m),
         UNCHANGED <<senders, receivers, joined, owed, broken>>
  PROVE  Inv'
<1> USE DEF Inv
<1>1. \A e \in Conn : /\ stream[e] \in Seq(Message)
                      /\ stream'[e] = IF e = c THEN Append(stream[e], m)
                                               ELSE stream[e]
  BY DEF Put, TypeOK
<1>2. TypeOK' /\ ListedJoined' /\ OwedIsTrue'
  BY DEF TypeOK, ListedJoined, OwedIsTrue, Put
<1>3. QuietBefore'
  <2> SUFFICES ASSUME NEW e \in Conn \ (joined \cup broken)
               PROVE  NoNotice(stream'[e])
    BY DEF QuietBefore
  <2>1. NoNotice(stream[e])
    BY DEF QuietBefore
  <2>2. CASE e = c
    <3> DEFINE q == stream[e]
    <3>1. /\ q \in Seq(Message) /\ stream'[e] = Append(q, m)
      BY <1>1, <2>2
    <3> HIDE DEF q
    <3>2. \A k \in DOMAIN Append(q, m) :
            Append(q, m)[k] = m \/ (k \in DOMAIN q /\ Append(q, m)[k] = q[k])
      BY <3>1
    <3> QED
      BY <2>1, <3>1, <3>2 DEF NoNotice, q
  <2> QED
    BY <1>1, <2>1, <2>2
<1>4. \A e \in Conn, i \in Ident :
        /\ LastIs(stream'[e], i, "sender_joined", "sender_left")
             <=> LastIs(stream[e], i, "sender_joined", "sender_left")
        /\ LastIs(stream'[e], i, "receiver_joined", "receiver_left")
             <=> LastIs(stream[e], i, "receiver_joined", "receiver_left")
  <2> SUFFICES ASSUME NEW e \in Conn, NEW i \in Ident, e = c
               PROVE  /\ LastIs(Append(stream[e], m), i, "sender_joined",
                                "sender_left")
                          <=> LastIs(stream[e], i, "sender_joined",
                                     "sender_left")
                      /\ LastIs(Append(stream[e], m), i, "receiver_joined",
                                "receiver_left")
                          <=> LastIs(stream[e], i, "receiver_joined",
                                     "receiver_left")
    BY <1>1
  <2>1. \A t \in Notice : m # Msg(t, i)
    BY DEF Msg
  <2>2. /\ m # Msg("sender_joined", i) /\ m # Msg("sender_left", i)
        /\ m # Msg("receiver_joined", i) /\ m # Msg("receiver_left", i)
    BY <2>1 DEF Notice
  <2> QED
    BY <1>1, <2>2, LastIsAppend, NoticesDiffer
<1>5. \A i \in Ident : /\ senders[i] # NoConn => senders[i] \in Conn
                       /\ receivers[i] # NoConn => receivers[i] \in Conn
  BY DEF TypeOK
<1>6. ToldOfSenders' /\ ToldOfReceivers'
  BY <1>4, <1>5 DEF ToldOfSenders, ToldOfReceivers
<1> QED
  BY <1>2, <1>3, <1>6

(* A broken connection is excepted from everything. *)
LEMMA BrokenStep ==
  ASSUME PresenceAssumption, Inv,
         \/ \E d \in owed : Miss(d)
         \/ \E c \in Conn : Break(c) \/ Lose(c)
  PROVE  Inv'
<1> USE DEF Inv
<1>1. CASE \E d \in owed : Miss(d)
  <2>1. PICK d \in owed : Miss(d)
    BY <1>1
  <2>2. /\ senders' = senders /\ receivers' = receivers /\ joined' = joined
        /\ stream' = stream /\ owed' = owed \ {d}
        /\ broken' = broken \cup {d.to} /\ d.to \in Conn
    BY <2>1 DEF Miss, TypeOK, Delivery
  <2>3. TypeOK' /\ ListedJoined' /\ OwedIsTrue' /\ QuietBefore'
    BY <2>2 DEF TypeOK, ListedJoined, OwedIsTrue, QuietBefore
  <2>4. ToldOfSenders'
    <3>1. \A r, j : r \notin broken' =>
            d # SJoined(r, j) /\ d # SLeft(r, j)
      BY <2>2 DEF SJoined, SLeft
    <3> QED
      BY <2>2, <3>1 DEF ToldOfSenders
  <2>5. ToldOfReceivers'
    <3>1. \A r, i : r \notin broken' => d # RLeft(r, i)
      BY <2>2 DEF RLeft
    <3> QED
      BY <2>2, <3>1 DEF ToldOfReceivers
  <2> QED
    BY <2>3, <2>4, <2>5
<1>2. ASSUME NEW c \in Conn, Break(c)
      PROVE  Inv'
  BY <1>2 DEF Break, TypeOK, ListedJoined, OwedIsTrue, QuietBefore,
              ToldOfSenders, ToldOfReceivers
<1>3. ASSUME NEW c \in Conn, Lose(c)
      PROVE  Inv'
  <2>1. /\ UNCHANGED <<senders, receivers, joined, owed, broken>>
        /\ c \in broken
        /\ stream' \in [Conn -> Seq(Message)]
        /\ \A e \in Conn \ {c} : stream'[e] = stream[e]
    <3>1. PICK k \in 1 .. Len(stream[c]) :
            stream' = [stream EXCEPT ![c] = Without(@, k)]
      BY <1>3 DEF Lose
    <3>2. Without(stream[c], k) \in Seq(Message)
      BY <1>3 DEF TypeOK, Without
    <3> QED
      BY <1>3, <3>1, <3>2 DEF Lose, TypeOK
  <2>2. TypeOK' /\ ListedJoined' /\ OwedIsTrue' /\ QuietBefore'
    BY <2>1 DEF TypeOK, ListedJoined, OwedIsTrue, QuietBefore
  <2>3. \A i \in Ident :
          /\ senders[i] # NoConn /\ senders[i] \notin broken =>
               stream'[senders[i]] = stream[senders[i]]
          /\ receivers[i] # NoConn /\ receivers[i] \notin broken =>
               stream'[receivers[i]] = stream[receivers[i]]
    BY <2>1 DEF TypeOK
  <2>4. ToldOfSenders' /\ ToldOfReceivers'
    BY <2>1, <2>3 DEF ToldOfSenders, ToldOfReceivers
  <2> QED
    BY <2>2, <2>4
<1> QED
  BY <1>1, <1>2, <1>3

-----------------------------------------------------------------------------
(* The view of every client that can be reached is true whenever no notice *)
(* is owed, for every set of connections and ids.                          *)
THEOREM ViewCorrect == ASSUME PresenceAssumption PROVE Spec => []View
<1>1. Init => Inv
  <2> SUFFICES ASSUME Init PROVE Inv
    OBVIOUS
  <2>1. TypeOK /\ ListedJoined /\ OwedIsTrue
    BY DEF Init, TypeOK, ListedJoined, OwedIsTrue
  <2>2. QuietBefore /\ ToldOfSenders /\ ToldOfReceivers
    BY DEF Init, QuietBefore, NoNotice, ToldOfSenders, ToldOfReceivers
  <2> QED
    BY <2>1, <2>2 DEF Inv
<1>2. Inv /\ [Next]_vars => Inv'
  <2> SUFFICES ASSUME Inv, [Next]_vars PROVE Inv'
    OBVIOUS
  <2>1. CASE \E c \in Conn : Join(c)
    BY <2>1, JoinStep
  <2>2. CASE \E c \in Conn : Leave(c)
    BY <2>2, LeaveStep
  <2>3. CASE \E d \in owed : Give(d)
    BY <2>3, GiveStep
  <2>4. CASE \/ \E d \in owed : Miss(d)
             \/ \E c \in Conn : Break(c) \/ Lose(c)
    BY <2>4, BrokenStep
  <2>5. ASSUME NEW c \in Conn, NEW m \in Message, Relay(c, m) \/ Tell(c, m)
        PROVE  Inv'
    BY <2>5, OtherMessageStep DEF Relay, Tell, Relayed, Private, Notice
  <2>6. CASE UNCHANGED vars
    BY <2>6 DEF vars, Inv, TypeOK, ListedJoined, OwedIsTrue, QuietBefore,
                ToldOfSenders, ToldOfReceivers
  <2> QED
    BY <2>1, <2>2, <2>3, <2>4, <2>5, <2>6 DEF Next
<1>3. Inv => View
  BY DEF Inv, View, ToldOfSenders, ToldOfReceivers
<1> QED
  BY <1>1, <1>2, <1>3, PTL DEF Spec
=============================================================================
