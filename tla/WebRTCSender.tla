---------------------------- MODULE WebRTCSender ----------------------------
(***************************************************************************)
(* The session logic of the Python sender: sender/webrtc_sender.py and the *)
(* keep-alive loop of sender/main.py.                                      *)
(*                                                                         *)
(* Two kinds of threads share the fields of one WebRTCSender object with   *)
(* no lock.  The asyncio thread runs the receive loop and the keep-alive   *)
(* loop, one at a time: neither handler awaits while it uses the fields.   *)
(* Every webrtcbin has a thread that runs the callbacks of its stream one  *)
(* after another.  The interpreter lock makes one read or one write of a   *)
(* field atomic and nothing more, so a step here is one such access.       *)
(*                                                                         *)
(* Outside of the program are the receivers behind the signaling server    *)
(* (a receiver that reconnects under its id joins again before its old     *)
(* connection is found to have left), ICE, and the data channels.          *)
(***************************************************************************)
EXTENDS Naturals, Sequences, FiniteSets

CONSTANTS
  Stream,       \* stream ids, each with its pipeline and webrtcbin
  Receiver,     \* ids of browsers
  None,         \* _active_receiver_id is None, or a key that is absent
  MaxJoins,     \* bound: receiver_joined messages
  MaxIce,       \* bound: changes of one ICE connection state
  WithChannel,  \* bound: streams whose data channel may get created
  OfferMayFail, \* whether create-offer may return no offer
  MayClose      \* whether the signaling connection may close

IceState == {"new", "checking", "connected", "completed", "failed",
             "disconnected", "closed"}

ASSUME SenderAssumption ==
  /\ IsFiniteSet(Stream)
  /\ None \notin Receiver \cup IceState
  /\ MaxJoins \in Nat /\ MaxIce \in Nat /\ WithChannel \subseteq Stream
  /\ OfferMayFail \in BOOLEAN /\ MayClose \in BOOLEAN

VARIABLES
  hasReceiver, active, offersPending, \* _has_receiver, _active_receiver_id
  ice,          \* _stream_ice_state; None for an absent key
  channels,     \* the keys of data_channels
  dcOpen,       \* _dc_open
  connected,    \* _connected
  recv,         \* the receive loop
  keep,         \* the keep-alive loop
  cb,           \* the callback a stream's thread is running
  evq,          \* callbacks waiting on that thread
  sock,         \* whether the WebSocket is open
  inbox,        \* messages from the signaling server
  conns,        \* connections each receiver has to the server
  joins,        \* receiver_joined messages so far
  answers,      \* offers of a stream not yet answered
  remote,       \* streams with a remote description
  iceProp,      \* ice-connection-state of each webrtcbin
  iceMoves,     \* its changes so far
  dc,           \* the real state of each data channel
  told,         \* receivers whose last message was receiver_joined
  fresh,        \* a receiver was accepted after the last ICE change
  accepted,     \* receiver_joined messages that were not ignored
  made,         \* offers requested per stream
  offers        \* offers handed to the WebSocket per stream

flags == <<hasReceiver, active>>
dcs == <<channels, dcOpen>>
fields == <<flags, offersPending, ice, dcs, connected>>
threads == <<recv, keep, cb, evq>>
server == <<sock, inbox, conns, joins, answers>>
media == <<remote, iceProp, iceMoves, dc>>
ghosts == <<told, fresh, accepted, made, offers>>
vars == <<fields, threads, server, media, ghosts>>

Live == {"connected", "completed", "checking"}

Dying == {"failed", "disconnected", "closed"}

Tracked == {s \in Stream : ice[s] # None}

Msg(type, id) == [type |-> type, id |-> id]

(* Where a thread is: the step it takes next and what it is iterating on.  *)
(* Iterating over a dict remembers its size and fails if that has changed. *)
At(step) == [at |-> step, id |-> None, left |-> {}, size |-> 0]
AtId(step, id) == [At(step) EXCEPT !.id = id]
Iterate(id) ==
  [at |-> "scan", id |-> id, left |-> Tracked, size |-> Cardinality(Tracked)]

SizeChanged(it) == Cardinality(Tracked) # it.size
Rest(it) == it.left \cap Tracked
Advance(it, k) == [it EXCEPT !.left = @ \ {k}]

(* The process ends when its keep-alive loop does. *)
Running == keep.at \notin {"ended", "crashed"}

-----------------------------------------------------------------------------
(* run_async up to its loop: connect and register, start the pipelines,    *)
(* whose webrtcbins will ask for negotiation, and create the data channels.*)
(* Nothing is awaited from the start of the receive loop to the end.       *)

Init ==
  /\ hasReceiver = FALSE /\ active = None /\ offersPending = {}
  /\ ice = [s \in Stream |-> None]
  /\ channels \in SUBSET WithChannel
  /\ dcOpen = {}
  /\ connected = TRUE
  /\ recv = At("wait")
  /\ keep = At("sleep")
  /\ cb = [s \in Stream |-> At("idle")]
  /\ evq = [s \in Stream |-> <<"negotiate">>]
  /\ sock = TRUE
  /\ inbox = <<>>
  /\ conns = [r \in Receiver |-> 0]
  /\ joins = 0
  /\ answers = [s \in Stream |-> 0]
  /\ remote = {}
  /\ iceProp = [s \in Stream |-> "new"]
  /\ iceMoves = [s \in Stream |-> 0]
  /\ dc = [s \in Stream |-> IF s \in channels THEN "created" ELSE "none"]
  /\ told = {} /\ fresh = FALSE /\ accepted = 0
  /\ made = [s \in Stream |-> 0]
  /\ offers = [s \in Stream |-> 0]

-----------------------------------------------------------------------------
(* The receive loop.                                                       *)

Receiving(step) == Running /\ keep.at = "sleep" /\ recv.at = step

TakeJoined ==
  /\ Receiving("wait")
  /\ inbox # <<>> /\ Head(inbox).type = "receiver_joined"
  /\ inbox' = Tail(inbox)
  /\ told' = told \cup {Head(inbox).id}
  /\ recv' = Iterate(Head(inbox).id)
  /\ UNCHANGED <<fields, keep, cb, evq, sock, conns, joins, answers, media,
                 fresh, accepted, made, offers>>

(* any(...) over _stream_ice_state.values().  A key another thread adds or *)
(* removes meanwhile raises RuntimeError, which ends the receive loop.     *)
ScanJoined ==
  /\ Receiving("scan")
  /\ IF SizeChanged(recv) THEN recv' = At("dead")
     ELSE IF Rest(recv) = {} THEN recv' = AtId("accept", recv.id)
     ELSE \E k \in Rest(recv) :
            recv' = IF ice[k] \in Live THEN AtId("who", recv.id)
                                       ELSE Advance(recv, k)
  /\ UNCHANGED <<fields, keep, cb, evq, server, media, ghosts>>

(* _active_receiver_id is read twice. *)
CheckActive ==
  /\ \/ /\ Receiving("who")
        /\ recv' = AtId(IF active = None THEN "accept" ELSE "compare", recv.id)
     \/ /\ Receiving("compare")
        /\ recv' = IF active = recv.id THEN AtId("accept", recv.id)
                                       ELSE At("wait")
  /\ UNCHANGED <<fields, keep, cb, evq, server, media, ghosts>>

Accept ==
  /\ Receiving("accept")
  /\ hasReceiver' = TRUE
  /\ recv' = AtId("activate", recv.id)
  /\ fresh' = TRUE
  /\ accepted' = accepted + 1
  /\ UNCHANGED <<active, offersPending, ice, dcs, connected, keep, cb, evq,
                 server, media, told, made, offers>>

Activate ==
  /\ Receiving("activate")
  /\ active' = recv.id
  /\ recv' = At("offer")
  /\ fresh' = TRUE
  /\ UNCHANGED <<hasReceiver, offersPending, ice, dcs, connected, keep, cb,
                 evq, server, media, told, accepted, made, offers>>

\* Mutant of OfferedStreams: only the streams whose offer was deferred.
DeferredStreams == offersPending

OfferedStreams == Stream

(* _create_offers: every webrtcbin is asked for an offer; its thread will  *)
(* run _on_offer_created.                                                  *)
CreateOffers ==
  /\ Receiving("offer")
  /\ offersPending' = {}
  /\ evq' = [s \in Stream |-> IF s \in OfferedStreams
                              THEN Append(evq[s], "offer") ELSE evq[s]]
  /\ made' = [s \in Stream |-> IF s \in OfferedStreams
                               THEN made[s] + 1 ELSE made[s]]
  /\ recv' = At("wait")
  /\ UNCHANGED <<flags, ice, dcs, connected, keep, cb, server, media, told,
                 fresh, accepted, offers>>

TakeLeft ==
  /\ Receiving("wait")
  /\ inbox # <<>> /\ Head(inbox).type = "receiver_left"
  /\ inbox' = Tail(inbox)
  /\ told' = told \ {Head(inbox).id}
  /\ recv' = At(IF Head(inbox).id = active THEN "reset" ELSE "wait")
  /\ UNCHANGED <<fields, keep, cb, evq, sock, conns, joins, answers, media,
                 fresh, accepted, made, offers>>

(* The four assignments of receiver_left, one after another. *)
ResetReceiver ==
  /\ Receiving("reset")
  /\ hasReceiver' = FALSE
  /\ recv' = At("unset")
  /\ UNCHANGED <<active, offersPending, ice, dcs, connected, keep, cb, evq,
                 server, media, ghosts>>

\* Mutant of UnsetActive: the active receiver's id is kept.
KeepActive ==
  /\ Receiving("unset")
  /\ recv' = At("forget")
  /\ UNCHANGED <<fields, keep, cb, evq, server, media, ghosts>>

UnsetActive ==
  /\ Receiving("unset")
  /\ active' = None
  /\ recv' = At("forget")
  /\ UNCHANGED <<hasReceiver, offersPending, ice, dcs, connected, keep, cb,
                 evq, server, media, ghosts>>

ForgetIce ==
  /\ Receiving("forget")
  /\ ice' = [s \in Stream |-> None]
  /\ recv' = At("forgetdc")
  /\ UNCHANGED <<flags, offersPending, dcs, connected, keep, cb, evq, server,
                 media, ghosts>>

ForgetOpen ==
  /\ Receiving("forgetdc")
  /\ dcOpen' = {}
  /\ recv' = At("wait")
  /\ UNCHANGED <<flags, offersPending, ice, channels, connected, keep, cb,
                 evq, server, media, ghosts>>

(* _handle_answer: the remote description of the stream is set. *)
TakeAnswer ==
  /\ Receiving("wait")
  /\ inbox # <<>> /\ Head(inbox).type = "answer"
  /\ inbox' = Tail(inbox)
  /\ remote' = remote \cup {Head(inbox).id}
  /\ UNCHANGED <<fields, threads, sock, conns, joins, answers, iceProp,
                 iceMoves, dc, ghosts>>

(* What arrived before the close is still delivered.  Closing codes that   *)
(* count as normal end the async for quietly, the others raise             *)
(* ConnectionClosed.                                                       *)
ReceiveClosed ==
  /\ Receiving("wait")
  /\ ~sock /\ inbox = <<>>
  /\ \/ /\ connected' = FALSE
        /\ recv' = At("closed")
     \/ /\ recv' = At("ended")
        /\ UNCHANGED connected
  /\ UNCHANGED <<flags, offersPending, ice, dcs, keep, cb, evq, server, media,
                 ghosts>>

-----------------------------------------------------------------------------
(* The keep-alive loop: after every sleep, send_clock_info for each stream *)
(* that has a data channel.                                                *)

Keeping(step) ==
  /\ keep.at = step
  /\ recv.at \in {"wait", "closed", "ended", "dead"}

WakeUp ==
  /\ Keeping("sleep")
  /\ keep' = [At("each") EXCEPT !.left = channels]
  /\ UNCHANGED <<fields, recv, cb, evq, server, media, ghosts>>

(* "stream_id in self._dc_open" ... *)
CheckOpen ==
  /\ Keeping("each")
  /\ IF keep.left = {}
     THEN keep' = At(IF connected THEN "sleep" ELSE "ended")
     ELSE \E s \in keep.left :
            keep' = IF s \in dcOpen
                    THEN [keep EXCEPT !.at = "lookup", !.id = s]
                    ELSE Advance(keep, s)
  /\ UNCHANGED <<fields, recv, cb, evq, server, media, ghosts>>

(* ... then self.data_channels[stream_id], outside the try. *)
SendClockInfo ==
  /\ Keeping("lookup")
  /\ keep' = IF keep.id \in channels
             THEN [Advance(keep, keep.id) EXCEPT !.at = "each", !.id = None]
             ELSE At("crashed")
  /\ UNCHANGED <<fields, recv, cb, evq, server, media, ghosts>>

-----------------------------------------------------------------------------
(* Callbacks of a stream's thread.                                         *)

Calling(s, step) == Running /\ cb[s].at = step

Goto(s, it) == cb' = [cb EXCEPT ![s] = it]

(* The thread turns to the next callback in its queue. *)
StartCallback(s) ==
  /\ Calling(s, "idle")
  /\ evq[s] # <<>>
  /\ Goto(s, At(Head(evq[s])))
  /\ evq' = [evq EXCEPT ![s] = Tail(@)]
  /\ UNCHANGED <<fields, recv, keep, server, media, ghosts>>

\* Mutant of NegotiationNeeded: offers are not held back.
NegotiateAlways(s) ==
  /\ Calling(s, "negotiate")
  /\ evq' = [evq EXCEPT ![s] = Append(@, "offer")]
  /\ made' = [made EXCEPT ![s] = @ + 1]
  /\ Goto(s, At("idle"))
  /\ UNCHANGED <<fields, recv, keep, server, media, told, fresh, accepted,
                 offers>>

(* _on_negotiation_needed *)
NegotiationNeeded(s) ==
  /\ Calling(s, "negotiate")
  /\ IF hasReceiver
     THEN /\ evq' = [evq EXCEPT ![s] = Append(@, "offer")]
          /\ made' = [made EXCEPT ![s] = @ + 1]
          /\ Goto(s, At("idle"))
     ELSE /\ Goto(s, At("defer"))
          /\ UNCHANGED <<evq, made>>
  /\ UNCHANGED <<fields, recv, keep, server, media, told, fresh, accepted,
                 offers>>

DeferOffer(s) ==
  /\ Calling(s, "defer")
  /\ offersPending' = offersPending \cup {s}
  /\ Goto(s, At("idle"))
  /\ UNCHANGED <<flags, ice, dcs, connected, recv, keep, evq, server, media,
                 ghosts>>

(* _on_offer_created and _send_signaling.  Once the connection is known to *)
(* be closed, the message is put away for good.                            *)
OfferCreated(s) ==
  /\ Calling(s, "offer")
  /\ \/ /\ connected
        /\ offers' = [offers EXCEPT ![s] = @ + 1]
        /\ answers' = [answers EXCEPT ![s] = @ + 1]
     \/ /\ OfferMayFail \/ ~connected
        /\ UNCHANGED <<offers, answers>>
  /\ Goto(s, At("idle"))
  /\ UNCHANGED <<fields, recv, keep, evq, sock, inbox, conns, joins, media,
                 told, fresh, accepted, made>>

(* _on_ice_state: the property as it is when the callback reads it. *)
ReadIceState(s) ==
  /\ Calling(s, "ice")
  /\ Goto(s, AtId("track", iceProp[s]))
  /\ UNCHANGED <<fields, recv, keep, evq, server, media, ghosts>>

\* Mutant of TrackedState: the first state of a stream sticks.
FirstStateSticks(s) == IF ice[s] = None THEN cb[s].id ELSE ice[s]

\* Mutant of TrackedState: state_names has no entry for "checking".
UnnamedState(s) == IF cb[s].id = "checking" THEN "unknown" ELSE cb[s].id

TrackedState(s) == cb[s].id

\* Mutant of MayBeLast: a failed stream releases nothing.
FailedIsNotDead(s) == cb[s].id \in {"disconnected", "closed"}

MayBeLast(s) == cb[s].id \in Dying

TrackIceState(s) ==
  /\ Calling(s, "track")
  /\ ice' = [ice EXCEPT ![s] = TrackedState(s)]
  /\ Goto(s, At(IF MayBeLast(s) THEN "dead" ELSE "idle"))
  /\ fresh' = FALSE
  /\ UNCHANGED <<flags, offersPending, dcs, connected, recv, keep, evq, server,
                 media, told, accepted, made, offers>>

(* all(...) over _stream_ice_state.values().  A RuntimeError ends the      *)
(* callback.                                                               *)
StartScan(s) ==
  /\ Calling(s, "dead")
  /\ Goto(s, Iterate(None))
  /\ UNCHANGED <<fields, recv, keep, evq, server, media, ghosts>>

ScanDead(s) ==
  /\ Calling(s, "scan")
  /\ IF SizeChanged(cb[s]) THEN Goto(s, At("idle"))
     ELSE IF Rest(cb[s]) = {} THEN Goto(s, At("release"))
     ELSE \E k \in Rest(cb[s]) :
            Goto(s, IF ice[k] \in Dying \cup {"new"} THEN Advance(cb[s], k)
                                                     ELSE At("idle"))
  /\ UNCHANGED <<fields, recv, keep, evq, server, media, ghosts>>

(* The two assignments that let new receivers in. *)
ReleaseReceiver(s) ==
  /\ Calling(s, "release")
  /\ hasReceiver' = FALSE
  /\ Goto(s, At("drop"))
  /\ UNCHANGED <<active, offersPending, ice, dcs, connected, recv, keep, evq,
                 server, media, ghosts>>

DropActive(s) ==
  /\ Calling(s, "drop")
  /\ active' = None
  /\ Goto(s, At("idle"))
  /\ UNCHANGED <<hasReceiver, offersPending, ice, dcs, connected, recv, keep,
                 evq, server, media, ghosts>>

(* _on_data_channel_open, _on_data_channel_close *)
AddChannel(s) ==
  /\ Calling(s, "open")
  /\ channels' = channels \cup {s}
  /\ Goto(s, At("mark"))
  /\ UNCHANGED <<flags, offersPending, ice, dcOpen, connected, recv, keep, evq,
                 server, media, ghosts>>

MarkOpen(s) ==
  /\ Calling(s, "mark")
  /\ dcOpen' = dcOpen \cup {s}
  /\ Goto(s, At("idle"))
  /\ UNCHANGED <<flags, offersPending, ice, channels, connected, recv, keep,
                 evq, server, media, ghosts>>

\* Mutant of UnmarkOpen: the channel is deleted before it is unmarked.
DeleteFirst(s) ==
  /\ Calling(s, "close")
  /\ channels' = channels \ {s}
  /\ Goto(s, At("delete"))
  /\ UNCHANGED <<flags, offersPending, ice, dcOpen, connected, recv, keep,
                 evq, server, media, ghosts>>

UnmarkOpen(s) ==
  /\ Calling(s, "close")
  /\ dcOpen' = dcOpen \ {s}
  /\ Goto(s, At("delete"))
  /\ UNCHANGED <<flags, offersPending, ice, channels, connected, recv, keep,
                 evq, server, media, ghosts>>

DeleteChannel(s) ==
  /\ Calling(s, "delete")
  /\ channels' = channels \ {s}
  /\ Goto(s, At("idle"))
  /\ UNCHANGED <<flags, offersPending, ice, dcOpen, connected, recv, keep, evq,
                 server, media, ghosts>>

-----------------------------------------------------------------------------
(* Outside the program.                                                    *)

(* A browser connects, or reconnects while the server still has its old    *)
(* connection; one of a browser's connections is found to be gone.         *)
Join(r) ==
  /\ Running /\ sock
  /\ joins < MaxJoins /\ conns[r] < 2
  /\ joins' = joins + 1
  /\ conns' = [conns EXCEPT ![r] = @ + 1]
  /\ inbox' = Append(inbox, Msg("receiver_joined", r))
  /\ UNCHANGED <<fields, threads, sock, answers, media, ghosts>>

Leave(r) ==
  /\ Running /\ sock
  /\ conns[r] > 0
  /\ conns' = [conns EXCEPT ![r] = @ - 1]
  /\ inbox' = Append(inbox, Msg("receiver_left", r))
  /\ UNCHANGED <<fields, threads, sock, joins, answers, media, ghosts>>

(* Offers go to every receiver; some receiver answers. *)
Answer(s) ==
  /\ Running /\ sock
  /\ answers[s] > 0 /\ \E r \in Receiver : conns[r] > 0
  /\ answers' = [answers EXCEPT ![s] = @ - 1]
  /\ inbox' = Append(inbox, Msg("answer", s))
  /\ UNCHANGED <<fields, threads, sock, conns, joins, media, ghosts>>

CloseSignaling ==
  /\ Running /\ sock /\ MayClose
  /\ sock' = FALSE
  /\ UNCHANGED <<fields, threads, inbox, conns, joins, answers, media, ghosts>>

(* ICE starts once there is a remote description, may come and go, and     *)
(* each change notifies.                                                   *)
IceNext(state) ==
  CASE state = "new" -> {"checking"}
    [] state = "checking" -> {"connected", "failed"}
    [] state = "connected" -> {"disconnected"}
    [] state = "disconnected" -> {"connected", "failed"}
    [] state = "failed" -> {"checking"}

IceChange(s) ==
  /\ Running
  /\ s \in remote
  /\ iceMoves[s] < MaxIce
  /\ \E state \in IceNext(iceProp[s]) :
       iceProp' = [iceProp EXCEPT ![s] = state]
  /\ iceMoves' = [iceMoves EXCEPT ![s] = @ + 1]
  /\ evq' = [evq EXCEPT ![s] = Append(@, "ice")]
  /\ UNCHANGED <<fields, recv, keep, cb, server, remote, dc, ghosts>>

ChannelOpens(s) ==
  /\ Running
  /\ dc[s] = "created" /\ iceProp[s] = "connected"
  /\ dc' = [dc EXCEPT ![s] = "open"]
  /\ evq' = [evq EXCEPT ![s] = Append(@, "open")]
  /\ UNCHANGED <<fields, recv, keep, cb, server, remote, iceProp, iceMoves,
                 ghosts>>

ChannelCloses(s) ==
  /\ Running
  /\ dc[s] = "open"
  /\ dc' = [dc EXCEPT ![s] = "closed"]
  /\ evq' = [evq EXCEPT ![s] = Append(@, "close")]
  /\ UNCHANGED <<fields, recv, keep, cb, server, remote, iceProp, iceMoves,
                 ghosts>>

-----------------------------------------------------------------------------
RecvStep ==
  \/ TakeJoined \/ ScanJoined \/ CheckActive \/ Accept \/ Activate
  \/ CreateOffers \/ TakeLeft \/ ResetReceiver \/ UnsetActive \/ ForgetIce
  \/ ForgetOpen \/ TakeAnswer \/ ReceiveClosed

KeepStep == WakeUp \/ CheckOpen \/ SendClockInfo

CallbackStep(s) ==
  \/ StartCallback(s) \/ NegotiationNeeded(s) \/ DeferOffer(s)
  \/ OfferCreated(s) \/ ReadIceState(s) \/ TrackIceState(s) \/ StartScan(s)
  \/ ScanDead(s) \/ ReleaseReceiver(s) \/ DropActive(s) \/ AddChannel(s)
  \/ MarkOpen(s) \/ UnmarkOpen(s) \/ DeleteChannel(s)

Environment ==
  \/ \E r \in Receiver : Join(r) \/ Leave(r)
  \/ \E s \in Stream : \/ Answer(s) \/ IceChange(s)
                       \/ ChannelOpens(s) \/ ChannelCloses(s)
  \/ CloseSignaling

Exited == ~Running /\ UNCHANGED vars

Next ==
  \/ RecvStep \/ KeepStep \/ (\E s \in Stream : CallbackStep(s))
  \/ Environment \/ Exited

Spec == Init /\ [][Next]_vars

(* The asyncio loop and each webrtcbin's thread keep running; nothing is   *)
(* assumed of browsers, of the network or of ICE.                          *)
FairSpec ==
  /\ Spec
  /\ SF_vars(RecvStep)
  /\ WF_vars(KeepStep)
  /\ \A s \in Stream : WF_vars(CallbackStep(s))

-----------------------------------------------------------------------------
(* Properties.                                                             *)

Steps == {"wait", "dead", "accept", "who", "compare", "activate", "offer",
          "reset", "unset", "forget", "forgetdc", "closed", "ended", "scan",
          "sleep", "each", "lookup", "crashed", "idle", "negotiate", "defer",
          "ice", "track", "release", "drop", "open", "mark", "close", "delete"}

Place == [at : Steps, id : Receiver \cup Stream \cup IceState \cup {None},
          left : SUBSET Stream, size : 0 .. Cardinality(Stream)]

(* Every variable has its type. *)
TypeOK ==
  /\ hasReceiver \in BOOLEAN
  /\ active \in Receiver \cup {None}
  /\ offersPending \in SUBSET Stream
  /\ ice \in [Stream -> IceState \cup {None}]
  /\ channels \in SUBSET Stream
  /\ dcOpen \in SUBSET Stream
  /\ connected \in BOOLEAN
  /\ recv \in Place /\ keep \in Place /\ cb \in [Stream -> Place]
  /\ evq \in [Stream -> Seq({"negotiate", "offer", "ice", "open", "close"})]
  /\ sock \in BOOLEAN
  /\ inbox \in Seq([type : {"receiver_joined", "receiver_left", "answer"},
                    id : Receiver \cup Stream])
  /\ conns \in [Receiver -> 0 .. 2]
  /\ joins \in 0 .. MaxJoins
  /\ answers \in [Stream -> Nat]
  /\ remote \in SUBSET Stream
  /\ iceProp \in [Stream -> IceState]
  /\ iceMoves \in [Stream -> 0 .. MaxIce]
  /\ dc \in [Stream -> {"none", "created", "open", "closed"}]
  /\ told \in SUBSET Receiver
  /\ fresh \in BOOLEAN
  /\ accepted \in Nat
  /\ made \in [Stream -> Nat]
  /\ offers \in [Stream -> Nat]

(* No callback of stream s is under way or waiting that could still change *)
(* what is known of its ICE state.                                         *)
IceSettled(s) ==
  /\ cb[s].at = "idle"
  /\ \A k \in DOMAIN evq[s] : evq[s][k] # "ice"

Settled == recv.at = "wait" /\ \A s \in Stream : IceSettled(s)

(* The active receiver is one the server has announced and not reported    *)
(* gone, whatever receiver_joined, receiver_left and ICE callbacks did in  *)
(* between: a receiver that left is never kept as the active one           *)
(* (webrtc_sender.py:145-172, 276-280).                                    *)
ActiveIsPresent ==
  active # None /\ recv.at \notin {"reset", "unset"} => active \in told

(* A stream in _dc_open always has its entry in data_channels, also in the *)
(* middle of the open and close callbacks: the senders index the dict with *)
(* any stream they find in the set (webrtc_sender.py:388-412).             *)
OpenHasChannel == dcOpen \subseteq channels

(* The state tracked for a stream is the real one when no callback for it  *)
(* is pending, however many changes one callback stood for.                *)
IceTracked ==
  \A s \in Stream : IceSettled(s) /\ ice[s] # None => ice[s] = iceProp[s]

(* Once all the tracked connections are dead, and no receiver was accepted *)
(* since, the sender is free for the next one, even if the streams died at *)
(* the same time on different threads (webrtc_sender.py:271-280).          *)
DeadIsReleased ==
  Settled /\ Tracked # {} /\ (\A s \in Tracked : ice[s] \in Dying) /\ ~fresh
    => ~hasReceiver /\ active = None

(* No offer is wasted before the first receiver: on-negotiation-needed is  *)
(* held back until one was accepted (webrtc_sender.py:50-53, 289-295).     *)
NoOfferBeforeReceiver ==
  \A s \in Stream : made[s] > 0 => accepted > 0

(* Every receiver that is accepted gets an offer of every stream, unless   *)
(* signaling is lost or the process ends (webrtc_sender.py:159-161): the   *)
(* offers always catch up with the acceptances, of which there are only    *)
(* MaxJoins.                                                               *)
AcceptedIsOffered ==
  []<>((\A s \in Stream : offers[s] >= accepted) \/ ~sock \/ ~Running)

(* "Keep alive + periodic clock info" (main.py:182-186): the loop ends     *)
(* with the signaling connection, not with an exception.                   *)
KeepAliveSurvives == keep.at # "crashed"
=============================================================================
