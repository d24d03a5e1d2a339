----------------------------- MODULE NngConnector -----------------------------
(***************************************************************************)
(* The connectors: objects that start an nng socket by a list of calls,    *)
(* receive in callbacks that nng runs on threads of its own, and are       *)
(* stopped and deleted by the thread that made them.  One object of each   *)
(* class in turn; the peer and nng itself are the environment.             *)
(*                                                                         *)
(* The blocking classes are read by the loops of Repeater and SubscribeTest. *)
(* A message is its number on the socket, 0 the result of a receive that   *)
(* failed.  The connectors' write is part of SubjectStream.                *)
(***************************************************************************)
EXTENDS Naturals, Sequences, FiniteSets

CONSTANTS
    MaxMsgs,    \* how many messages reach a socket
    MaxStarts,  \* how often start is called
    Size,       \* the size of each message
    BufferSize  \* the size of a reader's buffer, at first

ASSUME ConnectorAssumption ==
    /\ MaxMsgs \in Nat /\ MaxStarts \in Nat /\ BufferSize \in Nat
    /\ Size \in [1 .. MaxMsgs -> Nat]

VARIABLES
    kind,       \* the object's class
    app,        \* where its owner is
    starts,     \* how often start was called
    pc,         \* the call of start it is at
    mState,
    mSocket,    \* the socket's number, 0 for none
    aio,        \* the number of the aio the object holds, 0 for none
    sockets,    \* the sockets open in nng
    aios,       \* the aios allocated
    failedAt,   \* which starts have failed, each with the call it failed at
    dropped,    \* the aio that stop let go of, 0 for none
    pipe,       \* is the peer connected?
    connected,  \* what AsyncSubscriber says of that
    arrived,    \* how many messages have reached the socket
    inbox,      \* those still in its receive queue
    armed,      \* does the aio wait for a message?
    slot,       \* the result the aio holds
    callbacks,  \* the callbacks running
    handed,     \* the messages given to mInDataFunc or read, in order
    len, cap,   \* a reader's bufsz, and the bytes its buffer really has
    held,       \* the message in the buffer, until the loop is through with it
    relayed     \* what Repeater has published of them

owner == <<kind, app, starts, pc, mState, mSocket, aio, sockets, aios, failedAt, dropped>>
peer  == <<pipe, connected, arrived>>
net   == <<inbox, armed, slot, callbacks, handed>>
reader == <<len, cap, held, relayed>>
vars  == <<owner, peer, net, reader>>

-----------------------------------------------------------------------------
(* The classes: the calls of start, in order.                              *)

AsyncPairSteps ==
    [AsyncPairClient |-> <<"open", "aio", "dial", "recv", "STARTED">>,
     AsyncPairServer |-> <<"open", "aio", "listen", "recv", "STARTED">>]

AsyncPushSteps ==
    [AsyncPipelinePush |-> <<"open", "aio", "dialer", "tls", "connect", "recv">>]

AsyncPullSteps == [AsyncPipelinePull |-> <<"open", "aio", "listen", "recv">>]

AsyncPublisherSteps == [AsyncPublisher |-> <<"open", "listen", "STARTED">>]

AsyncSubscriberSteps ==
    [AsyncSubscriber |-> <<"open", "subscribe", "dialer", "tls", "notify",
                           "connect", "aio", "recv", "STARTED">>]

AsyncRequestSteps ==
    [AsyncRequest |-> <<"open", "aio", "dial", "recv", "STARTED">>,
     AsyncReply   |-> <<"open", "aio", "listen", "recv", "STARTED">>]

PairSteps == [ClientPair |-> <<"open", "dial">>, ServerPair |-> <<"open", "listen">>]

PipelineSteps ==
    [PipelinePush |-> <<"open", "dial">>, PipelinePull |-> <<"open", "listen">>]

PublisherSteps == [Publisher |-> <<"open", "listen">>]

SubscriberSteps == [Subscriber |-> <<"open", "dial", "subscribe">>]

RequestSteps == [Request |-> <<"open", "dial">>, Reply |-> <<"open", "listen">>]

AsyncTables ==
    {AsyncPairSteps, AsyncPushSteps, AsyncPullSteps, AsyncPublisherSteps, AsyncSubscriberSteps,
     AsyncRequestSteps}

BlockingTables == {PairSteps, PipelineSteps, PublisherSteps, SubscriberSteps, RequestSteps}

Blocking == UNION {DOMAIN t : t \in BlockingTables}
Kinds    == (UNION {DOMAIN t : t \in AsyncTables}) \cup Blocking

Steps == [k \in Kinds |-> (CHOOSE t \in AsyncTables \cup BlockingTables : k \in DOMAIN t)[k]]

\* The classes whose start fails without saying why.
Mute     == {"AsyncPipelinePull", "Subscriber"}

\* The classes whose callback is asyncReadMsg.
ByMessage == {"AsyncPairClient", "AsyncPairServer", "AsyncSubscriber"}
\* nng receives on these sockets; push cannot, and req0 only answers to what
\* was sent before.  AsyncReply opens a req0 socket as well.
Hears == ByMessage \cup {"AsyncPipelinePull"}
\* The classes Repeater and SubscribeTest read from.
Read  == {"PipelinePull", "Subscriber", "ClientPair", "ServerPair"}

-----------------------------------------------------------------------------
Init ==
    /\ kind = "none" /\ app = "none" /\ starts = 0 /\ pc = 1
    /\ mState = "NOTSTARTED" /\ mSocket = 0 /\ aio = 0
    /\ sockets = {} /\ aios = {} /\ failedAt = {} /\ dropped = 0
    /\ pipe = FALSE /\ connected = FALSE /\ arrived = 0
    /\ inbox = <<>> /\ armed = FALSE /\ slot = 0 /\ callbacks = {} /\ handed = <<>>
    /\ len = BufferSize /\ cap = BufferSize /\ held = 0 /\ relayed = <<>>

New(k) ==
    /\ app = "none" /\ kind' = k /\ app' = "idle"
    /\ UNCHANGED <<starts, pc, mState, mSocket, aio, sockets, aios, failedAt, dropped,
                   peer, net, reader>>

\* An owner whose start failed may call it again on the same object.
CallStart ==
    /\ app \in {"idle", "failed"} /\ starts < MaxStarts
    /\ app' = "starting" /\ starts' = starts + 1 /\ pc' = 1
    /\ UNCHANGED <<kind, mState, mSocket, aio, sockets, aios, failedAt, dropped,
                   peer, net, reader>>

Call == Steps[kind][pc]

\* The n-th start opens socket n and allocates aio n.
Open ==
    /\ mSocket' = starts /\ sockets' = sockets \cup {starts}
    /\ pipe' = FALSE /\ arrived' = 0 /\ inbox' = <<>> /\ handed' = <<>>
    /\ UNCHANGED <<mState, aio, aios, connected, armed, slot, callbacks, reader>>

AllocAio ==
    /\ aio' = starts /\ aios' = aios \cup {starts}
    /\ UNCHANGED <<mState, mSocket, sockets, peer, net, reader>>

Receive ==
    /\ armed' = TRUE
    /\ UNCHANGED <<mState, mSocket, sockets, aio, aios, peer,
                   inbox, slot, callbacks, handed, reader>>

\* The last assignment of start: it overwrites what a callback has set.
SetStarted ==
    /\ mState' = "STARTED"
    /\ UNCHANGED <<mSocket, sockets, aio, aios, peer, net, reader>>

CallSucceeds ==
    /\ app = "starting"
    /\ CASE Call = "open"    -> Open
         [] Call = "aio"     -> AllocAio
         [] Call = "recv"    -> Receive
         [] Call = "STARTED" -> SetStarted
         [] OTHER -> UNCHANGED <<mState, mSocket, sockets, aio, aios, peer, net, reader>>
    /\ pc' = pc + 1
    /\ app' = IF pc = Len(Steps[kind]) THEN "up" ELSE "starting"
    /\ UNCHANGED <<kind, starts, failedAt, dropped>>

\* Mutant of Release: the socket is not closed.
ReleaseAioOnly ==
    IF kind = "AsyncPipelinePush" /\ Call = "connect"
    THEN /\ mSocket' = 0 /\ aio' = 0 /\ aios' = aios \ {aio}
         /\ UNCHANGED sockets
    ELSE UNCHANGED <<mSocket, sockets, aio, aios>>

\* A push connector that cannot connect gives back what it holds.
Release ==
    IF kind = "AsyncPipelinePush" /\ Call = "connect"
    THEN /\ mSocket' = 0 /\ sockets' = sockets \ {mSocket}
         /\ aio' = 0 /\ aios' = aios \ {aio}
    ELSE UNCHANGED <<mSocket, sockets, aio, aios>>

CallFails ==
    /\ app = "starting" /\ Call \notin {"recv", "STARTED"}
    /\ Release
    /\ mState' = IF kind \in Mute THEN mState ELSE "STATE_ERROR"
    /\ app' = "failed" /\ failedAt' = failedAt \cup {<<starts, Call>>}
    /\ UNCHANGED <<kind, starts, pc, dropped, peer, net, reader>>

-----------------------------------------------------------------------------
(* nng and the peer.                                                       *)

Reachable ==
    /\ mSocket # 0 /\ app \in {"starting", "up"}
    /\ \E i \in 1 .. pc - 1 : Steps[kind][i] \in {"dial", "listen", "connect"}

Connect ==
    /\ Reachable /\ ~pipe /\ pipe' = TRUE
    /\ connected' = (connected \/ kind = "AsyncSubscriber")
    /\ UNCHANGED <<owner, arrived, net, reader>>

\* start asks for the event of pipes that are added only: AsyncSubscriber says
\* it is connected for ever.
Disconnect == pipe /\ pipe' = FALSE /\ UNCHANGED <<owner, connected, arrived, net, reader>>

Arrive ==
    /\ pipe /\ mSocket # 0 /\ kind \in Hears \cup Read /\ arrived < MaxMsgs
    /\ arrived' = arrived + 1 /\ inbox' = Append(inbox, arrived + 1)
    /\ UNCHANGED <<owner, pipe, connected, armed, slot, callbacks, handed, reader>>

\* A receive ends with a message, or with an error when the socket cannot
\* receive or is closed, or when the aio is stopped; either calls back.
ReceiveEnds(m) ==
    /\ armed /\ armed' = FALSE /\ slot' = m
    /\ callbacks' = callbacks \cup {[at |-> "called", msg |-> 0]}
    /\ UNCHANGED <<owner, peer, handed, reader>>

Received ==
    /\ mSocket # 0 /\ inbox # <<>> /\ ReceiveEnds(Head(inbox))
    /\ inbox' = Tail(inbox)

ReceiveFails ==
    /\ mSocket = 0 \/ kind \notin Hears \/ app = "joining"
    /\ ReceiveEnds(0) /\ UNCHANGED inbox

-----------------------------------------------------------------------------
(* The callbacks.  c is the one that takes a step, to the place p with the *)
(* message m; nng_recv_aio does nothing once the aio is stopped.           *)

GoesOn(c, p, m)  == callbacks' = (callbacks \ {c}) \cup {[at |-> p, msg |-> m]}
Returns(c)       == callbacks' = callbacks \ {c}
RecvAio          == armed' = (app # "joining")
HandOver(c)      == handed' = Append(handed, c.msg)
SetError         == mState' = "STATE_ERROR"
OwnerBut         == <<kind, app, starts, pc, mSocket, aio, sockets, aios, failedAt, dropped>>

\* nng_aio_result, nng_aio_get_msg.
TakeResult(c) ==
    /\ c.at = "called" /\ kind \in ByMessage
    /\ \/ slot = 0 /\ SetError /\ Returns(c)
       \/ slot # 0 /\ GoesOn(c, "rearm", slot) /\ UNCHANGED mState
    /\ UNCHANGED <<OwnerBut, peer, inbox, armed, slot, handed, reader>>

\* Mutant of Rearm: the receive is not armed again.
RearmForgotten(c) ==
    /\ c.at = "rearm" /\ kind \in ByMessage
    /\ GoesOn(c, "hand", c.msg)
    /\ UNCHANGED <<owner, peer, inbox, armed, slot, handed, reader>>

\* Receives again before the message is handed over: from here the next
\* callback may run beside this one.
Rearm(c) ==
    /\ c.at = "rearm" /\ kind \in ByMessage
    /\ RecvAio /\ GoesOn(c, "hand", c.msg)
    /\ UNCHANGED <<owner, peer, inbox, slot, handed, reader>>

Empty(m) == Size[m] = 0

\* mInDataFunc is set by everyone who receives; an empty message does not reach it.
Hand(c) ==
    /\ c.at = "hand" /\ kind \in ByMessage
    /\ IF Empty(c.msg) THEN UNCHANGED handed ELSE HandOver(c)
    /\ Returns(c) /\ mState' = "READING"
    /\ UNCHANGED <<OwnerBut, peer, inbox, armed, slot, reader>>

\* Mutant of AsyncReadMsg: the message is taken after the receive is armed again.
AsyncReadMsgLate(c) ==
    \/ /\ c.at = "called" /\ kind \in ByMessage /\ slot # 0
       /\ RecvAio /\ GoesOn(c, "rearm", 0)
       /\ UNCHANGED <<owner, peer, inbox, slot, handed, reader>>
    \/ /\ c.at = "rearm" /\ kind \in ByMessage /\ GoesOn(c, "hand", slot)
       /\ UNCHANGED <<owner, peer, inbox, armed, slot, handed, reader>>
    \/ TakeResult(c) /\ slot = 0
    \/ Hand(c)

AsyncReadMsg(c) == TakeResult(c) \/ Rearm(c) \/ Hand(c)

\* The Callback_ of the pipeline and of request and reply: it looks at the
\* result of the receive only, and receives another message.
LookAtResult(c) ==
    /\ c.at = "called" /\ kind \notin ByMessage
    /\ IF slot # 0 THEN GoesOn(c, "receive", 0) ELSE Returns(c)
    /\ mState' = IF slot = 0 /\ kind \in DOMAIN AsyncRequestSteps
                 THEN "STATE_ERROR" ELSE mState
    /\ UNCHANGED <<OwnerBut, peer, inbox, armed, slot, handed, reader>>

\* nng_recv blocks until there is a message or the socket is closed.
ReceiveAnother(c) ==
    /\ c.at = "receive"
    /\ \/ mSocket = 0 /\ Returns(c) /\ UNCHANGED inbox
       \/ /\ mSocket # 0 /\ inbox # <<>>
          /\ GoesOn(c, "hand", Head(inbox)) /\ inbox' = Tail(inbox)
    /\ UNCHANGED <<owner, peer, armed, slot, handed, reader>>

HandAndRearm(c) ==
    /\ c.at = "hand" /\ kind \notin ByMessage
    /\ HandOver(c) /\ RecvAio /\ Returns(c)
    /\ UNCHANGED <<owner, peer, inbox, slot, reader>>

Callback(c) ==
    LookAtResult(c) \/ ReceiveAnother(c) \/ HandAndRearm(c)

-----------------------------------------------------------------------------
(* The readers: both loops read into a buffer that grows, and use what they *)
(* have read before they read again.                                       *)

\* Mutant of ReadMessage: a message one byte longer than the buffer is let in.
ReadMessageOver ==
    /\ app = "up" /\ kind \in Read /\ held = 0 /\ inbox # <<>>
    /\ LET m == Head(inbox)
       IN  /\ cap' = IF Size[m] > len + 1 THEN Size[m] ELSE cap
           /\ len' = Size[m] /\ held' = m /\ handed' = Append(handed, m)
    /\ inbox' = Tail(inbox)
    /\ UNCHANGED <<owner, peer, armed, slot, callbacks, relayed>>

\* BlockingNngConnector::read(char**, size_t*): len becomes the size of the
\* message also when the buffer is larger.
ReadMessage ==
    /\ app = "up" /\ kind \in Read /\ held = 0 /\ inbox # <<>>
    /\ LET m == Head(inbox)
       IN  /\ cap' = IF Size[m] > len THEN Size[m] ELSE cap
           /\ len' = Size[m] /\ held' = m /\ handed' = Append(handed, m)
    /\ inbox' = Tail(inbox)
    /\ UNCHANGED <<owner, peer, armed, slot, callbacks, relayed>>

\* Mutant of Relay: what could not be published is kept, and so is what could.
RelayKeeps ==
    /\ held # 0 /\ kind = "PipelinePull" /\ Len(relayed) < MaxMsgs
    /\ relayed' = Append(relayed, held)
    /\ UNCHANGED <<owner, peer, net, len, cap, held>>

\* AsyncPublisher::write drops what its queue cannot take; an empty message is
\* not written.
Relay ==
    /\ held # 0 /\ kind = "PipelinePull" /\ held' = 0
    /\ \/ UNCHANGED relayed
       \/ ~Empty(held) /\ relayed' = Append(relayed, held)
    /\ UNCHANGED <<owner, peer, net, len, cap>>

ShowMessage ==
    /\ held # 0 /\ kind # "PipelinePull" /\ held' = 0
    /\ UNCHANGED <<owner, peer, net, len, cap, relayed>>

-----------------------------------------------------------------------------
(* Stop, and the destructors.                                              *)

\* Mutant of CallStop: the socket is closed after the aio is stopped.
CallStopLate ==
    /\ app \in {"idle", "failed", "up"} /\ kind \notin Blocking
    /\ app' = IF mSocket = 0 THEN "down" ELSE "closing"
    /\ UNCHANGED <<kind, starts, pc, mState, mSocket, aio, sockets, aios, failedAt, dropped,
                   peer, net, reader>>

\* AsyncNngConnector::stop closes the socket first ...
CallStop ==
    /\ app \in {"idle", "failed", "up"} /\ kind \notin Blocking
    /\ IF mSocket = 0
       THEN app' = "down" /\ UNCHANGED <<mSocket, sockets>>
       ELSE app' = "closing" /\ mSocket' = 0 /\ sockets' = sockets \ {mSocket}
    /\ UNCHANGED <<kind, starts, pc, mState, aio, aios, failedAt, dropped, peer, net, reader>>

\* ... and then stops the aio, which waits for its callbacks.
StopAio ==
    /\ app = "closing"
    /\ app' = IF aio = 0 THEN "down" ELSE "joining"
    /\ UNCHANGED <<kind, starts, pc, mState, mSocket, aio, sockets, aios, failedAt, dropped,
                   peer, net, reader>>

\* MUTANT: does not wait for the aio.
AioNotAwaited ==
    /\ app = "joining" /\ app' = "down" /\ aio' = 0 /\ dropped' = aio
    /\ UNCHANGED <<kind, starts, pc, mState, mSocket, sockets, aios, failedAt,
                   peer, net, reader>>

\* The aio is stopped and forgotten, not freed.
AioStopped ==
    /\ app = "joining" /\ callbacks = {} /\ ~armed
    /\ app' = "down" /\ aio' = 0 /\ dropped' = aio
    /\ UNCHANGED <<kind, starts, pc, mState, mSocket, sockets, aios, failedAt,
                   peer, net, reader>>

\* ~AsyncNngConnector frees the aio the object holds, which after a stop that did
\* anything is none.
Delete ==
    /\ app = "down" /\ app' = "gone" /\ aios' = aios \ {aio}
    /\ UNCHANGED <<kind, starts, pc, mState, mSocket, aio, sockets, failedAt, dropped,
                   peer, net, reader>>

\* The loops of the readers never end.
DeleteBlocking ==
    /\ app \in {"idle", "failed", "up"} /\ kind \in Blocking \ Read
    /\ app' = "gone" /\ sockets' = sockets \ {mSocket}
    /\ UNCHANGED <<kind, starts, pc, mState, mSocket, aio, aios, failedAt, dropped,
                   peer, net, reader>>

Stop == StopAio \/ AioStopped

Next ==
    \/ \E k \in Kinds : New(k)
    \/ CallStart \/ CallSucceeds \/ CallFails
    \/ Connect \/ Disconnect \/ Arrive \/ Received \/ ReceiveFails
    \/ \E c \in callbacks : AsyncReadMsg(c) \/ Callback(c)
    \/ ReadMessage \/ Relay \/ ShowMessage
    \/ CallStop \/ Stop \/ Delete \/ DeleteBlocking

\* nng ends receives and runs callbacks, each on a thread; a call of stop goes on.
Fairness ==
    /\ WF_vars(Received) /\ WF_vars(ReceiveFails) /\ WF_vars(Stop)
    /\ \A m \in 0 .. MaxMsgs :
          WF_vars(\E c \in callbacks : c.msg = m /\ (AsyncReadMsg(c) \/ Callback(c)))

Spec == Init /\ [][Next]_vars /\ Fairness

-----------------------------------------------------------------------------
TypeOK ==
    /\ kind \in Kinds \cup {"none"}
    /\ app \in {"none", "idle", "starting", "failed", "up",
                "closing", "joining", "down", "gone"}
    /\ starts \in 0 .. MaxStarts /\ pc \in 1 .. 10
    /\ mState \in {"NOTSTARTED", "STARTED", "READING", "STATE_ERROR"}
    /\ {mSocket, aio, dropped} \subseteq 0 .. MaxStarts
    /\ sockets \subseteq 1 .. MaxStarts /\ aios \subseteq 1 .. MaxStarts
    /\ pipe \in BOOLEAN /\ connected \in BOOLEAN /\ armed \in BOOLEAN
    /\ arrived \in 0 .. MaxMsgs /\ slot \in 0 .. MaxMsgs
    /\ inbox \in Seq(1 .. MaxMsgs) /\ handed \in Seq(1 .. MaxMsgs)
    /\ len \in Nat /\ cap \in Nat /\ held \in 0 .. MaxMsgs
    /\ relayed \in Seq(1 .. MaxMsgs)
    /\ \A c \in callbacks : c.at \in {"called", "rearm", "hand", "receive"}
                            /\ c.msg \in 0 .. MaxMsgs

\* The places message m is in: handed over, in a callback, in the aio of a
\* callback that has just begun, in the queue.
Places(m) ==
    {<<"handed", i>> : i \in {j \in DOMAIN handed : handed[j] = m}}
    \cup {c \in callbacks : c.msg = m}
    \cup (IF slot = m THEN {c \in callbacks : c.at = "called"} ELSE {})
    \cup {<<"inbox", i>> : i \in {j \in DOMAIN inbox : inbox[j] = m}}

\* What the receiver's function gets of the messages that have come to an open
\* socket: the pair and subscriber classes each of them once, the empty ones
\* excepted, though callbacks overlap and share one aio; pipeline exactly every
\* second one, in order (the message the receive ended with is never taken);
\* request, reply and push none; a reader all of them in order.
Heard ==
    mSocket # 0 =>
        IF kind \in ByMessage
        THEN /\ \A i \in DOMAIN handed : ~Empty(handed[i])
             /\ \A m \in 1 .. arrived :
                   Cardinality(Places(m)) = 1 \/ (Empty(m) /\ Places(m) = {})
        ELSE IF kind \in Read
        THEN \A i \in DOMAIN handed : handed[i] = i
        ELSE \A i \in DOMAIN handed : kind = "AsyncPipelinePull" /\ handed[i] = 2 * i

\* Once stop has returned no callback runs or will run: the owner may free what
\* they use.
QuietAfterStop == app \in {"down", "gone"} => callbacks = {} /\ ~armed

\* The sockets and aios nobody can close or free any more.  A start that fails
\* loses what it has made, unless it failed before it had any or, in a push
\* connector, when it tried to connect: of the retries the comment at
\* async_pipeline.cpp:60 is about only those leak nothing.  And every stop of a
\* connector with an aio loses that, for good: it is none the object knows when
\* it is deleted.  Nothing else is lost.
LossesAccountedFor ==
    LET harmless == {"open"} \cup IF kind = "AsyncPipelinePush" THEN {"connect"} ELSE {}
        left     == {f[1] : f \in {g \in failedAt : g[2] \notin harmless}}
    IN  /\ sockets \subseteq {mSocket} \cup left
        /\ aios \subseteq {aio, dropped} \cup left
        /\ dropped # 0 => dropped \in aios

\* No message is copied past the end of the buffer, though len, which read looks
\* at, shrinks with every short message and the buffer does not.
BufferHolds == len <= cap /\ (held # 0 => Size[held] <= cap)

\* Repeater publishes what it was sent in the order it came, each message once.
RelaysInOrder ==
    \A i \in DOMAIN relayed :
        /\ \E j \in DOMAIN handed : handed[j] = relayed[i]
        /\ i > 1 => relayed[i - 1] < relayed[i]

\* A call of stop returns, also when a callback is blocked in a receive.
StopReturns == (app = "closing") ~> (app = "down")

\* A message in the queue of a pair or subscriber, if it is not empty, is handed
\* over unless the socket is closed: the receive is armed again after every message.
EventuallyHanded ==
    \A m \in {n \in 1 .. MaxMsgs : ~Empty(n)} :
        (kind \in ByMessage /\ app = "up" /\ \E i \in DOMAIN inbox : inbox[i] = m)
            ~> (mSocket = 0 \/ \E i \in DOMAIN handed : handed[i] = m)

=============================================================================
